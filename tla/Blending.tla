------------------------------ MODULE Blending ------------------------------
(***************************************************************************)
(* -composite (haio/transforms/composite.hpp and backend/transforms/       *)
(* composite): how a layer is mixed with the picture under it, mode by     *)
(* mode, and where it lands.  A pixel is <<red, green, blue, alpha>>, with *)
(* straight alpha; a picture has a width, a height and a pixel at every    *)
(* <<x, y>>.                                                               *)
(***************************************************************************)
EXTENDS Shares, Sequences

-----------------------------------------------------------------------------
(* Separable modes: a channel of the layer over the same channel under it. *)

Multiply(sc, dc) == sc ** dc
Screen(sc, dc) == (sc ++ dc) -- (sc ** dc)
Darken(sc, dc) == Lesser(sc, dc)
Lighten(sc, dc) == Greater(sc, dc)
Difference(sc, dc) == IF sc \prec dc THEN dc -- sc ELSE sc -- dc
Exclusion(sc, dc) == (sc ++ dc) -- (Two ** (sc ** dc))
LinearBurn(sc, dc) == (sc ++ dc) -- One
LinearDodge(sc, dc) == sc ++ dc
LinearLight(sc, dc) == (dc ++ (Two ** sc)) -- One
MinusSrc(sc, dc) == dc -- sc
MinusDst(sc, dc) == sc -- dc

Doubled(sc, dc) == Two ** (sc ** dc)
Away(sc, dc) == One -- (Two ** ((One -- sc) ** (One -- dc)))
HardLight(sc, dc) == IF sc \preceq Half THEN Doubled(sc, dc) ELSE Away(sc, dc)
Overlay(sc, dc) == IF dc \preceq Half THEN Doubled(sc, dc) ELSE Away(sc, dc)

(* Mutant of ColorBurn: black over white is asked about first. *)
ColorBurnBlackFirst(sc, dc) ==
  IF sc = Zero THEN Zero ELSE One -- Lesser(One, (One -- dc) // sc)

ColorBurn(sc, dc) ==
  IF One \preceq dc THEN One
  ELSE IF sc \preceq Zero THEN Zero
  ELSE One -- Lesser(One, (One -- dc) // sc)

ColorDodge(sc, dc) == IF One \preceq sc ++ dc THEN One ELSE dc // (One -- sc)

VividLight(sc, dc) ==
  IF sc = One THEN One
  ELSE IF sc \preceq Half THEN One -- ((One -- dc) ** ReciprocalOf(Two ** sc))
  ELSE dc ** ReciprocalOf(Two ** (One -- sc))

PinLight(sc, dc) ==
  IF dc \prec (Two ** sc) -- One THEN (Two ** sc) -- One
  ELSE IF Two ** sc \prec dc THEN Two ** sc ELSE dc

PegtopLight(sc, dc) == ((dc ** dc) ** (One -- (Two ** sc))) ++ Doubled(sc, dc)

SoftLight(sc, dc) ==
  LET bright == IF dc \preceq <<1, 4>> THEN (((<<16, 1>> ** dc -- <<12, 1>>) ** dc) ++ <<4, 1>>) ** dc
                ELSE Root(dc)
  IN  IF sc \preceq Half
      THEN dc -- ((One -- (Two ** sc)) ** (dc ** (One -- dc)))
      ELSE dc ++ (((Two ** sc) -- One) ** (bright -- dc))

DivideSrc(sc, dc) == IF sc = Zero THEN (IF dc = Zero THEN Zero ELSE One) ELSE dc // sc
DivideDst(sc, dc) == IF dc = Zero THEN (IF sc = Zero THEN Zero ELSE One) ELSE sc // dc

SeparableModes ==
  {"Multiply", "Screen", "Darken", "Lighten", "Difference", "Exclusion", "LinearBurn", "LinearDodge",
   "LinearLight", "MinusSrc", "MinusDst", "HardLight", "Overlay", "ColorBurn", "ColorDodge", "VividLight",
   "PinLight", "PegtopLight", "SoftLight", "DivideSrc", "DivideDst"}

Separable(mode, sc, dc) ==
  CASE mode = "Multiply" -> Multiply(sc, dc) [] mode = "Screen" -> Screen(sc, dc)
    [] mode = "Darken" -> Darken(sc, dc) [] mode = "Lighten" -> Lighten(sc, dc)
    [] mode = "Difference" -> Difference(sc, dc) [] mode = "Exclusion" -> Exclusion(sc, dc)
    [] mode = "LinearBurn" -> LinearBurn(sc, dc) [] mode = "LinearDodge" -> LinearDodge(sc, dc)
    [] mode = "LinearLight" -> LinearLight(sc, dc) [] mode = "MinusSrc" -> MinusSrc(sc, dc)
    [] mode = "MinusDst" -> MinusDst(sc, dc) [] mode = "HardLight" -> HardLight(sc, dc)
    [] mode = "Overlay" -> Overlay(sc, dc) [] mode = "ColorBurn" -> ColorBurn(sc, dc)
    [] mode = "ColorDodge" -> ColorDodge(sc, dc) [] mode = "VividLight" -> VividLight(sc, dc)
    [] mode = "PinLight" -> PinLight(sc, dc) [] mode = "PegtopLight" -> PegtopLight(sc, dc)
    [] mode = "SoftLight" -> SoftLight(sc, dc) [] mode = "DivideSrc" -> DivideSrc(sc, dc)
    [] mode = "DivideDst" -> DivideDst(sc, dc)

-----------------------------------------------------------------------------
(* Modes worked out premultiplied, as imagemagick 6 does.                  *)

UnionOf(sa, da) == (sa ++ da) -- (sa ** da)

Over(sc, sa, dc, da) ==
  IF One \preceq sa THEN sc ELSE (sc ** sa) ++ ((dc ** da) ** (One -- sa))

Plus(sc, sa, dc, da) == (sc ** sa) ++ (dc ** da)

BlendSeparable(mode, sc, sa, dc, da) ==
  (((sc ** sa) ** (One -- da)) ++ ((dc ** da) ** (One -- sa)))
    ++ ((sa ** da) ** Separable(mode, sc, dc))

Premultiplied(mode, sc, sa, dc, da) ==
  CASE mode = "Over" -> Over(sc, sa, dc, da)
    [] mode = "Plus" -> Plus(sc, sa, dc, da)
    [] OTHER -> BlendSeparable(mode, sc, sa, dc, da)

Straight(pixel) == [c \in 1 .. 4 |-> Frac(pixel[c], Top)]
Pixel(channel(_), alpha) == <<channel(1), channel(2), channel(3), alpha>>
Clear == <<0, 0, 0, 0>>

(* A pixel of the layer that is clear changes nothing.                     *)
Unmultiplied(mode, s, d, ra) ==
  LET channel(c) == IF ra = Zero THEN 0
                    ELSE QuantumByteOf(Premultiplied(mode, s[c], s[4], d[c], d[4]) // ra)
  IN  Pixel(channel, Top - QuantumByteOf(One -- ra))
BlendWith(mode, over, under) ==
  LET s == Straight(over)
      d == Straight(under)
      ra == Clamped(IF mode = "Plus" THEN s[4] ++ d[4] ELSE UnionOf(s[4], d[4]))
  IN  IF over[4] = 0 THEN under ELSE Unmultiplied(mode, s, d, ra)
-----------------------------------------------------------------------------
(* Modes on whole pixels, four shares of the layer's s and of the          *)
(* picture's d.                                                            *)

IntensityOf(p) ==
  ((<<212656, 1000000>> ** p[1]) ++ (<<715158, 1000000>> ** p[2])) ++ (<<72186, 1000000>> ** p[3])

Rgb(channel(_), alpha) == <<channel(1), channel(2), channel(3), alpha>>
Faded(p, alpha) == [p EXCEPT ![4] = alpha]

Copy(s, d) == s
Src(s, d) == s
ClearAll(s, d) == <<Zero, Zero, Zero, Zero>>
CopyRed(s, d) == [d EXCEPT ![1] = s[1]]
CopyCyan(s, d) == [d EXCEPT ![1] = s[1]]
CopyGreen(s, d) == [d EXCEPT ![2] = s[2]]
CopyMagenta(s, d) == [d EXCEPT ![2] = s[2]]
CopyBlue(s, d) == [d EXCEPT ![3] = s[3]]
CopyYellow(s, d) == [d EXCEPT ![3] = s[3]]

(* A layer that is opaque everywhere has no alpha to copy and is a mask.   *)
CopyOpacity(s, d, mask) == Faded(d, IF mask THEN IntensityOf(s) ELSE s[4])

SrcIn(s, d) == Faded(s, s[4] ** d[4])
SrcOut(s, d) == Faded(s, s[4] ** (One -- d[4]))
DstOut(s, d) == Faded(d, d[4] ** (One -- s[4]))

SrcAtop(s, d) ==
  LET channel(c) == (s[c] ** s[4]) ++ (d[c] ** (One -- s[4])) IN Rgb(channel, d[4])
DstAtop(s, d) ==
  LET channel(c) == (d[c] ** d[4]) ++ (s[c] ** (One -- d[4])) IN Rgb(channel, s[4])

DstOver(s, d) ==
  LET ra == UnionOf(s[4], d[4])
      channel(c) == ((d[c] ** d[4]) ++ ((s[c] ** s[4]) ** (One -- d[4]))) ** ReciprocalOf(ra)
  IN  Rgb(channel, ra)

Xor(s, d) ==
  LET ra == (s[4] ++ d[4]) -- (Two ** (s[4] ** d[4]))
      channel(c) == (((s[c] ** s[4]) ** (One -- d[4])) ++ ((d[c] ** d[4]) ** (One -- s[4])))
                      ** ReciprocalOf(ra)
  IN  Rgb(channel, ra)

HardMix(s, d) ==
  LET ra == UnionOf(s[4], d[4])
      channel(c) == IF (s[c] ** s[4]) ++ (d[c] ** d[4]) \prec One THEN Zero ELSE ReciprocalOf(ra)
  IN  Rgb(channel, ra)

ModulusAdd(s, d) ==
  LET sum(c) == (s[c] ** s[4]) ++ (d[c] ** d[4])
      channel(c) == IF sum(c) \preceq One THEN sum(c) ELSE sum(c) -- One
  IN  Rgb(channel, UnionOf(s[4], d[4]))

ModulusSubtract(s, d) ==
  LET difference(c) == (s[c] ** s[4]) -- (d[c] ** d[4])
      channel(c) == IF difference(c) \prec Zero THEN difference(c) ++ One ELSE difference(c)
  IN  Rgb(channel, UnionOf(s[4], d[4]))

Bumpmap(s, d) ==
  LET level == IntensityOf(s)
      channel(c) == level ** d[c]
  IN  IF s[4] = Zero THEN d ELSE Rgb(channel, One -- (level ** (One -- s[4])))

ChangeMask(s, d) ==
  LET same == s[4] = d[4] /\ (d[4] = Zero \/ \A c \in 1 .. 3 : s[c] = d[c])
  IN  Faded(d, IF d[4] \prec Half \/ same THEN Zero ELSE One)

DarkenIntensity(s, d) == IF s[4] ** IntensityOf(s) \prec d[4] ** IntensityOf(d) THEN s ELSE d
LightenIntensity(s, d) == IF d[4] ** IntensityOf(d) \prec s[4] ** IntensityOf(s) THEN s ELSE d

Stereo(s, d) == <<s[1], d[2], d[3], Greater(Zero, One -- (<<3, 2>> ** (One -- d[4])))>>

-----------------------------------------------------------------------------
(* Hue, chroma and luma.  A hue is where it is on the hexagon, 0 to 6.     *)

LumaOf(r, g, b) ==
  ((<<298839, 1000000>> ** r) ++ (<<586811, 1000000>> ** g)) ++ (<<114350, 1000000>> ** b)

HueOf(r, g, b, most, chroma) ==
  LET lean == (g -- b) // chroma IN
  IF chroma = Zero THEN Zero
  ELSE IF r = most THEN (IF lean \prec Zero THEN lean ++ <<6, 1>> ELSE lean)
  ELSE IF g = most THEN ((b -- r) // chroma) ++ Two
  ELSE ((r -- g) // chroma) ++ <<4, 1>>

SplitOf(p) ==
  LET most == Greater(p[1], Greater(p[2], p[3]))
      chroma == most -- Lesser(p[1], Lesser(p[2], p[3]))
  IN  [hue |-> HueOf(p[1], p[2], p[3], most, chroma), chroma |-> chroma, luma |-> LumaOf(p[1], p[2], p[3])]

(* Back: what the hue and the chroma make is lifted to the luma.           *)
Lifted(made, luma) == [i \in 1 .. 3 |-> made[i] ++ (luma -- LumaOf(made[1], made[2], made[3]))]
Hexagon(c, x) ==
  <<<<c, x, Zero>>, <<x, c, Zero>>, <<Zero, c, x>>, <<Zero, x, c>>, <<x, Zero, c>>, <<c, Zero, x>>>>
RgbOf(split) ==
  LET sixth == split.hue[1] \div split.hue[2]
      around == split.hue -- <<2 * (sixth \div 2), 1>>
      x == split.chroma ** (One -- (IF around \prec One THEN One -- around ELSE around -- One))
  IN  Lifted(Hexagon(split.chroma, x)[sixth + 1], split.luma)

HclBlend(s, d, mixed) ==
  IF s[4] = Zero THEN d ELSE IF d[4] = Zero THEN s
  ELSE RgbOf(mixed) \o <<Greater(s[4], d[4])>>

Hue(s, d) == HclBlend(s, d, [SplitOf(d) EXCEPT !.hue = SplitOf(s).hue])
Saturate(s, d) == HclBlend(s, d, [SplitOf(d) EXCEPT !.chroma = SplitOf(s).chroma])
Colorize(s, d) == HclBlend(s, d, [SplitOf(s) EXCEPT !.luma = SplitOf(d).luma])
Luminize(s, d) == HclBlend(s, d, [SplitOf(d) EXCEPT !.luma = SplitOf(s).luma])

-----------------------------------------------------------------------------
(* Every pixel the layer covers, the clear ones too, and what is left of   *)
(* the picture where it does not reach.                                    *)

PixelModes ==
  {"Copy", "Src", "Clear", "CopyRed", "CopyCyan", "CopyGreen", "CopyMagenta", "CopyBlue", "CopyYellow",
   "CopyOpacity", "SrcIn", "SrcOut", "DstOut", "SrcAtop", "DstAtop", "DstOver", "Xor", "HardMix", "ModulusAdd",
   "ModulusSubtract", "Bumpmap", "ChangeMask", "DarkenIntensity", "LightenIntensity", "Stereo", "Hue",
   "Saturate", "Colorize", "Luminize"}
UntouchedModes == {"Dst", "CopyBlack"}
Modes == SeparableModes \cup {"Over", "Plus", "DstIn", "Tint"} \cup PixelModes \cup UntouchedModes

(* Mutant of Clears: the modes that keep the layer keep the rest as well. *)
ClearsSome == {"Clear", "ChangeMask", "CopyOpacity"}

Clears == {"Clear", "ChangeMask", "CopyOpacity", "DstAtop", "SrcIn", "SrcOut", "Src"}

Mixed(mode, s, d, mask) ==
  CASE mode = "Copy" -> Copy(s, d) [] mode = "Src" -> Src(s, d) [] mode = "Clear" -> ClearAll(s, d)
    [] mode = "CopyRed" -> CopyRed(s, d) [] mode = "CopyCyan" -> CopyCyan(s, d)
    [] mode = "CopyGreen" -> CopyGreen(s, d) [] mode = "CopyMagenta" -> CopyMagenta(s, d)
    [] mode = "CopyBlue" -> CopyBlue(s, d) [] mode = "CopyYellow" -> CopyYellow(s, d)
    [] mode = "CopyOpacity" -> CopyOpacity(s, d, mask)
    [] mode = "SrcIn" -> SrcIn(s, d) [] mode = "SrcOut" -> SrcOut(s, d) [] mode = "DstOut" -> DstOut(s, d)
    [] mode = "SrcAtop" -> SrcAtop(s, d) [] mode = "DstAtop" -> DstAtop(s, d) [] mode = "DstOver" -> DstOver(s, d)
    [] mode = "Xor" -> Xor(s, d) [] mode = "HardMix" -> HardMix(s, d)
    [] mode = "ModulusAdd" -> ModulusAdd(s, d) [] mode = "ModulusSubtract" -> ModulusSubtract(s, d)
    [] mode = "Bumpmap" -> Bumpmap(s, d) [] mode = "ChangeMask" -> ChangeMask(s, d)
    [] mode = "DarkenIntensity" -> DarkenIntensity(s, d) [] mode = "LightenIntensity" -> LightenIntensity(s, d)
    [] mode = "Stereo" -> Stereo(s, d) [] mode = "Hue" -> Hue(s, d) [] mode = "Saturate" -> Saturate(s, d)
    [] mode = "Colorize" -> Colorize(s, d) [] mode = "Luminize" -> Luminize(s, d)

AsPixel(res) ==
  LET alpha == Top - QuantumByteOf(One -- res[4])
      channel(c) == QuantumByteOf(res[c])
  IN  IF alpha = 0 THEN Clear ELSE Pixel(channel, alpha)
BlendPixels(mode, over, under, mask) == AsPixel(Mixed(mode, Straight(over), Straight(under), mask))

(* An opaque layer leaves the pixel as it was, one that is clear clears it.*)
DstIn(over, under) ==
  LET alpha == Top - QuantumByteOf(One -- (Frac(under[4], Top) ** Frac(over[4], Top)))
  IN  CASE over[4] = Top -> under
        [] over[4] = 0 \/ (over[4] # Top /\ alpha = 0) -> Clear
        [] OTHER -> <<under[1], under[2], under[3], alpha>>

(* The picture is a shape: dark is where the layer's colour goes.  A shape *)
(* may also be grey, with an alpha or without.                             *)
TintLevel(colour, grey, alpha) ==
  LET covers == TimesOf(alpha, Top - grey)
  IN  IF covers = 0 THEN Clear ELSE <<colour[1], colour[2], colour[3], covers>>

GreyOf(p) == (212656 * p[1] + 715158 * p[2] + 72186 * p[3] + 500000) \div 1000000
Tint(colour, shape) == TintLevel(colour, GreyOf(shape), TimesOf(colour[4], shape[4]))
TintGrayAlpha(colour, grey, alpha) == TintLevel(colour, grey, TimesOf(colour[4], alpha))
TintGray(colour, grey) == TintLevel(colour, grey, colour[4])

-----------------------------------------------------------------------------
(* Pictures.                                                               *)

Places(width, height) == (0 .. width - 1) \X (0 .. height - 1)
Plain(width, height, pixel) == [width |-> width, height |-> height, at |-> [p \in Places(width, height) |-> pixel]]

Covers(layer, x, y, p) ==
  p[1] >= x /\ p[2] >= y /\ p[1] < x + layer.width /\ p[2] < y + layer.height
ColourAt(layer, x, y, p) ==
  IF Covers(layer, x, y, p) THEN layer.at[<<p[1] - x, p[2] - y>>] ELSE <<0, 0, 0, Top>>

(* C++ halves towards zero.                                                *)
Halved(n) == IF n < 0 THEN -((-n) \div 2) ELSE n \div 2

(* Where the layer's top left corner lands: the offset is measured away    *)
(* from the edge or the corner the gravity names.                          *)
PlaceOf(base, layer, gravity, dx, dy) ==
  LET across == base.width - layer.width
      down == base.height - layer.height
  IN  <<CASE gravity \in {"North", "Center", "South"} -> Halved(across) + dx
          [] gravity \in {"NorthEast", "East", "SouthEast"} -> across - dx
          [] OTHER -> dx,
        CASE gravity \in {"West", "Center", "East"} -> Halved(down) + dy
          [] gravity \in {"SouthWest", "South", "SouthEast"} -> down - dy
          [] OTHER -> dy>>

Blended(mode, layer, x, y, p, under) ==
  LET covers == Covers(layer, x, y, p)
      over == layer.at[<<p[1] - x, p[2] - y>>]
      mask == \A q \in DOMAIN layer.at : layer.at[q][4] = Top
  IN  CASE mode \in UntouchedModes -> under
        [] mode = "Tint" -> Tint(ColourAt(layer, x, y, p), under)
        [] mode \notin UntouchedModes \cup {"Tint"} /\ ~covers ->
             IF mode \in Clears \cup {"DstIn"} THEN Clear ELSE under
        [] covers /\ mode = "DstIn" -> DstIn(over, under)
        [] covers /\ mode \in PixelModes -> BlendPixels(mode, over, under, mask)
        [] covers /\ mode \in SeparableModes \cup {"Over", "Plus"} -> BlendWith(mode, over, under)

Composite(base, layer, mode, gravity, dx, dy) ==
  LET to == PlaceOf(base, layer, gravity, dx, dy)
  IN  [base EXCEPT !.at = [p \in DOMAIN @ |-> Blended(mode, layer, to[1], to[2], p, base.at[p])]]

-----------------------------------------------------------------------------
(* What is said of these modes elsewhere.                                  *)

(* Porter and Duff: what each mode takes of the layer and of the picture.  *)
PorterDuff ==
  [Clear |-> [s |-> "none", d |-> "none"], Src |-> [s |-> "all", d |-> "none"],
   Over |-> [s |-> "all", d |-> "outside"], DstOver |-> [s |-> "outside", d |-> "all"],
   SrcIn |-> [s |-> "inside", d |-> "none"], DstIn |-> [s |-> "none", d |-> "inside"],
   SrcOut |-> [s |-> "outside", d |-> "none"], DstOut |-> [s |-> "none", d |-> "outside"],
   SrcAtop |-> [s |-> "inside", d |-> "outside"], DstAtop |-> [s |-> "outside", d |-> "inside"],
   Xor |-> [s |-> "outside", d |-> "outside"], Dst |-> [s |-> "none", d |-> "all"],
   Plus |-> [s |-> "all", d |-> "all"]]

Taken(part, other) ==
  CASE part = "none" -> Zero [] part = "all" -> One [] part = "inside" -> other
    [] part = "outside" -> One -- other

PorterDuffOf(mode, over, under) ==
  LET s == Straight(over)
      d == Straight(under)
      fs == s[4] ** Taken(PorterDuff[mode].s, d[4])
      fd == d[4] ** Taken(PorterDuff[mode].d, s[4])
      ra == Clamped(fs ++ fd)
      channel(c) == QuantumByteOf(((s[c] ** fs) ++ (d[c] ** fd)) // ra)
      alpha == Top - QuantumByteOf(One -- ra)
  IN  IF alpha = 0 THEN Clear ELSE Pixel(channel, alpha)

(* Two pixels that are seen alike: a clear one has no colour.              *)
LooksAs(p, q) == p = q \/ (p[4] = 0 /\ q[4] = 0)
=============================================================================
