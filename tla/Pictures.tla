------------------------------ MODULE Pictures ------------------------------
(***************************************************************************)
(* What has to come out right whatever goes in, of the parts of haio that  *)
(* are functions: blending, colours, files and encoded bodies.  A state is *)
(* one sample to be tried; Samples says which ones there are.              *)
(***************************************************************************)
EXTENDS Blending, Containers, Encodings
LOCAL INSTANCE SequencesExt
LOCAL INSTANCE FiniteSetsExt

CONSTANTS Topics,     \* what the samples are about
          Samples(_)  \* the samples of a topic, each with its topic

VARIABLE sample

Init == sample \in {[topic |-> topic, of |-> "nothing yet"] : topic \in Topics}

Try == sample.of = "nothing yet" /\ sample' \in Samples(sample.topic)

Spec == Init /\ [][Try]_sample

About(topic, of) == sample.topic = topic /\ sample.of = of

-----------------------------------------------------------------------------
(* Blending.                                                               *)

(* Every mode that is one of Porter and Duff's twelve, or plus, does with  *)
(* straight alpha in a byte what they say of coverage, where the layer is  *)
(* and where it is not: there it is clear (composite.hpp:449-516, the list *)
(* of what a mode clears, and blend/).                                     *)
CompositeAsPorterDuff ==
  About("blending", "pixels") =>
    LET base == Plain(2, 1, sample.under)
        layer == Plain(1, 1, sample.over)
        made == Composite(base, layer, sample.mode, sample.gravity, 0, 0)
        inside == PlaceOf(base, layer, sample.gravity, 0, 0)
    IN  \A p \in Places(2, 1) :
          LooksAs(made.at[p], PorterDuffOf(sample.mode, IF p = inside THEN sample.over ELSE Clear, sample.under))

Not(v) == One -- v
SameLevel(a, b) == QuantumByteOf(a) = QuantumByteOf(b)

(* The pairs of modes that are each other's negative, or each other with   *)
(* the layer and the picture swapped; the modes that are one mode above a  *)
(* half and another below it; and the edges where a division by nothing    *)
(* would be.                                                               *)
SeparableLaws(s, d) ==
  /\ HardLight(s, d) = Overlay(d, s)
  /\ Screen(s, d) = Not(Multiply(Not(s), Not(d)))
  /\ Lighten(s, d) = Not(Darken(Not(s), Not(d)))
  /\ SameLevel(LinearBurn(s, d), Not(Clamped(LinearDodge(Not(s), Not(d)))))
  /\ s # Zero \/ d # One => ColorBurn(s, d) = Not(ColorDodge(Not(s), Not(d)))
  /\ ColorBurn(s, One) = One
  /\ SameLevel(VividLight(s, d), IF s \preceq Half THEN ColorBurn(Two ** s, d)
                                 ELSE ColorDodge((Two ** s) -- One, d))
  /\ SameLevel(LinearLight(s, d), IF s \preceq Half THEN LinearBurn(Two ** s, d)
                                  ELSE LinearDodge((Two ** s) -- One, d))
  /\ SameLevel(PinLight(s, d), IF s \preceq Half THEN Darken(Two ** s, d)
                               ELSE Lighten((Two ** s) -- One, d))
  /\ Difference(s, d) = Clamped(MinusSrc(s, d)) ++ Clamped(MinusDst(s, d))
  /\ \A mode \in SeparableModes : SameLevel(Separable(mode, s, d), Clamped(Separable(mode, s, d)))
  /\ SoftLight(Half, d) = d
  /\ PegtopLight(s, d) = (Not(d) ** Multiply(s, d)) ++ (d ** Screen(s, d))

(* A colour taken apart and put together is the colour it was, and a tint  *)
(* of a shape is the same whichever of the three ways the shape is kept.   *)
WholeLaws(p) ==
  LET s == Straight(p)
      same(q) == [c \in 1 .. 4 |-> QuantumByteOf(q[c])] = p
      grey == <<p[1], p[1], p[1], p[2]>>
  IN  /\ p[4] # 0 => same(Hue(s, s)) /\ same(Saturate(s, s)) /\ same(Colorize(s, s)) /\ same(Luminize(s, s))
      /\ HclBlend(s, s, SplitOf(s))[4] = s[4]
      /\ TintGrayAlpha(p, grey[1], grey[4]) = Tint(p, grey)
      /\ TintGray(p, grey[1]) = Tint(p, [grey EXCEPT ![4] = Top])

(* The laws the modes of blend/ have with one another, at every level.     *)
BlendLaws ==
  /\ About("blending", "levels") => SeparableLaws(Frac(sample.s, Top), Frac(sample.d, Top))
  /\ About("blending", "colours") => WholeLaws(sample.pixel)

-----------------------------------------------------------------------------
(* Colours.                                                                *)

Words16 == {"RGB565", "RGB555", "RGBA5551"}
Kept(color, p) == IF color = "RGB555" THEN <<p[1], p[2] % 128>> ELSE p
Distance(a, b) == Abs(a - b)

(* A stored word is the same after it was wide, and a wide level comes     *)
(* back no further off than half a step.                                  *)
WordsSurvive(color, high) == \A low \in 0 .. 255 :
  FromRgba(color, ToRgba(color, <<low, high>>)) = Kept(color, <<low, high>>)
LevelSurvives(level) ==
  /\ Distance(Expand5(Narrow(level, 31)), level) <= 4
  /\ Distance(Expand6(Narrow(level, 63)), level) <= 2
  /\ Gray8ToRgba(RgbaToGray8(<<level, level, level, 255>>)) = <<level, level, level, 255>>
  /\ Yuv420ToRgba(J420([i \in 1 .. 4 |-> <<level, level, level>>], 2, 2), 2, 2)
       = FlattenSeq([i \in 1 .. 4 |-> <<level, level, level, 255>>])

(* The blocks a picture is padded to put every pixel back where it was.    *)
BlocksFit(image) ==
  Etc1ToRgba(RgbaToEtc1(image.data, image.width, image.height), image.width, image.height)
    = EveryPixel(LAMBDA p : Bgr888ToRgba(RgbaToBgr888(p)), image.data, 4, image.width * image.height)

(* A bit of a tile is one pixel, and every pixel has one in either plane.  *)
BitsArePixels(w, h) ==
  LET blank == [i \in 1 .. SizeOf("CHR_NES", w, h) |-> 0]
      with(byte, bit) == ChrToPalette([blank EXCEPT ![byte] = 2 ^ bit], w, h)
      lit(byte, bit) == {<<i, with(byte, bit)[i]>> : i \in {i \in 1 .. w * h : with(byte, bit)[i] # 0}}
  IN  UNION {lit(byte, bit) : byte \in DOMAIN blank, bit \in 0 .. 7} = (1 .. w * h) \X {1, 2}

(* Whatever two colours are named, the straight way ends where the way     *)
(* round by rgba does, in a picture that is whole.                         *)
RoadsAgree(image, from, to) ==
  LET start == Convert(image, from)
      straight == Convert(start, to)
      middle == Convert(start, "RGBA8888")
      round == Convert(middle, to)
      rgba == image.color = "RGBA8888" /\ Sizable(from, image.width, image.height)
  IN  IF Failed(start) THEN rgba => from \in {"CHR_NES", "PALETTE"}
      ELSE /\ ~Failed(straight) => Len(straight.data) = SizeOf(to, image.width, image.height)
           /\ from # to /\ ~Failed(straight) /\ ~Failed(middle) /\ ~Failed(round) => straight = round

(* What the conversions of backend/codecs/color and the road between them  *)
(* (haio_registry.hpp) must keep of a picture.                             *)
ColoursSurvive ==
  /\ About("colours", "words") => WordsSurvive(sample.color, sample.high)
  /\ About("colours", "levels") => LevelSurvives(sample.level)
  /\ About("colours", "roads") => RoadsAgree(sample.image, sample.from, sample.to)
  /\ About("colours", "blocks") => BlocksFit(sample.image)
  /\ About("colours", "tiles") => BitsArePixels(sample.width, sample.height)

-----------------------------------------------------------------------------
(* Files.                                                                  *)

Refusals == {Fail("InvalidInput"), Fail("UnsupportedFormat")}

(* One format knows the file, it is read back as what it was, and a file   *)
(* that was cut short is refused unless what is gone was no pixel.         *)
ReadsBack(file, format, as) ==
  /\ \A i \in DOMAIN Pairs : Recognised(Pairs[i].format, Pairs[i].color, file) => Pairs[i].format = format
  /\ \A n \in 1 .. Len(file) : DecodeNative(SubSeq(file, 1, n)) \in (IF n = Len(file) THEN {as} ELSE {as} \cup Refusals)

(* By the names of a format and of a colour, or of none: what comes back   *)
(* is the picture in that colour, and what cannot be written is said to be.*)
WrittenByName(image, format, as) ==
  LET wanted == IF as = "none" THEN EncodeColorFor(format) ELSE as
      inside == IF format = "PPM" THEN "RGB888" ELSE wanted
      back == IF image.color = "PALETTE" THEN PaletteToRgba(image) ELSE Convert(image, inside)
      isBack(file) == IF Failed(file) THEN wanted \notin Encodable[format] \/ Failed(Convert(image, wanted))
                      ELSE ReadsBack(file.bytes, format, back)
  IN  isBack(IF image.color = "PALETTE" THEN EncodeAs(format, image) ELSE Encode(image, format, as))

(* A targa of runs is the same picture however its runs are cut, across    *)
(* scanlines too, and from whichever corner it is written.                 *)
PacketsOf(units, splits, packs) ==
  LET ends == SetToSortSeq(splits \cup {Len(units)}, <)
      first(i) == IF i = 1 THEN 1 ELSE ends[i - 1] + 1
      packet(i) == LET run == SubSeq(units, first(i), ends[i])
                   IN  IF packs /\ \A k \in DOMAIN run : run[k] = run[1]
                       THEN <<127 + Len(run)>> \o run[1] ELSE <<Len(run) - 1>> \o FlattenSeq(run)
  IN  FlattenSeq([i \in DOMAIN ends |-> packet(i)])
StoredFrom(corner, image) ==
  LET across(i) == i % image.width
      down(i) == i \div image.width
      x(i) == IF Bits(corner, 4, 1) = 1 THEN image.width - 1 - across(i) ELSE across(i)
      y(i) == IF Bits(corner, 5, 1) = 0 THEN image.height - 1 - down(i) ELSE down(i)
  IN  [i \in 1 .. image.width * image.height |->
         PixelAt(image.data, StrideOf[image.color], y(i - 1) * image.width + x(i - 1))]
TgaOfRuns(image, corner, splits, packs) ==
  TgaHeader(image.color, image.width, image.height, IF image.color = "GRAY8" THEN 11 ELSE 10, 0, corner)
    \o PacketsOf(StoredFrom(corner, image), splits, packs)

(* A bitmap is the same picture in every kind a netpbm may be.             *)
Text(numbers) == FlattenSeq([i \in DOMAIN numbers |-> Digits[numbers[i]] \o <<32>>])
Magic(kind) == <<80, 48 + kind, 10, 35, 49, 10>>
PackedRows(bits, w) ==
  LET bytes == (w + 7) \div 8
      at(i, k) == LET x == (i % bytes) * 8 + k IN IF x < w THEN bits[(i \div bytes) * w + x + 1] ELSE 1
      byte(i) == MapThenSumSet(LAMBDA k : at(i, k) * 2 ^ (7 - k), 0 .. 7)
  IN  [i \in 1 .. bytes * (Len(bits) \div w) |-> byte(i - 1)]
NetpbmOf(kind, bits, w, h) ==
  LET white == [i \in DOMAIN bits |-> 1 - bits[i]]
      three == FlattenSeq([i \in DOMAIN bits |-> <<white[i], white[i], white[i]>>])
      sides == Magic(kind) \o Text(<<w, h>>)
  IN  CASE kind = 1 -> sides \o Text(bits)
        [] kind = 2 -> sides \o Text(<<1>> \o white)
        [] kind = 3 -> sides \o Text(<<1>> \o three)
        [] kind = 4 -> sides \o PackedRows(bits, w)
        [] kind = 5 -> sides \o Text(<<257>>) \o FlattenSeq([i \in DOMAIN bits |-> <<white[i], white[i]>>])
        [] kind = 6 -> sides \o Text(<<1>>) \o three
SixAlike(bits, w, h) ==
  LET read(kind) == Convert(DecodeNative(NetpbmOf(kind, bits, w, h)), "RGBA8888")
  IN  \A kind \in 1 .. 6 :
        read(kind) = Picture("RGBA8888", w, h, FlattenSeq([i \in DOMAIN bits |->
                       LET v == 255 * (1 - bits[i]) IN <<v, v, v, 255>>]))

(* What a terminal shows of what it is told.                               *)
Screened(tokens) ==
  LET shown(screen, token) ==
        CASE "reset" \in DOMAIN token -> [screen EXCEPT !.fore = Own, !.back = Own]
          [] "glyph" \in DOMAIN token ->
               [screen EXCEPT !.cells = Append(@,
                  <<IF token.glyph = "upper" THEN screen.fore ELSE screen.back,
                    IF token.glyph = "lower" THEN screen.fore ELSE screen.back>>)]
          [] OTHER -> [back |-> token.back, cells |-> screen.cells,
                       fore |-> IF "fore" \in DOMAIN token THEN token.fore ELSE screen.fore]
  IN  FoldLeft(shown, [fore |-> Own, back |-> Own, cells |-> <<>>], tokens).cells
SeenInTerminal(image) ==
  LET w == image.width
      at(i) == PixelAt(image.data, 4, i)
      seen(i) == IF i >= w * image.height THEN Own ELSE IF at(i)[4] < 128 THEN Own ELSE SubSeq(at(i), 1, 3)
      top(i) == (i \div w) * 2 * w + (i % w)
      plain(i) == SubSeq(at(i), 1, 3)
  IN  /\ Screened(Utf8(image).bytes)
           = [i \in 1 .. w * ((image.height + 1) \div 2) |-> <<seen(top(i - 1)), seen(top(i - 1) + w)>>]
      /\ Screened(Ansi(Convert(image, "RGB888")).bytes) = [i \in 1 .. w * image.height |-> <<plain(i - 1), plain(i - 1)>>]

(* The layers of a zcis have every row once, the refining ones between.    *)
LayersHold(image) ==
  LET file == EncodeZcis(image).bytes
      layers == SubSeq(file, Len(MagicArchive) + 2, Len(file))
      read == [i \in DOMAIN layers |-> DecodePpm("RGB888", layers[i].file)]
      row(i, y) == PixelAt(read[i].data, 3 * image.width, y)
      whole == [y \in 1 .. image.height |-> IF Len(layers) = 1 THEN row(1, 0)
                  ELSE row(IF y % 2 = 0 THEN 1 ELSE 2, (y - 1) \div 2)]
  IN  FlattenSeq(whole) = Convert(image, "RGB888").data

(* Whatever backend/codecs/container writes is read as what it was, and    *)
(* what others may write, it reads whatever way they wrote it.             *)
FilesReadBack ==
  /\ About("files", "written") => WrittenByName(sample.image, sample.format, sample.as)
  /\ About("files", "others") => ReadsBack(sample.file, sample.format, sample.image)
  /\ About("files", "runs") =>
       ReadsBack(TgaOfRuns(sample.image, sample.corner, sample.splits, sample.packs), "TGA", sample.image)
  /\ About("files", "netpbm") => SixAlike(sample.bits, sample.width, Len(sample.bits) \div sample.width)
  /\ About("files", "layers") => LayersHold(sample.image) /\ SeenInTerminal(sample.image)

-----------------------------------------------------------------------------
(* Bodies.                                                                 *)

(* Who undoes the encoding has the body, to the byte, and between two      *)
(* bodies in cobs a zero is enough (frontend/cdn/encoding.cpp:25-48).      *)
BodyDecodes ==
  About("bodies", "body") =>
    LET text == EncodeBody(sample.body, sample.encoding)
    IN  /\ DecodeBody(text, sample.encoding) = sample.body
        /\ sample.encoding = "cobs" => 0 \notin {text[i] : i \in DOMAIN text}
=============================================================================
