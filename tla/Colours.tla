------------------------------ MODULE Colours -------------------------------
(***************************************************************************)
(* Pictures in memory and the ways from one colour to another              *)
(* (backend/codecs/color, haio_convert.hpp and the runtime road of         *)
(* haio_registry.hpp).  An image is its colour, its sides and its bytes;   *)
(* what cannot be done is a record with an error.                          *)
(***************************************************************************)
EXTENDS Integers, Sequences
LOCAL INSTANCE SequencesExt

Fail(code) == [error |-> code]
Failed(result) == "error" \in DOMAIN result

(* In the order the enumeration has them, which is the order they are      *)
(* asked in.                                                               *)
Colors == <<"RGBA8888", "RGB888", "RGB565", "RGB555", "RGBA5551", "BGR888", "BGRA8888", "GRAY8", "GRAYALPHA88",
            "ETC1", "YUV420", "PALETTE", "CHR_NES", "NIL">>

(* How wide a pixel is; none has a width where a pixel has no address.     *)
StrideOf ==
  [RGBA8888 |-> 4, BGRA8888 |-> 4, RGB888 |-> 3, BGR888 |-> 3, RGB565 |-> 2, RGB555 |-> 2, RGBA5551 |-> 2,
   GRAYALPHA88 |-> 2, GRAY8 |-> 1, PALETTE |-> 1, CHR_NES |-> 0, ETC1 |-> 0, YUV420 |-> 0, NIL |-> 0]

Etc1Size(w, h) == ((w + 3) \div 4) * ((h + 3) \div 4) * 8

Sizable(color, w, h) ==
  /\ w > 0 /\ h > 0
  /\ color = "CHR_NES" => w % 8 = 0 /\ h % 8 = 0
  /\ color = "YUV420" => w % 2 = 0 /\ h % 2 = 0
SizeOf(color, w, h) ==
  CASE StrideOf[color] # 0 -> w * h * StrideOf[color]
    [] color = "ETC1" -> Etc1Size(w, h)
    [] color = "CHR_NES" -> (w \div 8) * (h \div 8) * 16
    [] color = "YUV420" -> w * h + 2 * (w \div 2) * (h \div 2)
    [] color = "NIL" -> 0

Picture(color, w, h, data) == [color |-> color, width |-> w, height |-> h, data |-> data]

-----------------------------------------------------------------------------
(* Pixel by pixel.                                                         *)

Bits(word, from, wide) == (word \div 2 ^ from) % 2 ^ wide
Word(p) == p[1] + 256 * p[2]
Stored(word) == <<word % 256, (word \div 256) % 256>>

(* A narrow channel widens by repeating its high bits.                     *)
Expand5(v) == (v * 8 + (v \div 4)) % 256
Expand6(v) == (v * 4 + (v \div 16)) % 256
Narrow(level, most) == (level * most + 127) \div 255

Rgb565ToRgba(p) ==
  LET w == Word(p) IN <<Expand5(Bits(w, 11, 5)), Expand6(Bits(w, 5, 6)), Expand5(Bits(w, 0, 5)), 255>>
RgbaToRgb565(p) == Stored(Narrow(p[1], 31) * 2048 + Narrow(p[2], 63) * 32 + Narrow(p[3], 31))

(* The spare top bit is not read.                                          *)
Rgb555ToRgba(p) ==
  LET w == Word(p) IN <<Expand5(Bits(w, 10, 5)), Expand5(Bits(w, 5, 5)), Expand5(Bits(w, 0, 5)), 255>>
RgbaToRgb555(p) == Stored(Narrow(p[1], 31) * 1024 + Narrow(p[2], 31) * 32 + Narrow(p[3], 31))

Rgba5551ToRgba(p) ==
  LET w == Word(p)
  IN  <<Expand5(Bits(w, 11, 5)), Expand5(Bits(w, 6, 5)), Expand5(Bits(w, 1, 5)), 255 * Bits(w, 0, 1)>>
RgbaToRgba5551(p) ==
  Stored(Narrow(p[1], 31) * 2048 + Narrow(p[2], 31) * 64 + Narrow(p[3], 31) * 2 + (IF p[4] >= 128 THEN 1 ELSE 0))

Grey(p) == (212656 * p[1] + 715158 * p[2] + 72186 * p[3] + 500000) \div 1000000
Gray8ToRgba(p) == <<p[1], p[1], p[1], 255>>
RgbaToGray8(p) == <<Grey(p)>>
GrayAlphaToRgba(p) == <<p[1], p[1], p[1], p[2]>>
RgbaToGrayAlpha(p) == <<Grey(p), p[4]>>

Rgb888ToRgba(p) == <<p[1], p[2], p[3], 255>>
RgbaToRgb888(p) == <<p[1], p[2], p[3]>>
Bgr888ToRgba(p) == <<p[3], p[2], p[1], 255>>
RgbaToBgr888(p) == <<p[3], p[2], p[1]>>
Bgra8888ToRgba(p) == <<p[3], p[2], p[1], p[4]>>
RgbaToBgra8888(p) == <<p[3], p[2], p[1], p[4]>>

Packed == {"RGB565", "RGB555", "RGBA5551", "GRAY8", "GRAYALPHA88", "RGB888", "BGR888", "BGRA8888"}

ToRgba(color, p) ==
  CASE color = "RGB565" -> Rgb565ToRgba(p) [] color = "RGB555" -> Rgb555ToRgba(p)
    [] color = "RGBA5551" -> Rgba5551ToRgba(p) [] color = "GRAY8" -> Gray8ToRgba(p)
    [] color = "GRAYALPHA88" -> GrayAlphaToRgba(p) [] color = "RGB888" -> Rgb888ToRgba(p)
    [] color = "BGR888" -> Bgr888ToRgba(p) [] color = "BGRA8888" -> Bgra8888ToRgba(p)
FromRgba(color, p) ==
  CASE color = "RGB565" -> RgbaToRgb565(p) [] color = "RGB555" -> RgbaToRgb555(p)
    [] color = "RGBA5551" -> RgbaToRgba5551(p) [] color = "GRAY8" -> RgbaToGray8(p)
    [] color = "GRAYALPHA88" -> RgbaToGrayAlpha(p) [] color = "RGB888" -> RgbaToRgb888(p)
    [] color = "BGR888" -> RgbaToBgr888(p) [] color = "BGRA8888" -> RgbaToBgra8888(p)

PixelAt(data, stride, i) == SubSeq(data, stride * i + 1, stride * (i + 1))
EveryPixel(move(_), data, stride, pixels) ==
  FlattenSeq([i \in 1 .. pixels |-> move(PixelAt(data, stride, i - 1))])

-----------------------------------------------------------------------------
(* Colours whose pixels have no address of their own.                      *)

(* Tiles of eight by eight in sixteen bytes: the low bits of its rows and  *)
(* then the high ones, the leftmost pixel in the top bit.                  *)
ChrToPalette(data, w, h) ==
  LET index(x, y) ==
        LET at == 16 * ((y \div 8) * (w \div 8) + (x \div 8)) + (y % 8) + 1
        IN  Bits(data[at], 7 - (x % 8), 1) + 2 * Bits(data[at + 8], 7 - (x % 8), 1)
  IN  [i \in 1 .. w * h |-> index((i - 1) % w, (i - 1) \div w)]

(* Full range: a luma a pixel, and a blue and a red for every two by two.  *)
Byte(n) == IF n < 0 THEN 0 ELSE IF n > 255 THEN 255 ELSE n
Yuv420ToRgba(data, w, h) ==
  LET chroma == (w \div 2) * (h \div 2)
      at(i) == (i \div (2 * w)) * (w \div 2) + ((i % w) \div 2)
      pixel(i) == LET Y == data[i + 1]
                      Cb == data[w * h + at(i) + 1] - 128
                      Cr == data[w * h + chroma + at(i) + 1] - 128
                  IN  <<Byte(Y + ((1436 * Cr) \div 1024)), Byte(Y - ((352 * Cb + 731 * Cr) \div 1024)),
                        Byte(Y + ((1815 * Cb) \div 1024)), 255>>
  IN  FlattenSeq([i \in 1 .. w * h |-> pixel(i - 1)])

(* libyuv's J420: the chroma of a block is that of its average.            *)
J420(pixels, w, h) ==
  LET corner(i) == (i \div (w \div 2)) * 2 * w + (i % (w \div 2)) * 2 + 1
      mean(i, c) == (pixels[corner(i)][c] + pixels[corner(i) + 1][c] + pixels[corner(i) + w][c]
                       + pixels[corner(i) + w + 1][c] + 2) \div 4
      luma(p) == (77 * p[1] + 150 * p[2] + 29 * p[3] + 128) \div 256
      blue(i) == (127 * mean(i, 3) - 84 * mean(i, 2) - 43 * mean(i, 1) + 32896) \div 256
      red(i) == (127 * mean(i, 1) - 107 * mean(i, 2) - 20 * mean(i, 3) + 32896) \div 256
      blocks == 1 .. (w \div 2) * (h \div 2)
  IN  [i \in 1 .. w * h |-> luma(pixels[i])] \o [i \in blocks |-> blue(i - 1)] \o [i \in blocks |-> red(i - 1)]

ToYuv420(data, stride, w, h) == J420([i \in 1 .. w * h |-> PixelAt(data, stride, i - 1)], w, h)

PaddedSize(n) == 4 * ((n + 3) \div 4)
Padded(data, w, h) ==
  LET nearest(i, side) == IF i < side THEN i ELSE side - 1
      pixel(i) == PixelAt(data, 4, nearest(i \div PaddedSize(w), h) * w + nearest(i % PaddedSize(w), w))
  IN  [i \in 1 .. PaddedSize(w) * PaddedSize(h) |-> RgbaToBgra8888(pixel(i - 1))]

(* Eight bytes for every block of four by four; what they say of its       *)
(* sixteen pixels is the block compressor's, and they stand for them here. *)
CompressEtc1(pixels, wide) ==
  LET corner(b) == (b \div (wide \div 4)) * 4 * wide + (b % (wide \div 4)) * 4
      at(b, i) == corner(b) + ((i - 1) \div 4) * wide + ((i - 1) % 4) + 1
      block(b) == [i \in 1 .. 16 |-> SubSeq(pixels[at(b, i)], 1, 3)]
  IN  FlattenSeq([b \in 1 .. Len(pixels) \div 16 |-> [byte \in 1 .. 8 |-> block(b - 1)]])
DecompressEtc1(data, wide) ==
  LET block(i) == (i \div (4 * wide)) * (wide \div 4) + ((i % wide) \div 4)
      within(i) == ((i \div wide) % 4) * 4 + (i % 4) + 1
  IN  [i \in 1 .. 2 * Len(data) |-> LET p == data[8 * block(i - 1) + 1][within(i - 1)] IN <<p[3], p[2], p[1], 255>>]

(* Mutant of Etc1ToRgba: the rows are as long as the picture is wide. *)
Etc1ToRgbaUnpadded(data, w, h) ==
  LET padded == DecompressEtc1(data, PaddedSize(w)) IN FlattenSeq([i \in 1 .. w * h |-> padded[i]])

Etc1ToRgba(data, w, h) ==
  LET padded == DecompressEtc1(data, PaddedSize(w))
  IN  FlattenSeq([i \in 1 .. w * h |-> padded[((i - 1) \div w) * PaddedSize(w) + ((i - 1) % w) + 1]])
RgbaToEtc1(data, w, h) == CompressEtc1(Padded(data, w, h), PaddedSize(w))

NilToRgba(w, h) == [i \in 1 .. 4 * w * h |-> 0]

(* Indices become the colours they point at.                               *)
PaletteToRgba(image) ==
  LET known(i) == image.data[i] < Len(image.entries)
      colour(i) == image.entries[image.data[i] + 1] \o <<255>>
  IN  IF Len(image.data) # image.width * image.height \/ image.entries = <<>> \/ \E i \in DOMAIN image.data : ~known(i)
      THEN Fail("InvalidInput")
      ELSE Picture("RGBA8888", image.width, image.height, FlattenSeq([i \in DOMAIN image.data |-> colour(i)]))

-----------------------------------------------------------------------------
(* A whole image.                                                          *)

Move(from, to, data, w, h) ==
  LET widen(p) == ToRgba(from, p)
      narrow(p) == FromRgba(to, p)
  IN  CASE from = "RGBA8888" /\ to \in Packed -> EveryPixel(narrow, data, 4, w * h)
        [] from \in Packed /\ to = "RGBA8888" -> EveryPixel(widen, data, StrideOf[from], w * h)
        [] from = "CHR_NES" -> ChrToPalette(data, w, h)
        [] from = "YUV420" -> Yuv420ToRgba(data, w, h)
        [] from = "ETC1" -> Etc1ToRgba(data, w, h)
        [] from = "NIL" -> NilToRgba(w, h)
        [] to = "ETC1" -> RgbaToEtc1(data, w, h)
        [] to = "YUV420" -> ToYuv420(data, StrideOf[from], w, h)

ConvertVia(image, to) ==
  LET w == image.width h == image.height
  IN  IF ~Sizable(image.color, w, h) \/ Len(image.data) # SizeOf(image.color, w, h) \/ ~Sizable(to, w, h)
      THEN Fail("InvalidInput")
      ELSE Picture(to, w, h, Move(image.color, to, image.data, w, h))

Forget(image) == Picture("NIL", image.width, image.height, <<>>)

Convertible(from, to) ==
  \/ from = "RGBA8888" /\ to \in Packed \cup {"ETC1", "YUV420"}
  \/ from \in Packed \cup {"ETC1", "YUV420", "PALETTE", "NIL"} /\ to = "RGBA8888"
  \/ from = "RGB888" /\ to = "YUV420"
  \/ from = "CHR_NES" /\ to = "PALETTE"
  \/ from # "NIL" /\ to = "NIL"

ConvertOne(image, to) ==
  CASE to = "NIL" -> Forget(image)
    [] to # "NIL" /\ image.color = "PALETTE" -> PaletteToRgba(image)
    [] OTHER -> ConvertVia(image, to)

(* The colour named at runtime: the pair that goes straight there, or else *)
(* through rgba8888.  A palette does not travel like this.                 *)
Directly(image, to) ==
  IF image.color # "PALETTE" /\ Convertible(image.color, to) THEN ConvertOne(image, to)
  ELSE Fail("UnsupportedFormat")
Onwards(middle, to) == IF Failed(middle) THEN middle ELSE Directly(middle, to)
Convert(image, to) ==
  LET from == image.color
      straight == from # "PALETTE" /\ Convertible(from, to)
  IN  IF from = to THEN image
      ELSE IF straight \/ "RGBA8888" \in {from, to} THEN Directly(image, to)
      ELSE Onwards(Directly(image, "RGBA8888"), to)
=============================================================================
