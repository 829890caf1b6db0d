-------------------------------- MODULE Tga ---------------------------------
(***************************************************************************)
(* Targa (backend/codecs/container/tga and internal/codecs/tga.hpp): a     *)
(* header that has to agree with itself, because nothing else says what    *)
(* the file is, runs that may be written out any way, and a picture that   *)
(* starts in any corner.  A file is the sequence of its bytes.             *)
(***************************************************************************)
EXTENDS Colours
LOCAL INSTANCE SequencesExt
LOCAL INSTANCE TLC

MaxPixels == 2 ^ 28

Le16(n) == <<n % 256, n \div 256>>
U16At(file, at) == file[at + 1] + 256 * file[at + 2]
BytesFor(bits) == (bits + 7) \div 8

(* Only what the rest reads; the run length flavours fold onto their own.  *)
HeaderOf(file) ==
  [idLength |-> file[1], mapType |-> file[2], kind |-> IF file[3] > 8 THEN file[3] - 8 ELSE file[3],
   rle |-> file[3] > 8, mapFirst |-> U16At(file, 3), mapCount |-> U16At(file, 5), mapBits |-> file[8],
   width |-> U16At(file, 12), height |-> U16At(file, 14), depth |-> file[17],
   attributeBits |-> file[18] % 16, flipX |-> Bits(file[18], 4, 1) = 1, flipY |-> Bits(file[18], 5, 1) = 0,
   reserved |-> file[18] \div 64]

Unit(h) == BytesFor(h.depth)
Pixels(h) == h.width * h.height
MapOffset(h) == 18 + h.idLength
DataOffset(h) == MapOffset(h) + (IF h.mapType = 1 THEN h.mapCount * BytesFor(h.mapBits) ELSE 0)

(* A plain picture has to be there whole, and one of runs has to be one    *)
(* its runs could hold.                                                    *)
Reaches(file, h) ==
  LET available == Len(file) - DataOffset(h)
  IN  /\ DataOffset(h) < Len(file)
      /\ IF h.rle THEN Pixels(h) \div 128 <= available \div (1 + Unit(h))
         ELSE available >= Pixels(h) * Unit(h)

Agrees(file, h) ==
  /\ h.mapType <= 1 /\ h.kind \in 1 .. 3 /\ h.reserved = 0 /\ h.width # 0 /\ h.height # 0
  /\ h.kind = 1 => /\ h.mapType = 1 /\ h.mapCount # 0
                   /\ h.mapBits \in {15, 16, 24, 32} /\ h.depth \in {8, 16}
  /\ (h.kind # 1 /\ h.mapType = 0) => h.mapFirst = 0 /\ h.mapCount = 0 /\ h.mapBits = 0
  /\ h.kind = 2 => h.depth \in {15, 16, 24, 32}
  /\ h.kind = 3 => h.depth = 8
  /\ Pixels(h) <= MaxPixels
  /\ Reaches(file, h)
Sound(file) == Len(file) >= 18 /\ Agrees(file, HeaderOf(file))

(* Which colour the bytes are already.                                     *)
ColorOf(h) ==
  CASE h.kind = 1 -> "PALETTE"
    [] h.kind = 3 -> "GRAY8"
    [] h.kind = 2 /\ h.depth = 24 -> "BGR888"
    [] h.kind = 2 /\ h.depth = 32 -> "BGRA8888"
    [] h.kind = 2 /\ h.depth \in {15, 16} -> IF h.attributeBits # 0 THEN "RGBA5551" ELSE "RGB555"

DetectTga(color, file) == Sound(file) /\ ColorOf(HeaderOf(file)) = color

-----------------------------------------------------------------------------
(* Packets of up to 128 units, one unit repeated or each as it is, read as *)
(* one long sequence whatever the scanlines are.                           *)

Repeated(units, times) == FlattenSeq([i \in 1 .. times |-> units])

(* Mutant of Unpack: a packet ends where the scanline does. *)
UnpackByLine(file, h) ==
  LET packets[at \in 1 .. Len(file) + 256, left \in -256 .. Pixels(h)] ==
        LET wanted == (file[at] % 128) + 1
            line == IF left % h.width = 0 THEN h.width ELSE left % h.width
            run == IF wanted > line THEN line ELSE wanted
            repeats == file[at] >= 128
            stored == Unit(h) * (IF repeats THEN 1 ELSE run)
            rest == packets[at + 1 + stored, left - run]
            units == SubSeq(file, at + 1, at + stored)
        IN  CASE left = 0 -> [bytes |-> <<>>]
              [] left # 0 /\ (at > Len(file) \/ run > left \/ at + stored > Len(file)) -> Fail("InvalidInput")
              [] OTHER -> IF Failed(rest) THEN rest
                          ELSE [bytes |-> (IF repeats THEN Repeated(units, run) ELSE units) \o rest.bytes]
      first == DataOffset(h) + 1
  IN  IF h.rle THEN packets[first, Pixels(h)]
      ELSE [bytes |-> SubSeq(file, first, first + Pixels(h) * Unit(h) - 1)]

Unpack(file, h) ==
  LET packets[at \in 1 .. Len(file) + 1, left \in 0 .. Pixels(h)] ==
        LET run == (file[at] % 128) + 1
            repeats == file[at] >= 128
            stored == Unit(h) * (IF repeats THEN 1 ELSE run)
            rest == packets[at + 1 + stored, left - run]
            units == SubSeq(file, at + 1, at + stored)
        IN  CASE left = 0 -> [bytes |-> <<>>]
              [] left # 0 /\ (at > Len(file) \/ run > left \/ at + stored > Len(file)) -> Fail("InvalidInput")
              [] OTHER -> IF Failed(rest) THEN rest
                          ELSE [bytes |-> (IF repeats THEN Repeated(units, run) ELSE units) \o rest.bytes]
      first == DataOffset(h) + 1
  IN  IF h.rle THEN packets[first, Pixels(h)]
      ELSE [bytes |-> SubSeq(file, first, first + Pixels(h) * Unit(h) - 1)]

Oriented(bytes, h) ==
  LET from(x, y) == (IF h.flipY THEN h.height - 1 - y ELSE y) * h.width + (IF h.flipX THEN h.width - 1 - x ELSE x)
      pixel(i) == PixelAt(bytes, Unit(h), from(i % h.width, i \div h.width))
  IN  FlattenSeq([i \in 1 .. Pixels(h) |-> pixel(i - 1)])

(* A1R5G5B5 and haio's R5G5B5A1, one bit of rotation apart.                *)
RotateToRgba5551(p) == Stored(((Word(p) * 2) % 65536) + (Word(p) \div 32768))
RotateFromRgba5551(p) == Stored((Word(p) \div 2) + (Word(p) % 2) * 32768)

(* The entries below the first are black.  A colour's own alpha is left    *)
(* out: nothing reads it.                                                  *)
ReadMap(file, h) ==
  LET wide == BytesFor(h.mapBits)
      entry(i) == LET e == SubSeq(file, MapOffset(h) + i * wide + 1, MapOffset(h) + (i + 1) * wide)
                  IN  IF wide = 2 THEN SubSeq(Rgb555ToRgba(e), 1, 3) ELSE <<e[3], e[2], e[1]>>
  IN  IF h.mapFirst + h.mapCount > 256 THEN Fail("InvalidInput")
      ELSE [entries |-> [i \in 1 .. h.mapFirst + h.mapCount |->
                           IF i <= h.mapFirst THEN <<0, 0, 0>> ELSE entry(i - 1 - h.mapFirst)]]

DecodeSound(color, file, h) ==
  LET unpacked == Unpack(file, h)
      upright == Oriented(unpacked.bytes, h)
      pixels == IF color = "RGBA5551" THEN EveryPixel(RotateToRgba5551, upright, 2, Pixels(h)) ELSE upright
      map == ReadMap(file, h)
      image == Picture(color, h.width, h.height, pixels)
  IN  CASE ColorOf(h) # color -> Fail("InvalidInput")
        [] ColorOf(h) = color /\ color = "PALETTE" /\ h.depth # 8 -> Fail("UnsupportedFormat")
        [] OTHER -> IF Failed(unpacked) THEN unpacked
                    ELSE IF color # "PALETTE" THEN image
                    ELSE IF Failed(map) THEN map ELSE image @@ map
DecodeTga(color, file) ==
  IF Sound(file) THEN DecodeSound(color, file, HeaderOf(file)) ELSE Fail("InvalidInput")

-----------------------------------------------------------------------------
(* What is written is never runs and starts in the top left.               *)

AttributeBitsOf == [c \in {"BGRA8888", "RGBA5551"} |-> IF c = "BGRA8888" THEN 8 ELSE 1]

Footer == <<0, 0, 0, 0, 0, 0, 0, 0, 84, 82, 85, 69, 86, 73, 83, 73, 79, 78, 45, 88, 70, 73, 76, 69, 46, 0>>

TgaHeader(color, w, h, kind, entries, corner) ==
  <<0, IF entries = 0 THEN 0 ELSE 1, kind>> \o Le16(0) \o Le16(entries) \o <<IF entries = 0 THEN 0 ELSE 24>>
    \o Le16(0) \o Le16(0) \o Le16(w) \o Le16(h) \o <<StrideOf[color] * 8>>
    \o <<corner + (IF color \in DOMAIN AttributeBitsOf THEN AttributeBitsOf[color] ELSE 0)>>

EncodeTga(image) ==
  LET color == image.color w == image.width h == image.height
      kind == CASE color = "PALETTE" -> 1 [] color = "GRAY8" -> 3 [] OTHER -> 2
      entries == IF color = "PALETTE" THEN image.entries ELSE <<>>
      map == FlattenSeq([i \in DOMAIN entries |-> <<entries[i][3], entries[i][2], entries[i][1]>>])
      pixels == IF color = "RGBA5551" THEN EveryPixel(RotateFromRgba5551, image.data, 2, w * h) ELSE image.data
      known == /\ Len(entries) \in 1 .. 256
               /\ \A i \in DOMAIN image.data : image.data[i] < Len(entries)
  IN  IF \/ ~Sizable(color, w, h) \/ Len(image.data) # SizeOf(color, w, h)
         \/ w > 65535 \/ h > 65535 \/ (color = "PALETTE" /\ ~known)
      THEN Fail("InvalidInput")
      ELSE [bytes |-> TgaHeader(color, w, h, kind, Len(entries), 32) \o map \o pixels \o Footer]
=============================================================================
