----------------------------- MODULE Containers -----------------------------
(***************************************************************************)
(* Files (backend/codecs/container, common/utils and haio_registry.hpp):   *)
(* what recognises one, reads one and writes one, and the road a picture   *)
(* takes in and out when only names are known.  A file is the sequence of  *)
(* its bytes; what a library packs, a png's or a jpeg's stream, is a last  *)
(* cell that holds the picture.                                            *)
(***************************************************************************)
EXTENDS Tga, Netpbm
LOCAL INSTANCE SequencesExt

Le32(n) == <<n % 256, (n \div 256) % 256, (n \div 65536) % 256, n \div 16777216>>
Words(numbers) == FlattenSeq([i \in DOMAIN numbers |-> Le32(numbers[i])])
Zeros(n) == [i \in 1 .. n |-> 0]

HasBytes(file, off, len) == off <= Len(file) /\ len <= Len(file) - off
Matches(file, magic) == Len(file) >= Len(magic) /\ SubSeq(file, 1, Len(magic)) = magic
BytesAt(file, off, len) == IF HasBytes(file, off, len) THEN SubSeq(file, off + 1, off + len) ELSE Zeros(len)
U32(file, off) ==
  LET b == BytesAt(file, off, 4) IN b[1] + 256 * b[2] + 65536 * b[3] + 16777216 * b[4]
Slice(file, off, len) ==
  IF HasBytes(file, off, len) THEN [bytes |-> SubSeq(file, off + 1, off + len)] ELSE Fail("InvalidInput")

-----------------------------------------------------------------------------
(* The gpu containers hold one of three colours, and say which in a        *)
(* vocabulary of their own.                                                *)

ProfileFor ==
  [ETC1 |-> [type |-> 0, format |-> 0, internal |-> 36196, base |-> 6407, vk |-> 147, pvr |-> <<6, 0, 0, 0, 0, 0, 0, 0>>],
   RGB565 |-> [type |-> 33635, format |-> 6407, internal |-> 36194, base |-> 6407, vk |-> 4,
               pvr |-> <<114, 103, 98, 0, 5, 6, 5, 0>>],
   RGBA8888 |-> [type |-> 5121, format |-> 6408, internal |-> 32856, base |-> 6408, vk |-> 37,
                 pvr |-> <<114, 103, 98, 97, 8, 8, 8, 8>>]]
GpuColors == DOMAIN ProfileFor
TypeSize(profile) == IF profile.type = 33635 THEN 2 ELSE 1

FromGL(color, file) ==
  LET p == ProfileFor[color] IN U32(file, 16) = p.type /\ U32(file, 24) = p.format /\ U32(file, 28) = p.internal
FromVK(color, file) == U32(file, 12) = ProfileFor[color].vk
FromPVR(color, file) == BytesAt(file, 8, 8) = ProfileFor[color].pvr

MagicKtx == <<171, 75, 84, 88, 32, 49, 49, 187, 13, 10, 26, 10>>
MagicKtx2 == <<171, 75, 84, 88, 32, 50, 48, 187, 13, 10, 26, 10>>
MagicPvr == <<80, 86, 82, 3>>
MagicDds == <<68, 68, 83, 32>>

Whole(image) == /\ Sizable(image.color, image.width, image.height)
                /\ Len(image.data) = SizeOf(image.color, image.width, image.height)

EncodeKtx(image) ==
  LET p == ProfileFor[image.color]
      made == MagicKtx
                \o Words(<<67305985, p.type, TypeSize(p), p.format, p.internal, p.base, image.width, image.height,
                           0, 0, 1, 1, 0, Len(image.data)>>) \o image.data
  IN  IF ~Whole(image) THEN Fail("InvalidInput") ELSE [bytes |-> made \o Zeros((4 - (Len(made) % 4)) % 4)]

EncodeKtx2(image) ==
  LET p == ProfileFor[image.color]
      size == Le32(Len(image.data)) \o Zeros(4)
  IN  IF ~Whole(image) THEN Fail("InvalidInput")
      ELSE [bytes |-> MagicKtx2 \o Words(<<p.vk, TypeSize(p), image.width, image.height, 0, 0, 1, 1, 0, 0, 0, 0, 0>>)
                        \o Zeros(16) \o Le32(104) \o Zeros(4) \o size \o size \o image.data]

EncodePvr(image) ==
  IF ~Whole(image) THEN Fail("InvalidInput")
  ELSE [bytes |-> MagicPvr \o Zeros(4) \o ProfileFor[image.color].pvr
                    \o Words(<<0, 0, image.height, image.width, 1, 1, 1, 1, 0>>) \o image.data]

(* A dds says its colour with masks.                                       *)
DdsMasks(color) ==
  IF color = "RGB565" THEN Words(<<16, 63488, 2016, 31, 0>>)
  ELSE Words(<<32, 255, 65280, 16711680>>) \o <<0, 0, 0, 255>>
EncodeDds(image) ==
  LET pitch == image.width * (IF image.color = "RGB565" THEN 2 ELSE 4)
      flags == IF image.color = "RGB565" THEN 64 ELSE 65
  IN  IF ~Whole(image) THEN Fail("InvalidInput")
      ELSE [bytes |-> MagicDds \o Words(<<124, 4111, image.height, image.width, pitch, 0, 0>>) \o Zeros(44)
                        \o Words(<<32, flags, 0>>) \o DdsMasks(image.color) \o Words(<<4096, 0, 0, 0, 0>>) \o image.data]

Held(color, w, h, data) ==
  IF Failed(data) \/ ~Sizable(color, w, h) THEN Fail("InvalidInput")
  ELSE IF Len(data.bytes) # SizeOf(color, w, h) THEN Fail("InvalidInput")
  ELSE Picture(color, w, h, data.bytes)

DecodeKtx(color, file) ==
  LET off == 64 + U32(file, 60)
      shape == /\ Len(file) >= 68 /\ U32(file, 12) = 67305985 /\ U32(file, 44) = 0 /\ U32(file, 48) = 0
               /\ U32(file, 52) = 1 /\ U32(file, 56) <= 1 /\ HasBytes(file, off, 4)
  IN  IF ~shape THEN Fail("InvalidInput")
      ELSE Held(color, U32(file, 36), U32(file, 40), Slice(file, off + 4, U32(file, off)))

DecodeKtx2(color, file) ==
  LET shape == /\ Len(file) >= 104 /\ U32(file, 28) = 0 /\ U32(file, 32) = 0 /\ U32(file, 36) = 1
               /\ U32(file, 40) = 1 /\ U32(file, 44) = 0
  IN  IF ~shape THEN Fail("InvalidInput")
      ELSE Held(color, U32(file, 20), U32(file, 24), Slice(file, U32(file, 80), U32(file, 88)))

DecodePvr(color, file) ==
  LET w == U32(file, 28) h == U32(file, 24)
      shape == Len(file) >= 52 /\ \A at \in {32, 36, 40, 44} : U32(file, at) = 1
  IN  IF ~shape \/ ~Sizable(color, w, h) THEN Fail("InvalidInput")
      ELSE Held(color, w, h, Slice(file, 52 + U32(file, 48), SizeOf(color, w, h)))

DecodeDds(color, file) ==
  LET w == U32(file, 16) h == U32(file, 12)
  IN  IF Len(file) < 128 \/ U32(file, 4) # 124 \/ U32(file, 76) # 32 \/ ~Sizable(color, w, h) THEN Fail("InvalidInput")
      ELSE Held(color, w, h, Slice(file, 128, SizeOf(color, w, h)))

DetectKtx(color, file) == color \in GpuColors /\ Matches(file, MagicKtx) /\ FromGL(color, file)
DetectKtx2(color, file) == color \in GpuColors /\ Matches(file, MagicKtx2) /\ FromVK(color, file)
DetectPvr(color, file) == color \in GpuColors /\ Matches(file, MagicPvr) /\ FromPVR(color, file)
DetectDds(color, file) ==
  /\ color \in {"RGB565", "RGBA8888"} /\ Matches(file, MagicDds) /\ Len(file) >= 8 /\ U32(file, 4) = 124
  /\ BytesAt(file, 88, 20) = DdsMasks(color)

-----------------------------------------------------------------------------
(* What a library reads and writes: the code's own share is what it checks *)
(* before and after.                                                       *)

MagicPng == <<137, 80, 78, 71, 13, 10, 26, 10>>
ColourType == [GRAY8 |-> 0, RGB888 |-> 2, RGBA8888 |-> 6]
EncodePng(image) ==
  LET w == image.width h == image.height
      chunk == <<0, 0, 0, 13, 73, 72, 68, 82>> \o Reverse(Le32(w)) \o Reverse(Le32(h)) \o <<8, 6, 0, 0, 0>>
  IN  IF ~Whole(image) THEN Fail("InvalidInput")
      ELSE [bytes |-> MagicPng \o chunk \o <<[width |-> w, height |-> h, data |-> image.data]>>]
DetectPng(color, file) ==
  /\ color \in DOMAIN ColourType /\ Matches(file, MagicPng) /\ HasBytes(file, 25, 1)
  /\ BytesAt(file, 12, 4) = <<73, 72, 68, 82>> /\ file[26] = ColourType[color]

DetectGif(color, file) ==
  color \in {"RGBA8888", "RGB888"} /\ \E v \in {55, 57} : Matches(file, <<71, 73, 70, 56, v, 97>>)

(* One frame in the colour asked for, out of whatever the stream holds.    *)
Streamed(color, file, from) ==
  LET s == file[Len(file)]
  IN  IF Len(file) <= from \/ s.width = 0 \/ s.height = 0 THEN Fail("InvalidInput")
      ELSE IF color = "RGBA8888" THEN Picture(color, s.width, s.height, s.data)
      ELSE Picture(color, s.width, s.height, Move("RGBA8888", color, s.data, s.width, s.height))
DecodePng(color, file) == Streamed(color, file, 29)
DecodeGif(color, file) == Streamed(color, file, 6)

EncodeJpeg(image) ==
  IF ~Whole(image) THEN Fail("InvalidInput")
  ELSE [bytes |-> <<255, 216, 255, [width |-> image.width, height |-> image.height, sampling |-> "420",
                                   data |-> image.data]>>]
DetectJpeg(color, file) == color = "YUV420" /\ Matches(file, <<255, 216, 255>>)
DecodeJpeg(file) ==
  LET s == file[4]
  IN  IF Len(file) < 4 THEN Fail("InvalidInput")
      ELSE IF s.sampling # "420" \/ s.width % 2 # 0 \/ s.height % 2 # 0 THEN Fail("UnsupportedFormat")
      ELSE Picture("YUV420", s.width, s.height, s.data)

-----------------------------------------------------------------------------
(* A cartridge says where its patterns are.  BankBytes and BankSide are    *)
(* parameters only so that a small file can be one: 4096 and 128.          *)

CONSTANTS BankBytes, BankSide, TrainerBytes, ProgramBytes
ASSUME BankIsTiles == BankSide % 8 = 0 /\ BankBytes = SizeOf("CHR_NES", BankSide, BankSide)

DetectRom(color, file) == color = "CHR_NES" /\ Len(file) >= 16 /\ Matches(file, <<78, 69, 83, 26>>)
DecodeRom(file) ==
  LET banks == file[6] * 2
      from == 16 + (IF Bits(file[7], 2, 1) = 1 THEN TrainerBytes ELSE 0) + file[5] * ProgramBytes
  IN  IF Len(file) < 16 THEN Fail("InvalidInput")
      ELSE IF banks = 0 THEN Fail("UnsupportedFormat")
      ELSE IF from + banks * BankBytes > Len(file) THEN Fail("InvalidInput")
      ELSE Picture("CHR_NES", BankSide, BankSide * banks, SubSeq(file, from + 1, from + banks * BankBytes))

-----------------------------------------------------------------------------
(* A zcis is an archive of layers, each a picture of its own: every other  *)
(* row and then the rows between.  Its members are cells.                  *)

MagicArchive == <<33, 60, 97, 114, 99, 104, 62, 10>>
SelectRows(image, parity) ==
  LET height == (image.height - parity + 1) \div 2
      row(y) == PixelAt(image.data, image.width * 4, 2 * y + parity)
  IN  Picture("RGBA8888", image.width, height, FlattenSeq([y \in 1 .. height |-> row(y - 1)]))
EncodeZcis(image) ==
  LET layer(command, parity) == [command |-> command, file |-> EncodePpm(SelectRows(image, parity)).bytes]
      layers == IF image.height = 1 THEN <<layer("A", 0)>> ELSE <<layer("A", 1), layer("C", 0)>>
      planes == <<[command |-> "A", file |-> image.data]>>
  IN  IF ~Whole(image) \/ image.width > 3843 \/ image.height > 3843 THEN Fail("InvalidInput")
      ELSE [bytes |-> MagicArchive \o <<[width |-> image.width, height |-> image.height]>>
                        \o (IF image.color = "YUV420" THEN planes ELSE layers)]
DetectZcis(color, file) == color = "RGBA8888" /\ Matches(file, MagicArchive)

-----------------------------------------------------------------------------
(* For a terminal: cells, and between them what colours it is told.  A     *)
(* colour it was told last is not said again until the row ends.           *)

Told(cells) ==
  FlattenSeq([i \in DOMAIN cells |->
    IF i > 1 /\ cells[i].colours = cells[i - 1].colours THEN <<[glyph |-> cells[i].glyph]>>
    ELSE <<cells[i].colours, [glyph |-> cells[i].glyph]>>]) \o <<[reset |-> TRUE]>>

Ansi(image) ==
  LET cell(x, y) == [colours |-> [back |-> PixelAt(image.data, 3, y * image.width + x)], glyph |-> "space"]
      row(y) == Told([x \in 1 .. image.width |-> cell(x - 1, y)])
  IN  IF ~Whole(image) THEN Fail("InvalidInput") ELSE [bytes |-> FlattenSeq([y \in 1 .. image.height |-> row(y - 1)])]

(* What the terminal has behind its text, which is no colour of ours.      *)
Own == <<>>

(* Two rows to a cell; under half opaque a pixel is not there, and below   *)
(* the last row there is none.                                             *)
Utf8(image) ==
  LET at(x, y) == PixelAt(image.data, 4, y * image.width + x)
      shows(x, y) == y < image.height /\ at(x, y)[4] >= 128
      rgb(x, y) == SubSeq(at(x, y), 1, 3)
      cell(x, y) ==
        CASE shows(x, y) /\ shows(x, y + 1) ->
               [colours |-> [fore |-> rgb(x, y), back |-> rgb(x, y + 1)], glyph |-> "upper"]
          [] shows(x, y) /\ ~shows(x, y + 1) -> [colours |-> [fore |-> rgb(x, y), back |-> Own], glyph |-> "upper"]
          [] ~shows(x, y) /\ shows(x, y + 1) -> [colours |-> [fore |-> rgb(x, y + 1), back |-> Own], glyph |-> "lower"]
          [] OTHER -> [colours |-> [back |-> Own], glyph |-> "space"]
      row(y) == Told([x \in 1 .. image.width |-> cell(x - 1, y)])
  IN  IF ~Whole(image) THEN Fail("InvalidInput")
      ELSE [bytes |-> FlattenSeq([y \in 1 .. (image.height + 1) \div 2 |-> row(2 * (y - 1))])]

-----------------------------------------------------------------------------
(* By name.                                                                *)

Formats == <<"PNG", "PPM", "JPEG", "KTX", "KTX2", "DDS", "PVR", "ZCIS", "ANSI", "UTF8", "ROM", "TGA", "GIF">>
TgaColors == {"BGRA8888", "BGR888", "RGBA5551", "RGB555", "PALETTE", "GRAY8"}

Encodable ==
  [PNG |-> {"RGBA8888"}, PPM |-> {"RGBA8888"}, JPEG |-> {"YUV420"}, KTX |-> GpuColors, KTX2 |-> GpuColors,
   DDS |-> {"RGB565", "RGBA8888"}, PVR |-> GpuColors, ZCIS |-> {"RGBA8888", "YUV420"}, ANSI |-> {"RGB888"},
   UTF8 |-> {"RGBA8888"}, ROM |-> {}, TGA |-> TgaColors, GIF |-> {}]
Decodable ==
  [PNG |-> {"RGBA8888", "RGB888"}, PPM |-> {"RGB888", "GRAY8"}, JPEG |-> {"YUV420"}, KTX |-> GpuColors,
   KTX2 |-> GpuColors, DDS |-> {"RGB565", "RGBA8888"}, PVR |-> GpuColors, ZCIS |-> {}, ANSI |-> {}, UTF8 |-> {},
   ROM |-> {"CHR_NES"}, TGA |-> TgaColors, GIF |-> {"RGBA8888", "RGB888"}]
DefaultColor ==
  [PNG |-> "RGBA8888", PPM |-> "RGB888", JPEG |-> "YUV420", ZCIS |-> "RGBA8888", ROM |-> "CHR_NES",
   TGA |-> "BGRA8888", GIF |-> "RGBA8888"]

Recognised(format, color, file) ==
  CASE format = "PNG" -> DetectPng(color, file) [] format = "JPEG" -> DetectJpeg(color, file)
    [] format = "PPM" -> color \in {"RGB888", "GRAY8"} /\ DetectPpm(color, file)
    [] format = "KTX" -> DetectKtx(color, file) [] format = "KTX2" -> DetectKtx2(color, file)
    [] format = "DDS" -> DetectDds(color, file) [] format = "PVR" -> DetectPvr(color, file)
    [] format = "ZCIS" -> DetectZcis(color, file) [] format = "ROM" -> DetectRom(color, file)
    [] format = "TGA" -> DetectTga(color, file) [] format = "GIF" -> DetectGif(color, file)
    [] format \in {"ANSI", "UTF8"} -> FALSE

(* The first that says yes, every format and then every colour of it.      *)
Pairs == [i \in 1 .. Len(Formats) * Len(Colors) |->
            [format |-> Formats[((i - 1) \div Len(Colors)) + 1], color |-> Colors[((i - 1) % Len(Colors)) + 1]]]
Found(i) == IF i = 0 THEN [format |-> "RAW", color |-> "RGBA8888"] ELSE Pairs[i]
Detect(file) == Found(SelectInSeq(Pairs, LAMBDA p : Recognised(p.format, p.color, file)))

DecodeAs(format, color, file) ==
  CASE format = "PNG" -> DecodePng(color, file) [] format = "PPM" -> DecodePpm(color, file)
    [] format = "JPEG" -> DecodeJpeg(file) [] format = "GIF" -> DecodeGif(color, file)
    [] format = "KTX" -> DecodeKtx(color, file) [] format = "KTX2" -> DecodeKtx2(color, file)
    [] format = "DDS" -> DecodeDds(color, file) [] format = "PVR" -> DecodePvr(color, file)
    [] format = "ROM" -> DecodeRom(file) [] format = "TGA" -> DecodeTga(color, file)

EncodeAs(format, image) ==
  CASE format = "PNG" -> EncodePng(image) [] format = "PPM" -> EncodePpm(image)
    [] format = "JPEG" -> EncodeJpeg(image) [] format = "ZCIS" -> EncodeZcis(image)
    [] format = "KTX" -> EncodeKtx(image) [] format = "KTX2" -> EncodeKtx2(image)
    [] format = "DDS" -> EncodeDds(image) [] format = "PVR" -> EncodePvr(image)
    [] format = "ANSI" -> Ansi(image) [] format = "UTF8" -> Utf8(image) [] format = "TGA" -> EncodeTga(image)

(* A palette does not travel on: it is expanded where it comes in.         *)
Expanded(color, decoded) ==
  IF ~Failed(decoded) /\ color = "PALETTE" THEN PaletteToRgba(decoded) ELSE decoded
DecodeFound(found, file) ==
  IF found.format = "RAW" THEN Fail("UnsupportedFormat")
  ELSE IF found.color \notin Decodable[found.format] THEN Fail("UnsupportedFormat")
  ELSE Expanded(found.color, DecodeAs(found.format, found.color, file))
DecodeNative(file) == DecodeFound(Detect(file), file)

(* The colour a container calls its own, and failing that the first it can *)
(* be written in at all.                                                   *)
EncodeColorFor(format) ==
  LET colors == SelectSeq(Colors, LAMBDA c : c \in Encodable[format])
      own == IF format \in DOMAIN DefaultColor THEN DefaultColor[format] ELSE "none"
  IN  IF colors = <<>> THEN "none" ELSE IF own \in Encodable[format] THEN own ELSE colors[1]

EncodeConverted(format, converted) == IF Failed(converted) THEN converted ELSE EncodeAs(format, converted)
Encode(image, format, as) ==
  LET wanted == IF as = "none" THEN EncodeColorFor(format) ELSE as
  IN  IF wanted \notin Encodable[format] \ {"PALETTE"} THEN Fail("UnsupportedFormat")
      ELSE EncodeConverted(format, Convert(image, wanted))
=============================================================================
