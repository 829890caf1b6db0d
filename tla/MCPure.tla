------------------------------- MODULE MCPure -------------------------------
(***************************************************************************)
(* Levels of 0 to 4, pictures of a few pixels, sides that are no multiple  *)
(* of a block, banks of one tile and runs of cobs that are full at once.   *)
(***************************************************************************)
EXTENDS Pictures
LOCAL INSTANCE SequencesExt
LOCAL INSTANCE TLC

Sample(topic, of) == [topic |-> topic, of |-> of]

Pixels4 == {<<level, Top - level, Top, alpha>> : level \in Levels, alpha \in Levels}
Blendings ==
  {Sample("blending", "pixels") @@ [mode |-> mode, over |-> over, under |-> under, gravity |-> gravity] :
     mode \in DOMAIN PorterDuff, over \in Pixels4, under \in {p \in Pixels4 : p[1] # 2}, gravity \in {"East", "West"}}
  \cup {Sample("blending", "levels") @@ [s |-> s, d |-> d] : s, d \in Levels}
  \cup {Sample("blending", "colours") @@ [pixel |-> <<r, g, b, a>>] : r, g, b \in Levels, a \in {0, 1, Top}}

Coloured(w, h, alpha) ==
  Picture("RGBA8888", w, h,
          FlattenSeq([i \in 1 .. w * h |-> <<(70 * i) % 256, (i * i) % 256, 255 - i, IF i % 2 = 0 THEN 255 ELSE alpha>>]))
Opaque(w, h) == Coloured(w, h, 255)
Tiles == Picture("CHR_NES", 8, 8, [i \in 1 .. 16 |-> (37 * i) % 256])
Indexed(w, h) ==
  Picture("PALETTE", w, h, [i \in 1 .. w * h |-> i % 3]) @@ [entries |-> <<<<1, 2, 3>>, <<0, 255, 9>>, <<8, 8, 8>>>>]

ColourSet == {Colors[i] : i \in DOMAIN Colors}
Colourings ==
  {Sample("colours", "words") @@ [color |-> color, high |-> high] : color \in Words16, high \in 0 .. 255}
  \cup {Sample("colours", "levels") @@ [level |-> level] : level \in 0 .. 255}
  \cup {Sample("colours", "blocks") @@ [image |-> Opaque(w, h)] : w, h \in 1 .. 5}
  \cup {Sample("colours", "tiles") @@ [width |-> w, height |-> h] : w, h \in {8, 16}}
  \cup {Sample("colours", "roads") @@ [image |-> image, from |-> from, to |-> to] :
          image \in {Coloured(2, 2, 100), Coloured(3, 2, 0), Tiles, Indexed(2, 2)}, from, to \in ColourSet}

Read == {"PNG", "PPM", "JPEG", "KTX", "KTX2", "DDS", "PVR", "TGA", "ROM"}
Written ==
  {[format |-> format, as |-> as, image |-> Coloured(w, h, 90)] :
     format \in Read, as \in {"none"} \cup (ColourSet \ {"PALETTE"}), w \in {1, 2, 5}, h \in {1, 2}}
  \cup {[format |-> "TGA", as |-> "PALETTE", image |-> Indexed(w, h)] : w, h \in 1 .. 3}

Rom(trainer, programs, banks) ==
  [file |-> <<78, 69, 83, 26, programs, banks, IF trainer THEN 4 ELSE 0>> \o Zeros(9)
              \o Zeros((IF trainer THEN TrainerBytes ELSE 0) + programs * ProgramBytes)
              \o Repeated(Tiles.data, 2 * banks),
   format |-> "ROM", image |-> Picture("CHR_NES", 8, 16 * banks, Repeated(Tiles.data, 2 * banks))]
Gif == [file |-> <<71, 73, 70, 56, 57, 97, [width |-> 2, height |-> 1, data |-> Coloured(2, 1, 0).data]>>,
        format |-> "GIF", image |-> Coloured(2, 1, 0)]

(* Six pixels of two colours, in three rows or in two.                     *)
Striped(color, w, pattern) ==
  Picture(color, w, 6 \div w, FlattenSeq([i \in 1 .. 6 |->
            IF color = "GRAY8" THEN <<pattern[i]>> ELSE <<pattern[i], 3>>]))
Patterns == {<<5, 5, 5, 5, 9, 9>>, <<5, 9, 9, 9, 9, 9>>, <<5, 5, 5, 5, 5, 5>>}

Bitmaps(w) == [1 .. w -> {0, 1}] \cup {[i \in 1 .. 2 * w |-> IF i % 3 = 0 THEN 0 ELSE 1]}
Filings ==
  {Sample("files", "written") @@ written : written \in Written}
  \cup {Sample("files", "others") @@ other : other \in {Gif} \cup {Rom(t, p, b) : t \in BOOLEAN, p \in {0, 1}, b \in {1, 2}}}
  \cup {Sample("files", "runs") @@ [image |-> Striped(color, w, pattern), corner |-> corner, splits |-> splits, packs |-> packs] :
          color \in {"GRAY8", "RGB555"}, w \in {2, 3}, pattern \in Patterns, corner \in {0, 16, 32, 48},
          splits \in SUBSET (1 .. 5), packs \in BOOLEAN}
  \cup {Sample("files", "netpbm") @@ [bits |-> bits, width |-> w] : bits \in Bitmaps(3), w \in {3}}
  \cup {Sample("files", "netpbm") @@ [bits |-> bits, width |-> 9] : bits \in {[i \in 1 .. 18 |-> (i \div 4) % 2]}}
  \cup {Sample("files", "layers") @@ [image |-> Coloured(w, h, alpha)] : w \in 1 .. 3, h \in 1 .. 4, alpha \in {0, 255}}
  \cup {Sample("files", "layers") @@ [image |-> Picture("RGBA8888", 3, 2, Repeated(<<7, 8, 9, 255>>, n) \o Repeated(<<7, 8, 9, 0>>, 6 - n))] :
          n \in 0 .. 6}

Bodies == {Sample("bodies", "body") @@ [body |-> body, encoding |-> encoding] :
             body \in BoundedSeq({0, 1, 171, 255}, 6), encoding \in BodyEncodings}

MCSamples(topic) ==
  CASE topic = "blending" -> Blendings [] topic = "colours" -> Colourings
    [] topic = "files" -> Filings [] topic = "bodies" -> Bodies
=============================================================================
