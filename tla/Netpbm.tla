------------------------------- MODULE Netpbm -------------------------------
(***************************************************************************)
(* The netpbm family (backend/codecs/container/ppm): six kinds, in ascii   *)
(* or binary, with comments anywhere a blank may be.  A file is the        *)
(* sequence of its bytes, and a position the bytes before it.              *)
(***************************************************************************)
EXTENDS Colours
LOCAL INSTANCE SequencesExt

Blank == {32, 9, 10, 13, 11, 12}
Hash == 35
NewLine == 10
IsDigit(byte) == byte \in 48 .. 57

SkipBlanks(file, from) ==
  LET skip[at \in 0 .. Len(file), comment \in BOOLEAN] ==
        CASE at = Len(file) -> at
          [] at < Len(file) /\ comment -> IF file[at + 1] = NewLine THEN skip[at, FALSE] ELSE skip[at + 1, TRUE]
          [] OTHER -> IF file[at + 1] \in Blank THEN skip[at + 1, FALSE]
                      ELSE IF file[at + 1] = Hash THEN skip[at + 1, TRUE] ELSE at
  IN  skip[from, FALSE]

(* A number and where it ends, or that there is none: one that is more     *)
(* than an int is none, and more digits than this stand for it.            *)
MostDigits == 9

NumberAt(file, start) ==
  LET digits[at \in 0 .. Len(file), value \in Nat] ==
        IF at = Len(file) \/ ~IsDigit(file[at + 1]) THEN [value |-> value, at |-> at]
        ELSE IF at - start = MostDigits THEN Fail("InvalidInput")
        ELSE digits[at + 1, value * 10 + file[at + 1] - 48]
  IN  IF start < Len(file) /\ IsDigit(file[start + 1]) THEN digits[start, 0] ELSE Fail("InvalidInput")
ReadNumber(file, from) == NumberAt(file, SkipBlanks(file, from))

(* As many as are wanted, one after the other, and where the last ends.    *)
ReadNumbers(file, from, count) ==
  LET with(values, number) ==
        IF Failed(number) THEN number ELSE [values |-> Append(values, number.value), at |-> number.at]
      next(read, i) == IF Failed(read) THEN read ELSE with(read.values, ReadNumber(file, read.at))
  IN  FoldLeft(next, [values |-> <<>>, at |-> from], [i \in 1 .. count |-> i])

HeaderEnd(file, at) == IF at < Len(file) /\ file[at + 1] \in Blank THEN at + 1 ELSE at

(* A bitmap has no maxval: every sample is one bit.                        *)
HeaderSays(file, kind, numbers) ==
  LET values == IF kind \in {1, 4} THEN Append(numbers.values, 1) ELSE numbers.values
  IN  IF Failed(numbers) THEN numbers
      ELSE IF values[1] * values[2] \notin 1 .. 2 ^ 28 \/ values[3] \notin 1 .. 65535 THEN Fail("InvalidInput")
      ELSE [kind |-> kind, width |-> values[1], height |-> values[2], maxval |-> values[3],
            offset |-> HeaderEnd(file, numbers.at)]
ReadHeader(file) ==
  LET kind == file[2] - 48
      magic == Len(file) >= 2 /\ file[1] = 80 /\ file[2] \in 49 .. 54
  IN  IF ~magic THEN Fail("InvalidInput")
      ELSE HeaderSays(file, kind, ReadNumbers(file, 2, IF kind \in {1, 4} THEN 2 ELSE 3))

Scale(value, maxval) ==
  IF value <= 0 THEN 0 ELSE IF value >= maxval THEN 255 ELSE (value * 255 + (maxval \div 2)) \div maxval

(* One is black, in ascii and in a packed row, which ends with its byte.   *)
AsciiBits(file, h, pixels) ==
  LET bits[at \in 0 .. Len(file), left \in 0 .. pixels] ==
        LET here == SkipBlanks(file, at)
            rest == bits[here + 1, left - 1]
        IN  CASE left = 0 -> [bytes |-> <<>>]
              [] left # 0 /\ (here = Len(file) \/ file[here + 1] \notin {48, 49}) -> Fail("InvalidInput")
              [] OTHER -> IF Failed(rest) THEN rest
                          ELSE [bytes |-> <<IF file[here + 1] = 49 THEN 0 ELSE 255>> \o rest.bytes]
  IN  bits[h.offset, pixels]

AsciiSamples(file, h, samples) ==
  LET read == ReadNumbers(file, h.offset, samples)
  IN  IF Failed(read) THEN read ELSE [bytes |-> [i \in 1 .. samples |-> Scale(read.values[i], h.maxval)]]

BinaryBits(file, h) ==
  LET stride == (h.width + 7) \div 8
      bit(x, y) == Bits(file[h.offset + y * stride + (x \div 8) + 1], 7 - (x % 8), 1)
  IN  IF Len(file) - h.offset < stride * h.height THEN Fail("InvalidInput")
      ELSE [bytes |-> [i \in 1 .. h.width * h.height |-> 255 * (1 - bit((i - 1) % h.width, (i - 1) \div h.width))]]

(* Samples of two bytes are big endian.                                    *)
BinarySamples(file, h, samples) ==
  LET wide == IF h.maxval > 255 THEN 2 ELSE 1
      at(i) == h.offset + (i - 1) * wide + 1
      value(i) == IF wide = 2 THEN file[at(i)] * 256 + file[at(i) + 1] ELSE file[at(i)]
  IN  IF Len(file) - h.offset < samples * wide THEN Fail("InvalidInput")
      ELSE [bytes |-> [i \in 1 .. samples |-> Scale(value(i), h.maxval)]]

AsciiRoom(file, h, samples) == samples > 0 => Len(file) - h.offset >= samples * 2 - 1

DecodeSamples(color, file, h) ==
  LET samples == h.width * h.height * (IF color = "RGB888" THEN 3 ELSE 1)
      kinds == IF color = "RGB888" THEN {3, 6} ELSE {1, 2, 4, 5}
      read == CASE h.kind = 1 -> AsciiBits(file, h, samples)
                [] h.kind \in {2, 3} -> AsciiSamples(file, h, samples)
                [] h.kind = 4 -> BinaryBits(file, h)
                [] h.kind \in {5, 6} -> BinarySamples(file, h, samples)
      picture(data) == IF Failed(data) THEN data ELSE Picture(color, h.width, h.height, data.bytes)
  IN  IF Failed(h) THEN h
      ELSE IF h.kind \notin kinds \/ (h.kind \in {1, 2, 3} /\ ~AsciiRoom(file, h, samples)) THEN Fail("InvalidInput")
      ELSE picture(read)
DecodePpm(color, file) == DecodeSamples(color, file, ReadHeader(file))

DetectPpm(color, file) ==
  /\ Len(file) >= 3 /\ file[1] = 80
  /\ file[2] - 48 \in (IF color = "RGB888" THEN {3, 6} ELSE {1, 2, 4, 5})
  /\ file[3] \in {NewLine, 13, 32, 9, Hash}

Digits[n \in Nat] == IF n < 10 THEN <<48 + n>> ELSE Digits[n \div 10] \o <<48 + (n % 10)>>
PpmHeader(w, h) == <<80, 54, NewLine>> \o Digits[w] \o <<32>> \o Digits[h] \o <<NewLine, 50, 53, 53, NewLine>>

(* The alpha is dropped on the way out.                                    *)
EncodePpm(image) ==
  LET w == image.width h == image.height
  IN  IF ~Sizable("RGBA8888", w, h) \/ Len(image.data) # SizeOf("RGBA8888", w, h) THEN Fail("InvalidInput")
      ELSE [bytes |-> PpmHeader(w, h) \o Move("RGBA8888", "RGB888", image.data, w, h)]
=============================================================================
