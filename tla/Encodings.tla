------------------------------ MODULE Encodings -----------------------------
(***************************************************************************)
(* What a body is wrapped in for who cannot take bytes                     *)
(* (frontend/cdn/encoding.cpp), and what their own decoders make of it.  A *)
(* letter of base64 is its value and a digit of hex its own.               *)
(***************************************************************************)
EXTENDS Integers, Sequences
LOCAL INSTANCE SequencesExt

CONSTANT Full  \* the code of a run that can hold no more: 255
ASSUME FullHoldsOne == Full \in Nat /\ Full >= 2

(* Mutant of EncodeCobs: a run is full one byte late. *)
EncodeCobsLate(body) ==
  LET opened(run) == Append(run.out, 1)
      begun(run) == [out |-> opened(run), code |-> Len(opened(run))]
      added(run, byte) ==
        LET to == IF run.out[run.code] > Full THEN begun(run) ELSE run
        IN  IF byte = 0 THEN begun(to)
            ELSE [to EXCEPT !.out = Append([@ EXCEPT ![to.code] = @ + 1], byte)]
  IN  FoldLeft(added, begun([out |-> <<>>]), body).out

(* A run opens with how far it is to the next: that is a zero of the body, *)
(* but for the run that was full, which none follows.                      *)
EncodeCobs(body) ==
  LET opened(run) == Append(run.out, 1)
      begun(run) == [out |-> opened(run), code |-> Len(opened(run))]
      added(run, byte) ==
        LET to == IF run.out[run.code] = Full THEN begun(run) ELSE run
        IN  IF byte = 0 THEN begun(to)
            ELSE [to EXCEPT !.out = Append([@ EXCEPT ![to.code] = @ + 1], byte)]
  IN  FoldLeft(added, begun([out |-> <<>>]), body).out

Pad == 64
EncodeBase64(body) ==
  LET left == Len(body) % 3
      byte(i) == IF i <= Len(body) THEN body[i] ELSE 0
      triple(t) == <<byte(3 * t - 2) \div 4, (byte(3 * t - 2) % 4) * 16 + byte(3 * t - 1) \div 16,
                     (byte(3 * t - 1) % 16) * 4 + byte(3 * t) \div 64, byte(3 * t) % 64>>
      letters == FlattenSeq([t \in 1 .. (Len(body) + 2) \div 3 |-> triple(t)])
      pads == CASE left = 0 -> 0 [] left = 1 -> 2 [] left = 2 -> 1
  IN  [i \in DOMAIN letters |-> IF i > Len(letters) - pads THEN Pad ELSE letters[i]]

EncodeHex(body) == FlattenSeq([i \in DOMAIN body |-> <<body[i] \div 16, body[i] % 16>>])

BodyEncodings == {"identity", "cobs", "base64", "hex"}
EncodeBody(body, encoding) ==
  CASE encoding = "identity" -> body [] encoding = "cobs" -> EncodeCobs(body)
    [] encoding = "base64" -> EncodeBase64(body) [] encoding = "hex" -> EncodeHex(body)

-----------------------------------------------------------------------------
(* The other side, as each format is defined.                              *)

DecodeCobs(text) ==
  LET runs[at \in 1 .. Len(text) + 1] ==
        LET code == text[at]
            rest == runs[at + code]
            ends == at + code > Len(text)
        IN  IF at > Len(text) THEN <<>>
            ELSE SubSeq(text, at + 1, at + code - 1) \o (IF code = Full \/ ends THEN <<>> ELSE <<0>>) \o rest
  IN  runs[1]

DecodeBase64(text) ==
  LET value(i) == IF text[i] = Pad THEN 0 ELSE text[i]
      triple(t) == <<value(4 * t - 3) * 4 + value(4 * t - 2) \div 16,
                     (value(4 * t - 2) % 16) * 16 + value(4 * t - 1) \div 4, (value(4 * t - 1) % 4) * 64 + value(4 * t)>>
      bytes == FlattenSeq([t \in 1 .. Len(text) \div 4 |-> triple(t)])
  IN  SubSeq(bytes, 1, Len(bytes) - Len(SelectSeq(text, LAMBDA letter : letter = Pad)))

DecodeHex(text) == [i \in 1 .. Len(text) \div 2 |-> text[2 * i - 1] * 16 + text[2 * i]]

DecodeBody(text, encoding) ==
  CASE encoding = "identity" -> text [] encoding = "cobs" -> DecodeCobs(text)
    [] encoding = "base64" -> DecodeBase64(text) [] encoding = "hex" -> DecodeHex(text)
=============================================================================
