------------------------------- MODULE Fields -------------------------------
(***************************************************************************)
(* Fields of a run of bytes, as the MAC commands of mac_commands.py and    *)
(* the headers of message.py have them: where a field is, how a value is   *)
(* taken out of the bytes and how it is put into them.  Bytes are counted  *)
(* from 0, and a flag is 0 or 1.  A number that may not fit the integers   *)
(* of the checker is the sequence of its digits in base 256, the most      *)
(* significant first.                                                      *)
(***************************************************************************)
EXTENDS Integers, Sequences, SequencesExt, FiniteSetsExt

Bits(name, at, low, width) ==
  [kind |-> "bits", name |-> name, at |-> at, len |-> 1, low |-> low, width |-> width]

\* A little-endian number of whole bytes.
Number(name, at, len) ==
  [kind |-> "number", name |-> name, at |-> at, len |-> len, low |-> 0, width |-> 8]

\* The same, its value given by its digits.
Digits(name, at, len) ==
  [kind |-> "digits", name |-> name, at |-> at, len |-> len, low |-> 0, width |-> 8]

\* The margin of DevStatusAns: five bits and a bit for what is negative.
Margin(name, at) ==
  [kind |-> "margin", name |-> name, at |-> at, len |-> 1, low |-> 0, width |-> 6]

Names(fields) == {f.name : f \in fields}

Take(f, raw) ==
  LET byte == raw[f.at + 1] IN
  CASE f.kind = "bits" -> (byte \div 2^f.low) % 2^f.width
    [] f.kind = "number" ->
         MapThenSumSet(LAMBDA i : raw[f.at + 1 + i] * 256^i, 0..(f.len - 1))
    [] f.kind = "digits" -> Reverse(SubSeq(raw, f.at + 1, f.at + f.len))
    [] f.kind = "margin" ->
         IF (byte \div 32) % 2 = 1 THEN -(byte % 32) - 1 ELSE byte % 32

\* What the value v of field f contributes to byte k.
Put(f, v, k) ==
  CASE k \notin f.at..(f.at + f.len - 1) -> 0
    [] OTHER ->
         CASE f.kind = "bits" -> (v % 2^f.width) * 2^f.low
           [] f.kind = "number" -> (v \div 256^(k - f.at)) % 256
           [] f.kind = "digits" -> v[f.len - (k - f.at)]
           [] f.kind = "margin" -> IF v > 0 THEN v % 32 ELSE ((-v - 1) % 32) + 32

Decode(fields, raw) ==
  [x \in Names(fields) |-> Take(CHOOSE f \in fields : f.name = x, raw)]

Encode(fields, values) ==
  [k \in 1..Max({0} \cup {f.at + f.len : f \in fields}) |->
     MapThenSumSet(LAMBDA f : Put(f, values[f.name], k - 1), fields)]
=============================================================================
