---------------------------- MODULE Base64Codecs ----------------------------
(***************************************************************************)
(* The two Base64 codecs, of include/Base64.hpp and include/HttpUtility.hpp*)
(* and the URL codec of the latter.  Bytes are numbers; a Base64 character *)
(* is its index in the alphabet (alphabet_map, lookup, base64_chars) and   *)
(* Pad is '='.  A loop over the input is a recursive function of the       *)
(* position; shifts and masks are quotients and remainders.                *)
(***************************************************************************)
EXTENDS Integers, Sequences, SequencesExt, Folds

CONSTANTS
  Bytes,     \* the byte values that occur
  MaxText,   \* bound on the length of a text
  Pad,       \* '='
  Width      \* 2^32: the range of int, two's complement; 2^14 divides it

Byte(n) == n % 256

(***************************************************************************)
(* Base64.hpp                                                              *)
(***************************************************************************)

\* Three bytes make four characters.
Encode3(a, b, c) ==
  << a \div 4, (a % 4) * 16 + b \div 16, (b % 16) * 4 + c \div 64, c % 64 >>

\* Mutant: a tail of two bytes is encoded like one of one byte.
EncodeTailOne(t) ==
  IF t = <<>> THEN <<>> ELSE <<t[1] \div 4, (t[1] % 4) * 16, Pad, Pad>>

\* The tail of one or two bytes.
EncodeTail(t) ==
  CASE t = <<>> -> <<>>
    [] Len(t) = 1 -> <<t[1] \div 4, (t[1] % 4) * 16, Pad, Pad>>
    [] Len(t) = 2 -> <<t[1] \div 4, (t[1] % 4) * 16 + t[2] \div 16, (t[2] % 16) * 4, Pad>>

base64_encode(t) ==
  LET loop[i \in 0..Len(t)] ==
        IF i + 3 <= Len(t)
        THEN Encode3(t[i + 1], t[i + 2], t[i + 3]) \o loop[i + 3]
        ELSE EncodeTail(SubSeq(t, i + 1, Len(t)))
  IN  loop[0]

\* The decoder gives up on a length that IS a multiple of 4, and on a group
\* whose first two characters ARE in the alphabet; reverse_map of '=' is 255.
\* beyond is what lies in memory behind the code.
base64_decode(code, beyond) ==
  LET at(k) == LET c == IF k <= Len(code) THEN code[k] ELSE beyond[k - Len(code)]
               IN  IF c = Pad THEN 255 ELSE c
      loop[i \in 0..(Len(code) + 3)] ==
        LET q1 == at(i + 1)  q2 == at(i + 2)  q3 == at(i + 3)  q4 == at(i + 4)
            b1 == Byte(q1 * 4 + q2 \div 16)
            b2 == Byte(q2 * 16 + q3 \div 4)
            b3 == Byte(q3 * 64 + q4)
        IN  CASE i >= Len(code) -> <<"end">>
              [] i < Len(code) /\ q1 < 64 /\ q2 < 64 -> <<"invalid">>
              [] i < Len(code) /\ (q1 >= 64 \/ q2 >= 64) /\ q3 >= 64 -> <<b1, "end">>
              [] i < Len(code) /\ (q1 >= 64 \/ q2 >= 64) /\ q3 < 64 /\ q4 >= 64 -> <<b1, b2, "end">>
              [] OTHER -> <<b1, b2, b3>> \o loop[i + 4]
  IN  IF Len(code) % 4 = 0 \/ Last(loop[0]) = "invalid" THEN <<>> ELSE Front(loop[0])

(***************************************************************************)
(* HttpUtility.hpp: an int accumulator val of which valb + 6 bits wait.    *)
(***************************************************************************)
\* The characters that one byte completes, and the bits left.
PushByte(s, c) ==
  LET val == (s.val * 256 + c) % Width
      valb == s.valb + 8
      one == s.out \o <<(val \div 2^valb) % 64>>
  IN  IF valb >= 6
      THEN [val |-> val, valb |-> valb - 12,
            out |-> one \o <<(val \div 2^(valb - 6)) % 64>>]
      ELSE [val |-> val, valb |-> valb - 6, out |-> one]

\* The bits that still wait, filled up with zeros.
Flush(s) ==
  IF s.valb > -6
  THEN Append(s.out, (((s.val * 256) % Width) \div 2^(s.valb + 8)) % 64)
  ELSE s.out

http_base64_encode(t) ==
  LET out == Flush(FoldLeft(PushByte, [val |-> 0, valb |-> -6, out |-> <<>>], t))
  IN  out \o [k \in 1..((-Len(out)) % 4) |-> Pad]

\* Groups of four characters give three bytes; a group of i characters that
\* the end or Pad cuts short is filled up and gives i - 1 bytes.  '\0' is not
\* in the alphabet: find gives npos, whose low byte is 255.
Decode4(q) ==
  << Byte(q[1] * 4 + ((q[2] \div 16) % 4)),
     Byte((q[2] % 16) * 16 + ((q[3] \div 4) % 16)),
     Byte((q[3] % 4) * 64 + q[4]) >>

TailBytes(i) == i - 1

http_base64_decode(code) ==
  LET valid == SelectInSeq(code, LAMBDA c : c = Pad)
      used == IF valid = 0 THEN code ELSE SubSeq(code, 1, valid - 1)
      loop[i \in 0..Len(used)] ==
        IF i + 4 <= Len(used)
        THEN Decode4(SubSeq(used, i + 1, i + 4)) \o loop[i + 4]
        ELSE LET rest == SubSeq(used, i + 1, Len(used))
             IN  IF rest = <<>> THEN <<>>
                 ELSE SubSeq(Decode4(rest \o <<255, 255, 255>>), 1, TailBytes(Len(rest)))
  IN  loop[0]

(***************************************************************************)
(* UrlEncode, UrlDecode; characters are their ASCII codes.                 *)
(***************************************************************************)
ToHex(x) == IF x > 9 THEN x + 55 ELSE x + 48

FromHex(x) ==
  CASE x \in 65..90 -> x - 65 + 10
    [] x \in 97..122 -> x - 97 + 10
    [] x \in 48..57 -> x - 48

\* isalnum, '-', '_', '.', '~'
Unreserved(c) == c \in (48..57) \cup (65..90) \cup (97..122) \cup {45, 95, 46, 126}

UrlEncode(t) ==
  FlattenSeq([k \in 1..Len(t) |->
    IF Unreserved(t[k]) THEN <<t[k]>>
    ELSE IF t[k] = 32 THEN <<43>>
    ELSE <<37, ToHex(t[k] \div 16), ToHex(t[k] % 16)>>])

DecodePlus(c) == IF c = 43 THEN 32 ELSE c

\* Only for a str in which two digits follow every '%', as asserted.
UrlDecode(str) ==
  LET loop[i \in 1..(Len(str) + 1)] ==
        IF i > Len(str) THEN <<>>
        ELSE IF str[i] = 37
        THEN <<Byte(FromHex(str[i + 1]) * 16 + FromHex(str[i + 2]))>> \o loop[i + 3]
        ELSE <<DecodePlus(str[i])>> \o loop[i + 1]
  IN  loop[1]

(***************************************************************************)
(* Reference definition.                                                   *)
(***************************************************************************)

\* Base64 as RFC 4648 has it: the text as one number, in digits of 6 bits.
Bits(t) == [p \in 1..(8 * Len(t)) |-> (t[((p - 1) \div 8) + 1] \div 2^(7 - ((p - 1) % 8))) % 2]

BitAt(t, p) == IF p <= 8 * Len(t) THEN Bits(t)[p] ELSE 0

Rfc4648(t) ==
  LET chars == (8 * Len(t) + 5) \div 6
      char(k) == FoldLeft(LAMBDA n, j : 2 * n + BitAt(t, 6 * (k - 1) + j), 0, <<1, 2, 3, 4, 5, 6>>)
  IN  [k \in 1..(4 * ((Len(t) + 2) \div 3)) |-> IF k <= chars THEN char(k) ELSE Pad]
=============================================================================
