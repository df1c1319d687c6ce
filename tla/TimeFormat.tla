----------------------------- MODULE TimeFormat -----------------------------
(***************************************************************************)
(* include/Time.hpp: Now::ToString, which replaces the letters of a format *)
(* by the parts of the time, one kind after the other, with                *)
(* Text::ReplaceAll.                                                       *)
(***************************************************************************)
EXTENDS Strings

CONSTANT MaxTokens   \* bound on the tokens of a format

Digits == <<"0", "1", "2", "3", "4", "5", "6", "7", "8", "9">>

\* std::to_string of a natural number below 10000.
to_string(n) ==
  LET from == Max({1} \cup {k \in 1..4 : n >= 10^(k - 1)})
  IN  [k \in 1..from |-> Digits[((n \div 10^(from - k)) % 10) + 1]]

\* Mutant: the size is compared with 2.
PaddedTwo(s) == IF Len(s) = 2 THEN <<"0">> \o s ELSE s

Padded(s) == IF Len(s) = 1 THEN <<"0">> \o s ELSE s

\* Text::ReplaceAll, for a new text that does not bring the old one back.
TextReplaceAll(str, old, new) ==
  FoldLeft(LAMBDA s, k : IF Holds(s, old) THEN replace(s, find(s, old, 0), Len(old), new) ELSE s,
           str, [k \in 1..Len(str) |-> k])

yyyy == <<"y", "y", "y", "y">>
MM == <<"M", "M">>
dd == <<"d", "d">>
hh == <<"h", "h">>
mm == <<"m", "m">>
ss == <<"s", "s">>
mmmm == <<"m", "m", "m", "m">>

Tokens == {yyyy, MM, dd, hh, mm, ss, mmmm, <<"-">>, <<"m">>}

PartOf(t, token) ==
  CASE token = yyyy -> to_string(t.wYear)
    [] token = MM -> Padded(to_string(t.wMonth))
    [] token = dd -> Padded(to_string(t.wDay))
    [] token = hh -> Padded(to_string(t.wHour))
    [] token = mm -> Padded(to_string(t.wMinute))
    [] token = ss -> Padded(to_string(t.wSecond))
    [] token = mmmm -> to_string(t.wMilliseconds)

\* Now::ToString at the time t.
NowToString(t, format) ==
  FoldLeft(LAMBDA s, token : TextReplaceAll(s, token, PartOf(t, token)), format,
           <<yyyy, MM, dd, hh, mm, ss, mmmm>>)

\* The formats, as sequences of tokens no two neighbours of which run into
\* each other.
Formats ==
  {f \in UNION {[1..n -> Tokens] : n \in 0..MaxTokens} :
     \A k \in 1..(Len(f) - 1) : f[k][1] # f[k + 1][1]}

(***************************************************************************)
(* Reference definition: each token by itself.  The milliseconds come out  *)
(* as the minutes twice, because "mm" is replaced before "mmmm".           *)
(***************************************************************************)

TwoDigits(n) == <<Digits[1 + (n \div 10)], Digits[1 + (n % 10)]>>

TokenText(t, token) ==
  CASE token = yyyy -> TwoDigits(t.wYear \div 100) \o TwoDigits(t.wYear % 100)
    [] token = MM -> TwoDigits(t.wMonth)
    [] token = dd -> TwoDigits(t.wDay)
    [] token = hh -> TwoDigits(t.wHour)
    [] token = mm -> TwoDigits(t.wMinute)
    [] token = ss -> TwoDigits(t.wSecond)
    [] token = mmmm -> TwoDigits(t.wMinute) \o TwoDigits(t.wMinute)
    [] OTHER -> token

TokenTexts(t, f) == FlattenSeq([k \in DOMAIN f |-> TokenText(t, f[k])])
=============================================================================
