--------------------------- MODULE PureFunctions ---------------------------
(***************************************************************************)
(* The functions without state, each called once for every input within    *)
(* the bounds: those of Text step by step; the name functions of Path, the *)
(* codecs and the format of the time in one step.                          *)
(***************************************************************************)
EXTENDS Text, PathNames, Base64Codecs

CONSTANTS Hours, Minutes, MaxTokens

\* Times of a day at the limits of the number of digits.
DayTimes ==
  [wYear : {2024}, wMonth : {1, 12}, wDay : {9}, wHour : Hours, wMinute : Minutes,
   wSecond : {10}, wMilliseconds : {7}]

F == INSTANCE TimeFormat

VARIABLE out   \* the results of a call in one step

\* The inputs of the calls in one step.
Inputs(o) ==
  CASE o = "Path"  -> Strs(NameChars, MaxName)
    [] o = "Codec" -> UNION {[1..n -> Bytes] : n \in 0..MaxText}
    [] o = "Time"  -> F!Formats

PureInit ==
  /\ op \in {"Path", "Codec", "Time"}
  /\ arg \in Inputs(op)
  /\ oldText = <<>> /\ newText = <<>> /\ pc = "start" /\ str = <<>>
  /\ pos = 0 /\ count = 0 /\ arr = <<>> /\ turn = 0

CallPath ==
  /\ op = "Path"
  /\ out' = PathResults(arg)

\* Every encoder, and its decoder applied to the code.
CallCodec ==
  /\ op = "Codec"
  /\ \E code1 \in {base64_encode(arg)}, code2 \in {http_base64_encode(arg)}, url \in {UrlEncode(arg)} :
       out' = [code1 |-> code1, back1 |-> base64_decode(code1, <<>>),
               code2 |-> code2, back2 |-> http_base64_decode(code2),
               url |-> url, urlBack |-> UrlDecode(url)]

CallTime ==
  /\ op = "Time"
  /\ \E t \in DayTimes : out' = [time |-> t, text |-> F!NowToString(t, FlattenSeq(arg))]

Call ==
  /\ pc = "start" /\ pc' = "done"
  /\ CallPath \/ CallCodec \/ CallTime
  /\ UNCHANGED <<call, str, pos, count, arr, turn>>

AllInit == (Init \/ PureInit) /\ out = <<>>

AllNext == (Step /\ out' = out) \/ Call

AllSpec == AllInit /\ [][AllNext]_<<vars, out>>

(***************************************************************************)
(* Properties.                                                             *)
(***************************************************************************)

Returned(o) == op = o /\ pc = "done"

\* The name functions of Path agree with the definition by the last
\* separator, with either separator, where the name's last dot is in its
\* last component or there is none.
NamesAgree == Returned("Path") => PathAgrees(arg, out)

\* Both encoders produce the Base64 code of RFC 4648, for every length of
\* the tail and although the int accumulator of one of them overflows.
\* HttpUtility's decoders undo its encoders, and UrlEncode leaves no reserved
\* character.
CodecsAgree ==
  Returned("Codec") =>
    /\ out.code1 = Rfc4648(arg) /\ out.code2 = Rfc4648(arg)
    /\ out.back2 = arg
    /\ out.urlBack = arg
    /\ \A k \in 1..Len(out.url) : Unreserved(out.url[k]) \/ out.url[k] \in {37, 43}

\* Base64::base64_decode undoes base64_encode, which makes codes of the form
\* that the assertions in the decoder demand: a length that is a multiple of 4,
\* and groups that begin with two characters of the alphabet.
DecodesOwnCode == Returned("Codec") => out.back1 = arg

\* Now::ToString gives each token of the format its part of the time with the
\* right number of digits, except that "mmmm" becomes the minutes twice.
TimesAgree == Returned("Time") => out.text = F!TokenTexts(out.time, arg)
=============================================================================
