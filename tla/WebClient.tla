------------------------------ MODULE WebClient ------------------------------
(***************************************************************************)
(* include/WebClient.hpp: one WebClient object and the calls that its user *)
(* makes one after the other.  A call is Init, then libcurl's transfer,    *)
(* which runs the write callback once per chunk and may fail after any of  *)
(* them, then CleanUp.  Addresses, options, names and wording are left     *)
(* out; the custom headers, the cookie string, the curl handle, the lists, *)
(* the form and the places that the response is written to are kept.       *)
(*                                                                         *)
(* A place holds pieces of chunks: c is the whole of the c-th chunk of a   *)
(* response, -c a beginning of it.                                         *)
(***************************************************************************)
EXTENDS Integers, Sequences, FiniteSets

CONSTANTS
  NumKeys,      \* header names are 1..NumKeys, in the order of std::map
  ContentType,  \* the name that SubmitForm adds
  Values,       \* header values
  Multipart,    \* the value that SubmitForm adds
  NoValue,      \* a name that is not in the map
  FileNames,    \* names of local files
  Response,     \* the string that the caller passes for the response
  MaxBody,      \* bound on the chunks of one response
  MaxContent,   \* bound on what a file or the response string accumulates
  MaxCookies    \* bound on the cookies in the cookie string

Keys == 1..NumKeys
Ops  == {"HttpGet", "HttpPost", "UploadFile", "SubmitForm", "DownloadFile", "FtpDownLoad"}
Sinks == FileNames \cup {Response}

ASSUME WebClientAssumption ==
  /\ NumKeys \in Nat
  /\ ContentType \in Keys
  /\ Multipart \in Values
  /\ NoValue \notin Values
  /\ Response \notin FileNames
  /\ MaxCookies \in Nat

VARIABLES
  Header,       \* Header[k]: the value of header k, or NoValue
  curl_header,  \* the curl_slist of the current call
  Cookies,      \* number of cookies in the string Cookies
  cookieLists,  \* curl_slists of cookies that are allocated
  handle,       \* the CURL* of the latest call: "none", "live" or "freed"
  misused,      \* a freed handle was passed to libcurl
  formpost,     \* a multipart form is allocated
  content,      \* content[s]: the pieces in file or string s
  pc,           \* "idle", "transfer", or "again" between the two CleanUps
  call          \* the current or the latest call, and what it received

vars == <<Header, curl_header, Cookies, cookieLists, handle, misused, formpost, content, pc, call>>

Init ==
  /\ Header = [k \in Keys |-> NoValue]
  /\ curl_header = <<>>
  /\ Cookies = 0 /\ cookieLists = 0
  /\ handle = "none"
  /\ misused = FALSE
  /\ formpost = FALSE
  /\ content = [s \in Sinks |-> <<>>]
  /\ pc = "idle"
  /\ call = [op |-> "HttpGet", sink |-> Response, before |-> <<>>, body |-> <<>>,
             spoilt |-> FALSE, ok |-> FALSE]

\* std::map::insert leaves an existing entry alone.
Insert(h, k, v) == IF h[k] = NoValue THEN [h EXCEPT ![k] = v] ELSE h

AddHeader(k, v) ==
  /\ pc = "idle"
  /\ Header' = Insert(Header, k, v)
  /\ UNCHANGED <<curl_header, Cookies, cookieLists, handle, misused, formpost, content, pc, call>>

RemoveHeader(k) ==
  /\ pc = "idle"
  /\ Header' = [Header EXCEPT ![k] = NoValue]
  /\ UNCHANGED <<curl_header, Cookies, cookieLists, handle, misused, formpost, content, pc, call>>

\* The caller empties its response string between calls.
ClearResponse ==
  /\ pc = "idle"
  /\ content' = [content EXCEPT ![Response] = <<>>]
  /\ UNCHANGED <<Header, curl_header, Cookies, cookieLists, handle, misused, formpost, pc, call>>

\* The entries that Init appends to curl_header: one for each name in the map,
\* in the order of the map.
Entries(h) ==
  LET present == {k \in Keys : h[k] # NoValue}
      ith(i) == CHOOSE k \in present : Cardinality({j \in present : j <= k}) = i
  IN  [i \in 1..Cardinality(present) |-> <<ith(i), h[ith(i)]>>]

HeaderOf(op) == IF op = "SubmitForm" THEN Insert(Header, ContentType, Multipart) ELSE Header

SinkOf(op) == IF op \in {"DownloadFile", "FtpDownLoad"} THEN FileNames ELSE {Response}

\* Mutant: DownloadFile does not delete the old file.
ContentBeforeKept(op, s, deleted) == content[s]

\* What the place that receives the response holds when the transfer starts:
\* DownloadFile deletes the file and does not look whether that succeeded,
\* everything else appends.
ContentBefore(op, s, deleted) == IF op = "DownloadFile" /\ deleted THEN <<>> ELSE content[s]

(***************************************************************************)
(* A call up to curl_easy_perform: Init, the form, and File::Delete, which *)
(* fails while somebody reads the file.                                    *)
(***************************************************************************)
Begin(op, s, deleted) ==
  /\ pc = "idle"
  /\ deleted \/ (op = "DownloadFile" /\ content[s] # <<>>)
  /\ Header' = HeaderOf(op)
  /\ curl_header' = curl_header \o Entries(HeaderOf(op))
  /\ handle' = "live"
  /\ \/ op = "UploadFile" /\ formpost' = TRUE
     \/ op = "SubmitForm" /\ formpost' \in BOOLEAN   \* no usable field: no form
     \/ op \notin {"UploadFile", "SubmitForm"} /\ formpost' = formpost
  /\ content' = [content EXCEPT ![s] = ContentBefore(op, s, deleted)]
  /\ pc' = "transfer"
  /\ call' = [op |-> op, sink |-> s, before |-> ContentBefore(op, s, deleted), body |-> <<>>,
              spoilt |-> ~deleted, ok |-> FALSE]
  /\ UNCHANGED <<Cookies, cookieLists, misused>>

\* curl_easy_init() returned NULL: CURLE_FAILED_INIT.
InitFails(op) ==
  /\ pc = "idle"
  /\ Header' = HeaderOf(op)
  /\ UNCHANGED <<curl_header, Cookies, cookieLists, handle, misused, formpost, content, pc, call>>

\* What of a chunk comes into its place: all of it in a string; in a file
\* perhaps a part or nothing, if the ofstream does not open or write.
Landed(chunk) ==
  IF call.sink = Response THEN {<<chunk>>} ELSE {<<chunk>>, <<-chunk>>, <<>>}

\* g_curl_receive_callback and g_curl_download_callback append one chunk, and
\* tell libcurl that all of it was taken whether the file has it or not.
Callback ==
  LET chunk == Len(call.body) + 1
  IN  /\ pc = "transfer"
      /\ Len(call.body) < MaxBody
      /\ Len(content[call.sink]) < MaxContent
      /\ \E piece \in Landed(chunk) :
           /\ content' = [content EXCEPT ![call.sink] = @ \o piece]
           /\ call' = [call EXCEPT !.body = Append(@, chunk),
                                   !.spoilt = @ \/ piece # <<chunk>>]
      /\ UNCHANGED <<Header, curl_header, Cookies, cookieLists, handle, misused, formpost, pc>>

\* Mutant: curl_header is not freed and keeps the entries of this call.
FreeHeaderForgotten == curl_header' = curl_header

\* curl_slist_free_all(curl_header); curl_header = NULL
FreeHeader == curl_header' = <<>>

\* CleanUp(curl, code): on success the n cookies of the response are appended,
\* from a list that libcurl allocates if there are any and nobody frees.
CleanUp(ok) ==
  /\ \E n \in IF ok THEN 0..(MaxCookies - Cookies) ELSE {0} :
       /\ Cookies' = Cookies + n
       /\ cookieLists' = IF n > 0 THEN cookieLists + 1 ELSE cookieLists
  /\ FreeHeader
  /\ misused' = (misused \/ handle = "freed")
  /\ handle' = "freed"

\* Mutant: the form is freed only when the transfer succeeded.
FormFreeOnSuccess(ok) == formpost' = (formpost /\ ~ok)

\* if (formpost) curl_formfree(formpost), whatever the transfer returned.
FormFree(ok) == formpost' = FALSE

\* curl_easy_perform returned.  SubmitForm calls CleanUp a second time.
End(ok) ==
  /\ pc = "transfer"
  /\ call' = [call EXCEPT !.ok = ok]
  /\ CleanUp(ok)
  /\ IF call.op \in {"UploadFile", "SubmitForm"} THEN FormFree(ok) ELSE UNCHANGED formpost
  /\ pc' = IF call.op = "SubmitForm" THEN "again" ELSE "idle"
  /\ UNCHANGED <<Header, content>>

\* The second CleanUp of SubmitForm passes the freed handle to
\* curl_easy_getinfo and curl_easy_cleanup; what it reads may still be the
\* cookies of the transfer.
EndAgain ==
  /\ pc = "again"
  /\ CleanUp(call.ok)
  /\ pc' = "idle"
  /\ UNCHANGED <<Header, formpost, content, call>>

Next ==
  \/ \E k \in Keys : RemoveHeader(k) \/ \E v \in Values : AddHeader(k, v)
  \/ ClearResponse
  \/ \E op \in Ops : InitFails(op) \/ \E s \in SinkOf(op), deleted \in BOOLEAN : Begin(op, s, deleted)
  \/ Callback
  \/ \E ok \in BOOLEAN : End(ok)
  \/ EndAgain

Spec == Init /\ [][Next]_vars

(***************************************************************************)
(* Properties.                                                             *)
(***************************************************************************)
\* curl_header is a member that outlives a call.  During a transfer it still
\* lists exactly the client's current headers, each once: nothing of an
\* earlier call, failed or not, is sent again.
HeadersOfThisCall == pc = "transfer" => curl_header = Entries(Header)

\* Between calls the client holds no handle, no header list and no form,
\* whichever way the calls before ended.  What stays allocated is lists of
\* cookies, each with some of the cookies that were added to the string.
OnlyCookiesHeld ==
  /\ pc = "idle" => handle # "live" /\ curl_header = <<>> /\ ~formpost
  /\ cookieLists <= Cookies

\* The chunk that a piece is of.
Number(piece) == IF piece < 0 THEN -piece ELSE piece

\* If the file could be deleted, opened and written, DownloadFile leaves in it
\* exactly the body that came, also when it repeats a download that failed
\* half way, and FtpDownLoad the body behind what was there before.  Whatever
\* could not be done, unnoticed by the caller, the file begins with what it
\* held when the transfer started, and behind that are pieces of the body in
\* their order, none of them twice.
BodyReceived ==
  LET file == content[call.sink]
      start == Len(call.before)
  IN  call.sink # Response =>
        /\ ~call.spoilt =>
             file = IF call.op = "DownloadFile" THEN call.body ELSE call.before \o call.body
        /\ start <= Len(file) /\ \A i \in 1..start : file[i] = call.before[i]
        /\ \A i \in (start + 1)..Len(file) :
             /\ Number(file[i]) \in 1..Len(call.body)
             /\ \A j \in (start + 1)..(i - 1) : Number(file[j]) < Number(file[i])

\* libcurl's rule for curl_easy_getinfo, "used *AFTER* a performed transfer"
\* of the session: no handle is passed to libcurl after it was cleaned up.
HandleOnlyWhileLive == ~misused
=============================================================================
