--------------------------- MODULE ClientsProofs ---------------------------
(***************************************************************************)
(* Proofs about WebClient, CurlGlobal, MySqlClient and OrcaleClient, for   *)
(* every set of headers, files and threads and without a bound on chunks,  *)
(* cookies, rows and lost connections.                                     *)
(***************************************************************************)
EXTENDS MCClients, FiniteSetTheorems, SequenceTheorems, WellFoundedInduction, TLAPS

(***************************************************************************)
(* A step of the composition is a step of each component or leaves it as   *)
(* it is.                                                                  *)
(***************************************************************************)

\* The four components run side by side, each on variables of its own.
LEMMA StepOfOne ==
  ASSUME [AllNext]_allVars
  PROVE  [Next]_vars /\ [C!Next]_(C!vars) /\ [M!Next]_(M!vars) /\ [O!Next]_(O!vars)
<1>1. CASE WebNext
  BY <1>1 DEF WebNext, curlVars, mysqlVars, orcaleVars, C!vars, M!vars, O!vars
<1>2. CASE CurlNext
  BY <1>2 DEF CurlNext, mysqlVars, orcaleVars, M!vars, O!vars
<1>3. CASE MySqlNext
  BY <1>3 DEF MySqlNext, curlVars, orcaleVars, C!vars, O!vars
<1>4. CASE OrcaleNext
  BY <1>4 DEF OrcaleNext, curlVars, mysqlVars, C!vars, M!vars
<1>5. CASE UNCHANGED allVars
  BY <1>5 DEF allVars, curlVars, mysqlVars, orcaleVars, C!vars, M!vars, O!vars
<1> QED BY <1>1, <1>2, <1>3, <1>4, <1>5 DEF AllNext

(***************************************************************************)
(* CurlGlobal.  A thread that is past the test of the flag, or sees it     *)
(* set, has a curl_global_init that returned behind it.                    *)
(***************************************************************************)
CurlInv ==
  /\ curlPc \in [Threads -> {"test", "init", "set", "use", "done"}]
  /\ g_curl_bInit => ready
  /\ C!InitBeforeUse

\* The flag is set only after an initialisation has returned, so no thread
\* uses libcurl before one has, however many test the flag at once.
THEOREM CurlReady == AllSpec => []InitBeforeUse
<1>1. AllInit => CurlInv
  BY DEF AllInit, C!Init, CurlInv, C!InitBeforeUse
<1>2. CurlInv /\ [AllNext]_allVars => CurlInv'
  <2> SUFFICES ASSUME CurlInv, [C!Next]_(C!vars) PROVE CurlInv'
    BY StepOfOne
  <2> USE DEF CurlInv, C!InitBeforeUse, C!Goto
  <2>1. ASSUME NEW t \in Threads, C!Test(t) PROVE CurlInv'
    BY <2>1 DEF C!Test
  <2>2. ASSUME NEW t \in Threads, C!GlobalInit(t) PROVE CurlInv'
    BY <2>2 DEF C!GlobalInit
  <2>3. ASSUME NEW t \in Threads, C!Set(t) PROVE CurlInv'
    BY <2>3 DEF C!Set
  <2>4. ASSUME NEW t \in Threads, C!Use(t) PROVE CurlInv'
    BY <2>4 DEF C!Use
  <2>5. CASE C!Done \/ UNCHANGED C!vars
    BY <2>5 DEF C!Done, C!vars
  <2> QED BY <2>1, <2>2, <2>3, <2>4, <2>5 DEF C!Next
<1>3. CurlInv => InitBeforeUse
  BY DEF CurlInv, InitBeforeUse
<1> QED BY <1>1, <1>2, <1>3, PTL DEF AllSpec

(***************************************************************************)
(* The databases.  What the properties say is inductive once the counters  *)
(* are known to be numbers and the histories truth values.                 *)
(***************************************************************************)
MySqlFlags == held \in BOOLEAN /\ reopened \in BOOLEAN

MySqlInv ==
  /\ conns \in Nat /\ lost \in Nat
  /\ M!ConnectionsReleased

OrcaleFlags ==
  /\ envHeld \in BOOLEAN /\ envReopened \in BOOLEAN /\ threw \in BOOLEAN
  /\ failed \in BOOLEAN /\ undefined \in BOOLEAN

OrcaleInv ==
  /\ outEnv \in {"null", "live", "dangling"}
  /\ envs \in Nat /\ envsLost \in Nat
  /\ O!EnvironmentsReleased
  /\ O!DanglingOnlyAfterFailure

DatabaseInv == MySqlFlags /\ MySqlInv /\ OrcaleFlags /\ OrcaleInv

\* The histories of MySqlClient stay truth values.
LEMMA MySqlFlagsStep == MySqlFlags /\ [M!Next]_(M!vars) => MySqlFlags'
BY Zenon DEF MySqlFlags, M!Next, M!vars, M!OpenConn, M!CloseConn, M!Destroy,
             M!ConnectFails, M!QueryFails, M!ExecuteQuery, M!ExecuteNoQuery

\* A step of MySqlClient keeps the count of connections.
LEMMA MySqlStep == MySqlFlags /\ MySqlInv /\ [M!Next]_(M!vars) => MySqlInv'
<1> SUFFICES ASSUME MySqlFlags, MySqlInv, [M!Next]_(M!vars) PROVE MySqlInv'
  OBVIOUS
<1> USE DEF MySqlFlags, MySqlInv, M!ConnectionsReleased, M!LostByInit
<1>1. ASSUME NEW ok \in BOOLEAN, M!OpenConn(ok) PROVE MySqlInv'
  BY <1>1 DEF M!OpenConn
<1>2. CASE M!CloseConn
  BY <1>2 DEF M!CloseConn, M!Close
<1>3. CASE M!Destroy
  BY <1>3 DEF M!Destroy, M!Close
<1>4. ASSUME NEW c, M!ConnectFails(c) PROVE MySqlInv'
  BY <1>4 DEF M!ConnectFails
<1>5. CASE M!QueryFails
  BY <1>5 DEF M!QueryFails, M!AfterFailedQuery
<1>6. ASSUME NEW rows, M!ExecuteQuery(rows) PROVE MySqlInv'
  BY <1>6 DEF M!ExecuteQuery
<1>7. ASSUME NEW changed, NEW ok, M!ExecuteNoQuery(changed, ok) PROVE MySqlInv'
  BY <1>7 DEF M!ExecuteNoQuery
<1>8. CASE UNCHANGED M!vars
  BY <1>8 DEF M!vars
<1> QED BY <1>1, <1>2, <1>3, <1>4, <1>5, <1>6, <1>7, <1>8, Zenon DEF M!Next

\* The histories of OrcaleClient stay truth values.
LEMMA OrcaleFlagsStep == OrcaleFlags /\ [O!Next]_(O!vars) => OrcaleFlags'
<1> SUFFICES ASSUME OrcaleFlags, [O!Next]_(O!vars) PROVE OrcaleFlags'
  OBVIOUS
<1>1. CASE UNCHANGED O!vars
  BY <1>1, Zenon DEF OrcaleFlags, O!vars
<1>2. ASSUME NEW throws \in BOOLEAN, NEW c, O!ConnectFails(c, throws) PROVE OrcaleFlags'
  BY <1>2, Zenon DEF OrcaleFlags, O!ConnectFails, O!Overwrite
<1>3. ASSUME NEW throws \in BOOLEAN, NEW c, O!EnvironmentFails(c, throws) PROVE OrcaleFlags'
  BY <1>3, Zenon DEF OrcaleFlags, O!EnvironmentFails
<1>4. CASE O!OpenConn
  BY <1>4, Zenon DEF OrcaleFlags, O!OpenConn, O!Overwrite
<1>5. ASSUME NEW throws \in BOOLEAN, O!CloseConn(throws) PROVE OrcaleFlags'
  BY <1>5, Zenon DEF OrcaleFlags, O!CloseConn
<1>6. ASSUME NEW throws \in BOOLEAN, NEW c, NEW ok, NEW rows, O!Statement(c, ok, rows, throws)
      PROVE OrcaleFlags'
  BY <1>6, Zenon DEF OrcaleFlags, O!Statement, O!Overwrite
<1> QED
  BY <1>1, <1>2, <1>3, <1>4, <1>5, <1>6, Zenon
     DEF O!Next, O!ExecuteNoQuery, O!ExecuteQuery, O!QueryThrows

\* A step of OrcaleClient keeps the count of environments, and the pointer
\* that dangles is used only by the calls named.
LEMMA OrcaleStep == OrcaleFlags /\ OrcaleInv /\ [O!Next]_(O!vars) => OrcaleInv'
<1> SUFFICES ASSUME OrcaleFlags, OrcaleInv, [O!Next]_(O!vars) PROVE OrcaleInv'
  OBVIOUS
<1> USE DEF OrcaleFlags, OrcaleInv, O!EnvironmentsReleased, O!DanglingOnlyAfterFailure, O!Void
<1>1. ASSUME NEW throws \in BOOLEAN, NEW c, O!ConnectFails(c, throws) PROVE OrcaleInv'
  BY <1>1 DEF O!ConnectFails, O!Overwrite, O!EnvAfterFailedConnect, O!NotTerminated
<1>2. ASSUME NEW throws \in BOOLEAN, NEW c, O!EnvironmentFails(c, throws) PROVE OrcaleInv'
  BY <1>2 DEF O!EnvironmentFails, O!NotTerminated
<1>3. CASE O!OpenConn
  BY <1>3 DEF O!OpenConn, O!Overwrite
<1>4. ASSUME NEW throws \in BOOLEAN, O!CloseConn(throws) PROVE OrcaleInv'
  <2>1. CASE outEnv # "live" \/ outConn # "live"
    <3>1. undefined' /\ O!Closed /\ envs' = (IF outEnv = "live" THEN envs - 1 ELSE envs)
      BY <1>4, <2>1, Zenon DEF O!CloseConn
    <3>2. envRet'.call = "CloseConn"
      BY <1>4 DEF O!CloseConn
    <3>3. UNCHANGED <<envsLost, failed, envReopened>>
      BY <1>4 DEF O!CloseConn
    <3> QED BY <3>1, <3>2, <3>3 DEF O!Closed
  <2>2. CASE outEnv = "live" /\ outConn = "live"
    <3>1. ~undefined' /\ O!Close(envs, throws) /\ threw' = throws
      BY <1>4, <2>2, Zenon DEF O!CloseConn
    <3>2. UNCHANGED <<envsLost, failed, envReopened>>
      BY <1>4 DEF O!CloseConn
    <3> QED BY <2>2, <3>1, <3>2 DEF O!Close, O!Closed, O!NotTerminated
  <2> QED BY <2>1, <2>2
<1>5. ASSUME NEW throws \in BOOLEAN, NEW c, NEW ok, NEW rows, O!Statement(c, ok, rows, throws)
      PROVE OrcaleInv'
  BY <1>5 DEF O!Statement, O!Overwrite, O!Close, O!Closed, O!NotTerminated, O!NothingClosed
<1>6. CASE UNCHANGED O!vars
  BY <1>6 DEF O!vars
<1> QED
  BY <1>1, <1>2, <1>3, <1>4, <1>5, <1>6
     DEF O!Next, O!ExecuteNoQuery, O!ExecuteQuery, O!QueryThrows

\* Whatever fails, the database clients end every connection and environment
\* in the call that made it, unless OCCI throws when it is given back; one is
\* lost only under a second that is opened on top of it; and the dangling
\* pointer stays unused by statements.
THEOREM Released == AllSpec => []ConnectionsReleased
<1>1. AllInit => DatabaseInv
  <2> SUFFICES ASSUME M!Init, O!Init PROVE DatabaseInv
    BY DEF AllInit
  <2>1. MySqlFlags /\ OrcaleFlags
    BY Zenon DEF MySqlFlags, OrcaleFlags, M!Init, O!Init
  <2>2. MySqlInv
    BY DEF MySqlInv, M!Init, M!ConnectionsReleased
  <2>3. OrcaleInv
    BY DEF OrcaleInv, O!Init, O!EnvironmentsReleased, O!DanglingOnlyAfterFailure
  <2> QED BY <2>1, <2>2, <2>3 DEF DatabaseInv
<1>2. DatabaseInv /\ [AllNext]_allVars => DatabaseInv'
  BY StepOfOne, MySqlFlagsStep, MySqlStep, OrcaleFlagsStep, OrcaleStep DEF DatabaseInv
<1>3. DatabaseInv => ConnectionsReleased
  BY DEF DatabaseInv, MySqlInv, OrcaleInv, ConnectionsReleased
<1> QED BY <1>1, <1>2, <1>3, PTL DEF AllSpec

(***************************************************************************)
(* WebClient.  HeadersOfThisCall is not inductive alone: Begin appends to  *)
(* the list that is there, so it must be empty between calls; and          *)
(* OnlyCookiesHeld needs to know which calls have a form.                  *)
(***************************************************************************)
Calls == [op : Ops, sink : Sinks, before : Seq(Int), body : Seq(Int), spoilt : BOOLEAN, ok : BOOLEAN]

WebTypes ==
  /\ content \in [Sinks -> Seq(Int)]
  /\ call \in Calls

\* What the client holds at each point of a call.
Holds ==
  /\ pc \in {"idle", "transfer", "again"}
  /\ pc = "idle" => handle # "live"
  /\ pc = "transfer" => curl_header = Entries(Header)
  /\ pc # "transfer" => curl_header = <<>> /\ ~formpost
  /\ pc = "transfer" /\ formpost => call.op \in {"UploadFile", "SubmitForm"}

\* Each list was allocated with a cookie in it.
ListsHold ==
  /\ Cookies \in Nat /\ cookieLists \in Nat
  /\ cookieLists <= Cookies

\* What a file holds that began as before and was given the chunks of body:
\* before, and behind it pieces of the chunks, each of a later one.
Holding(file, before, body) ==
  /\ Len(before) <= Len(file)
  /\ \A i \in 1..Len(before) : file[i] = before[i]
  /\ \A i \in (Len(before) + 1)..Len(file) :
       /\ Number(file[i]) \in 1..Len(body)
       /\ \A j \in (Len(before) + 1)..(i - 1) : Number(file[j]) < Number(file[i])

\* What the place that receives the response holds.
Received ==
  call.sink # Response =>
    /\ ~call.spoilt => content[call.sink] = call.before \o call.body
    /\ ~call.spoilt /\ call.op = "DownloadFile" => call.before = <<>>
    /\ Holding(content[call.sink], call.before, call.body)

WebInv == WebTypes /\ Holds /\ ListsHold /\ Received

\* To append to the second of two sequences is to append to both together.
LEMMA ConcatAppend ==
  ASSUME NEW S, NEW s \in Seq(S), NEW t \in Seq(S), NEW e \in S
  PROVE  s \o Append(t, e) = Append(s \o t, e)
<1>1. <<e>> \in Seq(S) /\ s \o t \in Seq(S)
  OBVIOUS
<1>2. Append(t, e) = t \o <<e>> /\ Append(s \o t, e) = (s \o t) \o <<e>>
  BY <1>1, AppendIsConcat
<1>3. s \o (t \o <<e>>) = (s \o t) \o <<e>>
  BY <1>1, ConcatAssociative
<1> QED BY <1>2, <1>3

\* The entries of a map of headers are a sequence.
LEMMA EntriesSeq ==
  ASSUME NEW h
  PROVE  <<>> \o Entries(h) = Entries(h)
<1> DEFINE present == {k \in Keys : h[k] # NoValue}
           n == Cardinality(present)
           ith(i) == CHOOSE k \in present : Cardinality({j \in present : j <= k}) = i
           entry(i) == <<ith(i), h[ith(i)]>>
           S == {entry(i) : i \in 1..n}
<1>1. n \in Nat
  <2>1. IsFiniteSet(Keys)
    BY WebClientAssumption, FS_Interval DEF Keys
  <2> QED BY <2>1, FS_Subset, FS_CardinalityType
<1>2. Entries(h) = [i \in 1..n |-> entry(i)]
  BY DEF Entries
<1> HIDE DEF n, entry
<1>3. Entries(h) \in [1..n -> S]
  BY <1>2
<1> HIDE DEF S
<1>4. Entries(h) \in Seq(S)
  BY <1>1, <1>3
<1> QED BY <1>4

\* A chunk that is put behind a file, whole, cut or not at all, keeps what the
\* file holds in order.
LEMMA HoldsChunk ==
  ASSUME NEW file \in Seq(Int), NEW before \in Seq(Int), NEW body \in Seq(Int),
         Holding(file, before, body), NEW chunk, chunk = Len(body) + 1,
         NEW piece \in {<<chunk>>, <<-chunk>>, <<>>}
  PROVE  Holding(file \o piece, before, Append(body, chunk))
<1> DEFINE n == Len(body)  l == Len(file)  start == Len(before)
<1>1. n \in Nat /\ l \in Nat /\ start \in Nat /\ chunk = n + 1 /\ Len(Append(body, chunk)) = n + 1
  OBVIOUS
<1>2. /\ start <= l /\ \A i \in 1..start : file[i] = before[i]
      /\ \A i \in (start + 1)..l :
           /\ file[i] \in Int /\ Number(file[i]) \in 1..n
           /\ \A j \in (start + 1)..(i - 1) : Number(file[j]) < Number(file[i])
  BY DEF Holding
<1>3. CASE piece = <<>>
  <2>1. file \o piece = file
    BY <1>3
  <2> HIDE DEF n, l, start
  <2>2. \A i \in (start + 1)..l : Number(file[i]) \in 1..(n + 1)
    BY <1>1, <1>2
  <2> QED BY <1>1, <1>2, <2>1, <2>2 DEF Holding, n, l, start
<1>4. ASSUME NEW c \in {chunk, -chunk}, piece = <<c>> PROVE Holding(file \o piece, before, Append(body, chunk))
  <2> DEFINE new == file \o piece
  <2>1. /\ Len(new) = l + 1 /\ \A i \in 1..l : new[i] = file[i]
        /\ new[l + 1] = c
    BY <1>4
  <2>2. Number(c) = n + 1
    BY <1>1, <1>4 DEF Number
  <2> HIDE DEF new, n, l, start
  <2>3. \A i \in 1..start : new[i] = before[i]
    BY <1>1, <1>2, <2>1
  <2>4. ASSUME NEW i \in (start + 1)..(l + 1)
        PROVE  /\ Number(new[i]) \in 1..(n + 1)
               /\ \A j \in (start + 1)..(i - 1) : Number(new[j]) < Number(new[i])
    <3>1. CASE i = l + 1
      <4>1. \A j \in (start + 1)..l : Number(new[j]) \in 1..n
        BY <1>1, <1>2, <2>1
      <4> QED BY <1>1, <2>1, <2>2, <3>1, <4>1
    <3>2. CASE i # l + 1
      <4>1. i \in (start + 1)..l /\ i \in 1..l
        BY <1>1, <3>2
      <4>2. new[i] = file[i] /\ \A j \in (start + 1)..(i - 1) : new[j] = file[j]
        BY <1>1, <2>1, <4>1
      <4>3. Number(file[i]) \in 1..(n + 1)
        BY <1>1, <1>2, <4>1
      <4> QED BY <1>2, <4>1, <4>2, <4>3
    <3> QED BY <3>1, <3>2
  <2>5. start <= l + 1
    BY <1>1, <1>2
  <2> QED BY <1>1, <2>1, <2>3, <2>4, <2>5 DEF Holding, new, n, l, start
<1> QED BY <1>3, <1>4

\* Between the calls, and at every step of one, the client keeps WebInv.
LEMMA WebInitial == Init => WebInv
<1> SUFFICES ASSUME Init PROVE WebInv
  OBVIOUS
<1>1. call \in Calls
  BY DEF Init, Calls, Ops, Sinks
<1>2. content \in [Sinks -> Seq(Int)]
  BY DEF Init
<1>3. Holds
  BY DEF Init, Holds
<1>4. ListsHold
  BY DEF Init, ListsHold
<1>5. Received
  BY DEF Init, Received
<1> QED BY <1>1, <1>2, <1>3, <1>4, <1>5 DEF WebInv, WebTypes

\* What a callback does to the place of the response and to the record.
LEMMA CallbackIs ==
  ASSUME WebTypes, Callback
  PROVE  \E piece \in Landed(Len(call.body) + 1) :
           /\ piece \in Seq(Int)
           /\ content' = [content EXCEPT ![call.sink] = content[call.sink] \o piece]
           /\ call' = [call EXCEPT !.body = Append(call.body, Len(call.body) + 1),
                                   !.spoilt = call.spoilt \/ piece # <<Len(call.body) + 1>>]
<1> DEFINE chunk == Len(call.body) + 1
<1>1. chunk \in Int
  BY DEF WebTypes, Calls
<1>2. PICK piece \in Landed(chunk) :
           /\ content' = [content EXCEPT ![call.sink] = content[call.sink] \o piece]
           /\ call' = [call EXCEPT !.body = Append(call.body, chunk),
                                   !.spoilt = call.spoilt \/ piece # <<chunk>>]
  BY Zenon DEF Callback
<1> HIDE DEF chunk
<1>3. piece \in {<<chunk>>, <<-chunk>>, <<>>}
  BY <1>2 DEF Landed
<1>4. piece \in Seq(Int)
  <2>1. <<chunk>> \in Seq(Int) /\ <<-chunk>> \in Seq(Int) /\ <<>> \in Seq(Int)
    BY <1>1
  <2> QED BY <1>3, <2>1
<1>5. \E p \in Landed(chunk) :
           /\ p \in Seq(Int)
           /\ content' = [content EXCEPT ![call.sink] = content[call.sink] \o p]
           /\ call' = [call EXCEPT !.body = Append(call.body, chunk),
                                   !.spoilt = call.spoilt \/ p # <<chunk>>]
  BY <1>2, <1>4, Zenon
<1> QED BY <1>5, Zenon DEF chunk

\* A step changes the sinks and the record of the call together.
LEMMA WebTypesStep == WebTypes /\ [Next]_vars => WebTypes'
<1> SUFFICES ASSUME WebTypes, [Next]_vars PROVE WebTypes'
  OBVIOUS
<1> USE DEF WebTypes, Calls
<1>1. ASSUME NEW k \in Keys, RemoveHeader(k) \/ \E v \in Values : AddHeader(k, v) PROVE WebTypes'
  BY <1>1 DEF RemoveHeader, AddHeader
<1>2. CASE ClearResponse
  BY <1>2 DEF ClearResponse, Sinks
<1>3. ASSUME NEW op \in Ops, InitFails(op) PROVE WebTypes'
  BY <1>3 DEF InitFails
<1>4. ASSUME NEW op \in Ops, NEW s \in SinkOf(op), NEW deleted \in BOOLEAN, Begin(op, s, deleted)
      PROVE  WebTypes'
  <2>1. s \in Sinks
    BY DEF SinkOf, Sinks
  <2>2. ContentBefore(op, s, deleted) \in Seq(Int)
    BY <2>1 DEF ContentBefore
  <2>3. content' \in [Sinks -> Seq(Int)]
    BY <1>4, <2>1, <2>2 DEF Begin
  <2>4. call' \in Calls
    BY <1>4, <2>1, <2>2 DEF Begin
  <2> QED BY <2>3, <2>4
<1>5. CASE Callback
  <2> DEFINE chunk == Len(call.body) + 1
             file == content[call.sink]
  <2>1. PICK piece \in Landed(chunk) :
           /\ piece \in Seq(Int)
           /\ content' = [content EXCEPT ![call.sink] = file \o piece]
           /\ call' = [call EXCEPT !.body = Append(call.body, chunk),
                                   !.spoilt = call.spoilt \/ piece # <<chunk>>]
    BY <1>5, CallbackIs, Zenon
  <2>2. chunk \in Int /\ file \in Seq(Int)
    OBVIOUS
  <2>3. Append(call.body, chunk) \in Seq(Int)
    BY <2>2
  <2> HIDE DEF chunk, file
  <2>4. file \o piece \in Seq(Int)
    BY <2>1, <2>2
  <2>5. content' \in [Sinks -> Seq(Int)]
    BY <2>1, <2>4
  <2>6. (call.spoilt \/ piece # <<chunk>>) \in BOOLEAN
    BY Zenon
  <2> DEFINE b == Append(call.body, chunk)
             t == call.spoilt \/ piece # <<chunk>>
  <2> HIDE DEF b, t
  <2>7. call' = [call EXCEPT !.body = b, !.spoilt = t] /\ b \in Seq(Int) /\ t \in BOOLEAN
    BY <2>1, <2>3, <2>6 DEF b, t
  <2>8. call' \in Calls
    BY <2>7
  <2> QED BY <2>5, <2>8
<1>6. ASSUME NEW ok \in BOOLEAN, End(ok) PROVE WebTypes'
  BY <1>6 DEF End
<1>7. CASE EndAgain
  BY <1>7 DEF EndAgain
<1>8. CASE UNCHANGED vars
  BY <1>8 DEF vars
<1> QED BY <1>1, <1>2, <1>3, <1>4, <1>5, <1>6, <1>7, <1>8 DEF Next

\* Every list of cookies comes with a cookie for the string.
LEMMA ListsStep == ListsHold /\ [Next]_vars => ListsHold'
<1> SUFFICES ASSUME ListsHold, [Next]_vars PROVE ListsHold'
  OBVIOUS
<1> USE DEF ListsHold
<1>1. ASSUME NEW ok, CleanUp(ok) PROVE ListsHold'
  BY <1>1, WebClientAssumption DEF CleanUp
<1>2. CASE UNCHANGED <<Cookies, cookieLists>>
  BY <1>2
<1>3. \A k \in Keys : RemoveHeader(k) => UNCHANGED <<Cookies, cookieLists>>
  BY DEF RemoveHeader
<1>4. \A k \in Keys, v \in Values : AddHeader(k, v) => UNCHANGED <<Cookies, cookieLists>>
  BY DEF AddHeader
<1>5. ClearResponse \/ Callback \/ UNCHANGED vars => UNCHANGED <<Cookies, cookieLists>>
  BY Zenon DEF ClearResponse, Callback, vars
<1>6. \A op \in Ops : InitFails(op) => UNCHANGED <<Cookies, cookieLists>>
  BY Zenon DEF InitFails
<1>7. \A op, s, deleted : Begin(op, s, deleted) => UNCHANGED <<Cookies, cookieLists>>
  BY Zenon DEF Begin
<1>8. \A ok \in BOOLEAN : End(ok) => CleanUp(ok)
  BY DEF End
<1>9. EndAgain => CleanUp(call.ok)
  BY DEF EndAgain
<1> HIDE DEF ListsHold
<1> QED BY <1>1, <1>2, <1>3, <1>4, <1>5, <1>6, <1>7, <1>8, <1>9, Zenon DEF Next

\* What the client holds follows the call: Begin finds nothing, and every
\* way a call ends gives back the list, the handle and the form.
LEMMA HoldsStep == WebTypes /\ Holds /\ [Next]_vars => Holds'
<1> SUFFICES ASSUME WebTypes, Holds, [Next]_vars PROVE Holds'
  OBVIOUS
<1> USE DEF Holds
<1>1. ASSUME NEW k \in Keys, RemoveHeader(k) \/ \E v \in Values : AddHeader(k, v) PROVE Holds'
  BY <1>1 DEF RemoveHeader, AddHeader
<1>2. CASE ClearResponse
  BY <1>2 DEF ClearResponse
<1>3. ASSUME NEW op \in Ops, InitFails(op) PROVE Holds'
  BY <1>3 DEF InitFails
<1>4. ASSUME NEW op \in Ops, NEW s \in SinkOf(op), NEW deleted \in BOOLEAN, Begin(op, s, deleted)
      PROVE  Holds'
  <2>1. curl_header' = Entries(Header')
    BY <1>4, EntriesSeq DEF Begin
  <2>2. call'.op = op /\ pc' = "transfer"
    BY <1>4 DEF Begin
  <2>3. formpost' => op \in {"UploadFile", "SubmitForm"}
    BY <1>4 DEF Begin
  <2> QED BY <2>1, <2>2, <2>3
<1>5. CASE Callback
  BY <1>5 DEF Callback, WebTypes, Calls
<1>6. ASSUME NEW ok \in BOOLEAN, End(ok) PROVE Holds'
  BY <1>6 DEF End, CleanUp, FreeHeader, FormFree
<1>7. CASE EndAgain
  BY <1>7 DEF EndAgain, CleanUp, FreeHeader
<1>8. CASE UNCHANGED vars
  BY <1>8 DEF vars
<1> QED BY <1>1, <1>2, <1>3, <1>4, <1>5, <1>6, <1>7, <1>8 DEF Next

\* Every chunk goes to the end of the body, and what lands of it to the end of
\* the file.
LEMMA ReceivedStep == WebTypes /\ Received /\ [Next]_vars => Received'
<1> SUFFICES ASSUME WebTypes, Received, [Next]_vars PROVE Received'
  OBVIOUS
<1>1. ASSUME NEW k \in Keys, RemoveHeader(k) \/ \E v \in Values : AddHeader(k, v) PROVE Received'
  BY <1>1 DEF RemoveHeader, AddHeader, Received
<1>2. CASE ClearResponse
  BY <1>2 DEF ClearResponse, WebTypes, Calls, Received
<1>3. ASSUME NEW op \in Ops, InitFails(op) PROVE Received'
  BY <1>3 DEF InitFails, Received
<1>4. ASSUME NEW op \in Ops, NEW s \in SinkOf(op), NEW deleted \in BOOLEAN, Begin(op, s, deleted)
      PROVE  Received'
  <2> DEFINE before == ContentBefore(op, s, deleted)
  <2>1. s \in Sinks
    BY DEF SinkOf, Sinks
  <2>2. before \in Seq(Int) /\ (op = "DownloadFile" /\ deleted => before = <<>>)
    BY <2>1 DEF ContentBefore, WebTypes
  <2>3. /\ call'.sink = s /\ call'.op = op /\ call'.spoilt = ~deleted
        /\ call'.before = before /\ call'.body = <<>>
    BY <1>4 DEF Begin
  <2>4. content'[s] = before
    BY <1>4, <2>1 DEF Begin, WebTypes
  <2> HIDE DEF before
  <2>5. Holding(before, before, <<>>) /\ before = before \o <<>>
    BY <2>2 DEF Holding
  <2> QED BY <2>2, <2>3, <2>4, <2>5 DEF Received
<1>5. CASE Callback
  <2> SUFFICES ASSUME call'.sink # Response
               PROVE  /\ ~call'.spoilt => content'[call'.sink] = call'.before \o call'.body
                      /\ ~call'.spoilt /\ call'.op = "DownloadFile" => call'.before = <<>>
                      /\ Holding(content'[call'.sink], call'.before, call'.body)
    BY DEF Received, Holding
  <2> DEFINE chunk == Len(call.body) + 1
             file == content[call.sink]
             before == call.before
             body == call.body
  <2>1. PICK piece \in Landed(chunk) :
           /\ content' = [content EXCEPT ![call.sink] = file \o piece]
           /\ call' = [call EXCEPT !.body = Append(body, chunk),
                                   !.spoilt = call.spoilt \/ piece # <<chunk>>]
    BY <1>5, CallbackIs, Zenon
  <2>2. /\ body \in Seq(Int) /\ before \in Seq(Int) /\ call.sink \in Sinks /\ file \in Seq(Int)
        /\ chunk = Len(body) + 1 /\ chunk \in Int /\ call.spoilt \in BOOLEAN
    BY DEF WebTypes, Calls
  <2> HIDE DEF chunk, file, before, body
  <2>3. /\ call'.sink = call.sink /\ call'.op = call.op /\ call'.before = before
        /\ call'.body = Append(body, chunk)
    BY <2>1 DEF WebTypes, Calls, before
  <2>4. ~call'.spoilt => ~call.spoilt /\ piece = <<chunk>>
    <3>1. call'.spoilt = (call.spoilt \/ piece # <<chunk>>)
      BY <2>1 DEF WebTypes, Calls
    <3> QED BY <3>1, Zenon
  <2>5. content'[call.sink] = file \o piece
    BY <2>1, <2>2 DEF WebTypes
  <2>6. /\ ~call.spoilt => file = before \o body
        /\ ~call.spoilt /\ call.op = "DownloadFile" => before = <<>>
        /\ Holding(file, before, body)
    BY <2>3 DEF Received, file, before, body
  <2>7. ~call'.spoilt => content'[call'.sink] = before \o Append(body, chunk)
    <3> SUFFICES ASSUME ~call'.spoilt PROVE content'[call.sink] = before \o Append(body, chunk)
      BY <2>3
    <3>1. before \o Append(body, chunk) = Append(before \o body, chunk)
      BY <2>2, ConcatAppend
    <3>2. file \o <<chunk>> = Append(file, chunk)
      BY <2>2
    <3> QED BY <2>4, <2>5, <2>6, <3>1, <3>2
  <2>8. piece \in {<<chunk>>, <<-chunk>>, <<>>}
    BY <2>1 DEF Landed
  <2>9. Holding(file \o piece, before, Append(body, chunk))
    BY <2>2, <2>6, <2>8, HoldsChunk
  <2> QED BY <2>3, <2>4, <2>5, <2>6, <2>7, <2>9
<1>6. ASSUME NEW ok \in BOOLEAN, End(ok) PROVE Received'
  BY <1>6 DEF End, WebTypes, Calls, Received
<1>7. CASE EndAgain
  BY <1>7 DEF EndAgain, Received
<1>8. CASE UNCHANGED vars
  BY <1>8 DEF vars, Received
<1> QED BY <1>1, <1>2, <1>3, <1>4, <1>5, <1>6, <1>7, <1>8 DEF Next

\* WebInv is an invariant of the composition.
LEMMA WebInvariant == AllSpec => []WebInv
<1>1. AllInit => WebInv
  BY WebInitial DEF AllInit
<1>2. WebInv /\ [AllNext]_allVars => WebInv'
  BY StepOfOne, WebTypesStep, HoldsStep, ListsStep, ReceivedStep DEF WebInv
<1> QED BY <1>1, <1>2, PTL DEF AllSpec

\* A transfer sends exactly the client's current headers, each once, and
\* nothing that an earlier call, failed or not, has left in curl_header.
THEOREM OwnHeaders == AllSpec => []HeadersOfThisCall
<1>1. WebInv => HeadersOfThisCall
  BY DEF WebInv, Holds, HeadersOfThisCall
<1> QED BY <1>1, WebInvariant, PTL

\* Between calls no handle, no header list and no form is held, whichever way
\* the calls before ended, and no more lists of cookies than cookies.
THEOREM AllGivenBack == AllSpec => []OnlyCookiesHeld
<1>1. WebInv => OnlyCookiesHeld
  BY DEF WebInv, Holds, ListsHold, OnlyCookiesHeld
<1> QED BY <1>1, WebInvariant, PTL

\* A file that could be deleted, opened and written has exactly the body of the
\* response, behind what was there for FtpDownLoad; any other file begins as
\* before and has pieces of the body behind that, in their order.
THEOREM WholeBody == AllSpec => []BodyReceived
<1>1. WebInv => BodyReceived
  <2> SUFFICES ASSUME WebTypes, Received, call.sink # Response
               PROVE  /\ ~call.spoilt => content[call.sink] = IF call.op = "DownloadFile" THEN call.body
                                                              ELSE call.before \o call.body
                      /\ Holding(content[call.sink], call.before, call.body)
    BY DEF BodyReceived, WebInv, Holding
  <2>1. call.body \in Seq(Int)
    BY DEF WebTypes, Calls
  <2>2. <<>> \o call.body = call.body
    BY <2>1
  <2> QED BY <2>2 DEF Received
<1> QED BY <1>1, WebInvariant, PTL

(***************************************************************************)
(* The text of a result.  FlattenSeq is a recursive function: what it      *)
(* computes is shown by a function that satisfies its equation and by      *)
(* induction over the number of rows.                                      *)
(***************************************************************************)
\* The punctuation, and the tokens of a text.
LB == "{"
RB == "}"
CM == ","
LS == "["
RS == "]"

Tokens == {LB, RB, CM, LS, RS} \cup (Nat \X (Cells \cup {Empty}))

\* A set of numbers has a least one.
LEMMA Least ==
  ASSUME NEW S, S \subseteq Nat, S # {}
  PROVE  \E x \in S : \A y \in S : x <= y
<1>1. \E x \in S : \A y \in S : ~(<<y, x>> \in OpToRel(<, Nat))
  BY NatLessThanWellFounded, WFMin
<1>2. \A x, y \in Nat : x < y => <<x, y>> \in OpToRel(<, Nat)
  BY DEF OpToRel
<1>3. PICK x \in S : \A y \in S : ~(<<y, x>> \in OpToRel(<, Nat))
  BY <1>1
<1>4. ASSUME NEW y \in S PROVE x <= y
  <2>1. ~(y < x)
    BY <1>2, <1>3, Zenon
  <2> QED BY <2>1
<1> QED BY <1>4

\* A set with 1, and with k if it has k - 1, has all numbers up to n.
LEMMA Upto ==
  ASSUME NEW n \in Nat, NEW S, 1 \in S, \A k \in 2..n : k - 1 \in S => k \in S
  PROVE  1..n \subseteq S
<1> DEFINE X == (1..n) \ S
<1> SUFFICES ASSUME X # {} PROVE FALSE
  OBVIOUS
<1>1. PICK k \in X : \A j \in X : k <= j
  <2>1. X \subseteq Nat
    OBVIOUS
  <2> HIDE DEF X
  <2> QED BY <2>1, Least
<1>2. k \in 2..n /\ k - 1 \in 1..n /\ ~(k <= k - 1)
  BY <1>1
<1>3. k - 1 \in S
  BY <1>1, <1>2
<1> QED BY <1>1, <1>2, <1>3

\* Quotient and remainder are unique.
LEMMA DivModUnique ==
  ASSUME NEW n \in Nat \ {0}, NEW q \in Int, NEW r \in 0..(n - 1), NEW x \in Int, x = n * q + r
  PROVE  x \div n = q /\ x % n = r
<1> DEFINE p == x \div n
           s == x % n
<1>1. p \in Int /\ s \in 0..(n - 1) /\ x = n * p + s
  OBVIOUS
<1> HIDE DEF p, s
<1>2. n * (q - p) = s - r
  BY <1>1
<1>3. ASSUME NEW e \in Int, e >= 1 PROVE n * e >= n
  BY <1>3
<1>4. ~(q - p >= 1)
  <2> SUFFICES ASSUME q - p >= 1 PROVE FALSE
    OBVIOUS
  <2>1. n * (q - p) >= n
    BY <1>1, <1>3
  <2> QED BY <1>1, <1>2, <2>1
<1>5. ~(p - q >= 1)
  <2> SUFFICES ASSUME p - q >= 1 PROVE FALSE
    OBVIOUS
  <2>1. n * (p - q) >= n
    BY <1>1, <1>3
  <2>2. n * (p - q) = r - s
    BY <1>1
  <2> QED BY <1>1, <2>1, <2>2
<1>6. q = p
  BY <1>1, <1>4, <1>5
<1>7. s = r
  BY <1>1, <1>6
<1> QED BY <1>6, <1>7 DEF p, s

\* Two sequences as one.
LEMMA Joined ==
  ASSUME NEW x \in Seq(Tokens), NEW y \in Seq(Tokens)
  PROVE  /\ x \o y \in Seq(Tokens) /\ Len(x) \in Nat /\ Len(y) \in Nat
         /\ Len(x \o y) = Len(x) + Len(y)
         /\ \A i \in 1..Len(x) : (x \o y)[i] = x[i]
         /\ \A i \in 1..Len(y) : (x \o y)[Len(x) + i] = y[i]
<1>1. x \o y \in Seq(Tokens) /\ Len(x) \in Nat /\ Len(y) \in Nat /\ Len(x \o y) = Len(x) + Len(y)
  BY ConcatProperties
<1>2. ASSUME NEW i \in 1..Len(x) PROVE (x \o y)[i] = x[i]
  <2>1. i \in 1..(Len(x) + Len(y)) /\ i <= Len(x)
    BY <1>1
  <2> QED BY <2>1, ConcatProperties
<1>3. ASSUME NEW i \in 1..Len(y) PROVE (x \o y)[Len(x) + i] = y[i]
  <2> DEFINE k == Len(x) + i
  <2>1. k \in 1..(Len(x) + Len(y)) /\ k > Len(x) /\ k - Len(x) = i
    BY <1>1
  <2> HIDE DEF k
  <2>2. (x \o y)[k] = y[k - Len(x)]
    BY <2>1, ConcatProperties
  <2> QED BY <2>1, <2>2 DEF k
<1> QED BY <1>1, <1>2, <1>3

\* The place of a token among rows of w tokens.
LEMMA PlaceOf ==
  ASSUME NEW w \in Nat \ {0}, NEW n \in Nat, NEW x \in Int, x = n * w, NEW p \in 1..x
  PROVE  /\ (p - 1) \div w \in 0..(n - 1) /\ (p - 1) % w \in 0..(w - 1)
         /\ p - 1 = w * ((p - 1) \div w) + ((p - 1) % w)
<1> DEFINE q == (p - 1) \div w
           r == (p - 1) % w
<1>1. q \in Int /\ r \in 0..(w - 1) /\ p - 1 = w * q + r /\ p \in Int /\ p >= 1 /\ p <= n * w
  OBVIOUS
<1> HIDE DEF q, r
<1>2. q >= 0
  <2> SUFFICES ASSUME q <= -1 PROVE FALSE
    BY <1>1
  <2>1. w * q <= -w
    BY <1>1
  <2> QED BY <1>1, <2>1
<1>3. q <= n - 1
  <2> SUFFICES ASSUME q >= n PROVE FALSE
    BY <1>1
  <2>1. w * q >= n * w
    BY <1>1
  <2> QED BY <1>1, <2>1
<1> QED BY <1>1, <1>2, <1>3 DEF q, r

\* The members of ss are sequences of w tokens,
Regular(ss, n, w) == \A i \in 1..n : ss[i] \in Seq(Tokens) /\ Len(ss[i]) = w

\* and these are the first n of them, one after the other.
InARow(ss, w, n) == [p \in 1..(n * w) |-> ss[((p - 1) \div w) + 1][((p - 1) % w) + 1]]

\* That of k of them is that of one fewer and the last.
Grows(ss, w, k) ==
  /\ InARow(ss, w, k) \in Seq(Tokens) /\ Len(InARow(ss, w, k)) = k * w
  /\ k = 1 => InARow(ss, w, k) = ss[k]
  /\ k > 1 => InARow(ss, w, k - 1) \o ss[k] = InARow(ss, w, k)

\* It is for sequences of one length.
LEMMA InARowIs ==
  ASSUME NEW n \in Nat \ {0}, NEW w \in Nat \ {0}, NEW ss, Regular(ss, n, w), NEW k \in 1..n
  PROVE  Grows(ss, w, k)
<1> USE DEF Regular
<1> DEFINE e(p) == ss[((p - 1) \div w) + 1][((p - 1) % w) + 1]
<1>1. ASSUME NEW j \in 1..n
      PROVE  /\ j * w \in Nat /\ InARow(ss, w, j) \in Seq(Tokens) /\ Len(InARow(ss, w, j)) = j * w
             /\ \A p \in 1..(j * w) : InARow(ss, w, j)[p] = e(p)
  <2> DEFINE l == j * w
  <2>0. l \in Nat
    OBVIOUS
  <2>1. ASSUME NEW p \in 1..(j * w) PROVE e(p) \in Tokens
    <3> DEFINE q == (p - 1) \div w
               r == (p - 1) % w
    <3>1. q \in 0..(j - 1) /\ r \in 0..(w - 1)
      <4>1. j \in Nat /\ l \in Int /\ l = j * w /\ p \in 1..l
        BY <2>0
      <4> HIDE DEF l
      <4> QED BY <4>1, PlaceOf
    <3> HIDE DEF q, r
    <3>2. q + 1 \in 1..n /\ r + 1 \in 1..w
      BY <3>1
    <3>3. ss[q + 1] \in Seq(Tokens) /\ Len(ss[q + 1]) = w
      BY <3>2
    <3>4. ss[q + 1][r + 1] \in Tokens
      BY <3>2, <3>3
    <3> QED BY <3>4 DEF q, r
  <2>2. InARow(ss, w, j) = [p \in 1..l |-> e(p)]
    BY DEF InARow
  <2>3. \A p \in 1..l : e(p) \in Tokens
    BY <2>1
  <2> HIDE DEF l, e
  <2> QED BY <2>0, <2>2, <2>3 DEF l
<1>2. ASSUME NEW j \in 1..n, NEW r \in 1..w, NEW p \in Int, p = (j - 1) * w + r
      PROVE  e(p) = ss[j][r]
  <2>1. p - 1 = w * (j - 1) + (r - 1) /\ r - 1 \in 0..(w - 1) /\ j - 1 \in Int /\ p - 1 \in Int
    BY <1>2
  <2>2. (p - 1) \div w = j - 1 /\ (p - 1) % w = r - 1
    <3> DEFINE x == p - 1
               q == j - 1
               y == r - 1
    <3>1. x = w * q + y /\ y \in 0..(w - 1) /\ q \in Int /\ x \in Int
      BY <2>1
    <3> HIDE DEF x, q, y
    <3>2. x \div w = q /\ x % w = y
      BY <3>1, DivModUnique
    <3> QED BY <3>2 DEF x, q, y
  <2>3. (j - 1) + 1 = j /\ (r - 1) + 1 = r
    OBVIOUS
  <2> QED BY <2>2, <2>3
<1> HIDE DEF e
<1>3. ASSUME k = 1 PROVE InARow(ss, w, k) = ss[k]
  <2> DEFINE s == InARow(ss, w, 1)
             t == ss[1]
  <2>0. 1 * w = w /\ 1 \in 1..n
    OBVIOUS
  <2>1. s \in Seq(Tokens) /\ Len(s) = w /\ \A p \in 1..w : s[p] = e(p)
    BY <1>1, <2>0
  <2>2. t \in Seq(Tokens) /\ Len(t) = w
    BY <2>0
  <2>3. ASSUME NEW p \in 1..w PROVE e(p) = t[p]
    <3>1. p \in Int /\ p = (1 - 1) * w + p
      OBVIOUS
    <3> QED BY <1>2, <2>0, <3>1
  <2> HIDE DEF s, t
  <2>4. s = t
    BY <2>1, <2>2, <2>3
  <2> QED BY <1>3, <2>4 DEF s, t
<1>4. ASSUME k > 1 PROVE InARow(ss, w, k - 1) \o ss[k] = InARow(ss, w, k)
  <2> DEFINE a == InARow(ss, w, k - 1)
             b == ss[k]
             s == InARow(ss, w, k)
             l == (k - 1) * w
             m == k * w
  <2>1. k - 1 \in 1..n /\ l \in Nat /\ m \in Nat /\ m = l + w
    BY <1>4
  <2>2. /\ a \in Seq(Tokens) /\ Len(a) = l /\ (\A p \in 1..l : a[p] = e(p))
        /\ s \in Seq(Tokens) /\ Len(s) = m /\ (\A p \in 1..m : s[p] = e(p))
    BY <1>1, <2>1
  <2>3. b \in Seq(Tokens) /\ Len(b) = w
    OBVIOUS
  <2>4. ASSUME NEW r \in 1..w PROVE e(l + r) = b[r]
    BY <1>2, <2>1, SMTT(30)
  <2> HIDE DEF a, b, s, l, m
  <2>5. /\ a \o b \in Seq(Tokens) /\ Len(a \o b) = m
        /\ \A i \in 1..l : (a \o b)[i] = a[i]
        /\ \A i \in 1..w : (a \o b)[l + i] = b[i]
    BY <2>1, <2>2, <2>3, Joined, ZenonT(60)
  <2>6. ASSUME NEW p \in 1..m PROVE (a \o b)[p] = s[p]
    <3>0. p \in Int /\ p >= 1 /\ p <= l + w
      BY <2>1
    <3>1. CASE p <= l
      <4>1. p \in 1..l
        BY <2>1, <3>0, <3>1
      <4>2. (a \o b)[p] = a[p]
        BY <2>5, <4>1
      <4>3. p \in 1..m
        BY <2>1, <4>1
      <4> QED BY <2>2, <4>1, <4>2, <4>3
    <3>2. CASE p > l
      <4> DEFINE r == p - l
      <4>1. r \in 1..w /\ l + r = p
        BY <2>1, <3>0, <3>2
      <4> HIDE DEF r
      <4>2. (a \o b)[p] = b[r]
        BY <2>5, <4>1
      <4> QED BY <2>2, <2>4, <4>1, <4>2
    <3>3. p <= l \/ p > l
      BY <2>1, <3>0
    <3> QED BY <3>1, <3>2, <3>3
  <2>7. a \o b = s
    BY <2>1, <2>2, <2>5, <2>6
  <2> QED BY <2>7 DEF a, b, s
<1>5. InARow(ss, w, k) \in Seq(Tokens) /\ Len(InARow(ss, w, k)) = k * w
  BY <1>1
<1> QED BY <1>3, <1>4, <1>5 DEF Grows

\* FlattenSeq joins sequences of one length as they lie in a row.
LEMMA Flat ==
  ASSUME NEW n \in Nat \ {0}, NEW w \in Nat \ {0}, NEW ss \in [1..n -> Seq(Tokens)],
         Regular(ss, n, w)
  PROVE  M!FlattenSeq(ss) = InARow(ss, w, n)
<1> DEFINE Step(f) == [i \in 1..Len(ss) |-> IF i = 1 THEN ss[i] ELSE f[i - 1] \o ss[i]]
           G == [i \in 1..n |-> InARow(ss, w, i)]
           H == CHOOSE f : f = Step(f)
<1>0. Len(ss) = n /\ n # 0
  OBVIOUS
<1>1. M!FlattenSeq(ss) = H[n]
  BY <1>0 DEF M!FlattenSeq
<1>2. ASSUME NEW k \in 1..n
      PROVE  (k = 1 => G[k] = ss[k]) /\ (k > 1 => G[k - 1] \o ss[k] = G[k])
  <2>1. Grows(ss, w, k)
    BY InARowIs
  <2>2. G[k] = InARow(ss, w, k) /\ (k > 1 => G[k - 1] = InARow(ss, w, k - 1))
    OBVIOUS
  <2> HIDE DEF G
  <2> QED BY <2>1, <2>2 DEF Grows
<1>3. G = Step(G)
  <2> DEFINE K == Step(G)
  <2>1. ASSUME NEW k \in 1..n PROVE G[k] = K[k]
    <3>1. CASE k = 1
      <4>1. K[k] = ss[k]
        BY <1>0, <3>1
      <4> HIDE DEF G, K
      <4> QED BY <1>2, <3>1, <4>1
    <3>2. CASE k # 1
      <4>1. k > 1 /\ K[k] = G[k - 1] \o ss[k]
        BY <1>0, <3>2
      <4> HIDE DEF G, K
      <4> QED BY <1>2, <4>1
    <3> QED BY <3>1, <3>2
  <2>2. G = [k \in 1..n |-> G[k]] /\ K = [k \in 1..n |-> K[k]]
    BY <1>0
  <2>3. G = K
    <3> HIDE DEF G, K
    <3> QED BY <2>1, <2>2
  <2> QED BY <2>3
<1> HIDE DEF G
<1>4. H = Step(H)
  <2> HIDE DEF Step
  <2> QED BY <1>3
<1> HIDE DEF H
<1>5. H[1] = ss[1] /\ \A k \in 2..n : H[k] = H[k - 1] \o ss[k]
  <2> DEFINE K == Step(H)
  <2>1. K[1] = ss[1]
    BY <1>0
  <2>2. ASSUME NEW k \in 2..n PROVE K[k] = H[k - 1] \o ss[k]
    <3>1. k \in 1..Len(ss) /\ k # 1
      BY <1>0
    <3> QED BY <3>1
  <2> HIDE DEF Step
  <2> QED BY <1>4, <2>1, <2>2
<1>6. H[n] = G[n]
  <2> DEFINE E == {k \in 1..n : H[k] = G[k]}
  <2>1. 1 \in E
    BY <1>2, <1>5
  <2>2. ASSUME NEW k \in 2..n, k - 1 \in E PROVE k \in E
    <3>1. k \in 1..n /\ k > 1 /\ H[k - 1] = G[k - 1]
      BY <2>2
    <3>2. H[k] = H[k - 1] \o ss[k] /\ G[k] = G[k - 1] \o ss[k]
      BY <1>2, <1>5, <3>1
    <3>3. H[k] = G[k]
      BY <3>1, <3>2
    <3> QED BY <3>1, <3>3
  <2> HIDE DEF E
  <2>3. 1..n \subseteq E
    BY <2>1, <2>2, Upto
  <2> QED BY <2>3 DEF E
<1>7. G[n] = InARow(ss, w, n)
  BY DEF G
<1> QED BY <1>1, <1>6, <1>7

\* The text x after the bracket h, without its last token.
Opened(h, x) == M!Front(<<h>> \o x)

\* The bracket, and the text from its first token on.
LEMMA OpenedIs ==
  ASSUME NEW x \in Seq(Tokens), NEW l \in Nat \ {0}, Len(x) = l, NEW h \in Tokens
  PROVE  /\ Opened(h, x) \in Seq(Tokens) /\ Len(Opened(h, x)) = l
         /\ Opened(h, x)[1] = h
         /\ \A p \in 2..l : Opened(h, x)[p] = x[p - 1]
<1> DEFINE b == <<h>>
           y == b \o x
           z == SubSeq(y, 1, l)
<1>1. b \in Seq(Tokens) /\ Len(b) = 1 /\ b[1] = h
  OBVIOUS
<1> HIDE DEF b
<1>2. /\ y \in Seq(Tokens) /\ Len(y) = 1 + l
      /\ \A i \in 1..1 : y[i] = b[i]
      /\ \A i \in 1..l : y[1 + i] = x[i]
  <2>1. /\ y \in Seq(Tokens) /\ Len(y) = Len(b) + Len(x)
        /\ \A i \in 1..Len(b) : y[i] = b[i]
        /\ \A i \in 1..Len(x) : y[Len(b) + i] = x[i]
    BY <1>1, Joined
  <2> HIDE DEF y
  <2> QED BY <1>1, <2>1
<1> HIDE DEF y
<1>3. z \in Seq(Tokens) /\ Len(z) = l /\ \A i \in 1..l : z[i] = y[i]
  BY <1>2
<1>4. Opened(h, x) = z
  <2>1. Len(y) - 1 = l
    BY <1>2
  <2> QED BY <2>1 DEF Opened, M!Front, y, b
<1> HIDE DEF z
<1>5. z[1] = h
  BY <1>1, <1>2, <1>3
<1>6. ASSUME NEW p \in 2..l PROVE z[p] = x[p - 1]
  <2>1. p - 1 \in 1..l /\ 1 + (p - 1) = p /\ p \in 1..l
    OBVIOUS
  <2> QED BY <1>2, <1>3, <2>1
<1> QED BY <1>3, <1>4, <1>5, <1>6

\* p is place r of row j.
Lies(p, j, w, r) == p = (j - 1) * w + r

\* Element p of sequences in a row, found by the row j and the place r.
LEMMA InARowAt ==
  ASSUME NEW n \in Nat \ {0}, NEW w \in Nat \ {0}, NEW ss, NEW j \in 1..n, NEW r \in 1..w,
         NEW p \in Int, Lies(p, j, w, r)
  PROVE  InARow(ss, w, n)[p] = ss[j][r]
<1> USE DEF Lies
<1> DEFINE x == p - 1
           q == j - 1
           y == r - 1
           l == n * w
<1>1. x = w * q + y /\ y \in 0..(w - 1) /\ q \in Int /\ x \in Int /\ q + 1 = j /\ y + 1 = r
  OBVIOUS
<1>2. p \in 1..l
  <2>1. q >= 0 /\ n - j >= 0 /\ n - j \in Int
    OBVIOUS
  <2>2. q * w >= 0 /\ (n - j) * w >= 0
    BY <1>1, <2>1
  <2>3. l = (q * w) + w + ((n - j) * w) /\ p = (q * w) + r /\ l \in Int
    OBVIOUS
  <2> HIDE DEF l
  <2> QED BY <1>1, <2>2, <2>3
<1> HIDE DEF x, q, y
<1>3. x \div w = q /\ x % w = y
  BY <1>1, DivModUnique
<1>4. InARow(ss, w, n)[p] = ss[(x \div w) + 1][(x % w) + 1]
  BY <1>2 DEF InARow, x, l
<1> QED BY <1>1, <1>3, <1>4

\* The text of a row.
LEMMA RowIs ==
  ASSUME NEW c \in Nat \ {0}, NEW row \in [1..c -> Cells]
  PROVE  /\ M!RowText(row) \in Seq(Tokens) /\ Len(M!RowText(row)) = 2 * c + 2
         /\ \A p \in 1..(2 * c + 1) : M!RowText(row)[p] = M!Object(row)[p]
         /\ M!RowText(row)[2 * c + 2] = CM
<1> DEFINE pair(i) == <<M!Cell(row, i), CM>>
           pp == [i \in DOMAIN row |-> pair(i)]
           flat == M!FlattenSeq(pp)
           open == Opened(LB, flat)
           last == <<RB, CM>>
           text == open \o last
<1>1. DOMAIN row = 1..c /\ Len(row) = c
  OBVIOUS
<1>t. LB \in Tokens /\ RB \in Tokens /\ CM \in Tokens
  BY DEF Tokens
<1>2. ASSUME NEW i \in 1..c PROVE M!Cell(row, i) \in Tokens
  <2>1. i \in Nat /\ row[i] \in Cells
    OBVIOUS
  <2>2. (IF row[i] = Null THEN Empty ELSE row[i]) \in Cells \cup {Empty}
    BY <2>1
  <2> QED BY <2>1, <2>2 DEF M!Cell, Tokens
<1> HIDE DEF Tokens
<1>3. ASSUME NEW i \in 1..c
      PROVE  pair(i) \in Seq(Tokens) /\ Len(pair(i)) = 2 /\ pair(i)[1] = M!Cell(row, i)
             /\ pair(i)[2] = CM
  <2> DEFINE x == M!Cell(row, i)
             y == CM
  <2>1. x \in Tokens /\ y \in Tokens
    BY <1>2, <1>t
  <2> HIDE DEF x, y
  <2>2. <<x, y>> \in Seq(Tokens) /\ Len(<<x, y>>) = 2 /\ <<x, y>>[1] = x /\ <<x, y>>[2] = y
    BY <2>1
  <2> QED BY <2>2 DEF x, y
<1> HIDE DEF pair
<1>4. pp \in [1..c -> Seq(Tokens)] /\ \A i \in 1..c : pp[i] = pair(i) /\ Len(pp[i]) = 2
  <2>1. pp = [i \in 1..c |-> pair(i)]
    BY <1>1
  <2> HIDE DEF pp
  <2>2. \A i \in 1..c : pair(i) \in Seq(Tokens) /\ Len(pair(i)) = 2
    BY <1>3
  <2> QED BY <2>1, <2>2
<1> HIDE DEF pp
<1>r. Regular(pp, c, 2) /\ c \in 1..c
  BY <1>4 DEF Regular
<1>5. flat = InARow(pp, 2, c)
  BY <1>4, <1>r, Flat
<1>6. flat \in Seq(Tokens) /\ Len(flat) = c * 2
  <2>2. Grows(pp, 2, c)
    BY <1>r, InARowIs
  <2> QED BY <1>5, <2>2 DEF Grows
<1>7. ASSUME NEW i \in 1..c, NEW r \in 1..2 PROVE flat[2 * (i - 1) + r] = pair(i)[r]
  <2> DEFINE p == 2 * (i - 1) + r
  <2>1. p \in Int /\ p = (i - 1) * 2 + r
    OBVIOUS
  <2> HIDE DEF p
  <2>2. InARow(pp, 2, c)[p] = pp[i][r]
    <3> DEFINE w == 2
    <3>1. w \in Nat \ {0} /\ r \in 1..w /\ Lies(p, i, w, r)
      BY <2>1 DEF Lies
    <3> HIDE DEF w
    <3>2. InARow(pp, w, c)[p] = pp[i][r]
      BY <2>1, <3>1, InARowAt
    <3> QED BY <3>2 DEF w
  <2> QED BY <1>4, <1>5, <2>2 DEF p
<1> HIDE DEF flat
<1>8. /\ open \in Seq(Tokens) /\ Len(open) = 2 * c /\ open[1] = LB
      /\ \A p \in 2..(2 * c) : open[p] = flat[p - 1]
  <2> DEFINE l == 2 * c
  <2>1. l \in Nat \ {0} /\ Len(flat) = l
    BY <1>6
  <2> HIDE DEF l
  <2>2. /\ open \in Seq(Tokens) /\ Len(open) = l /\ open[1] = LB
        /\ \A p \in 2..l : open[p] = flat[p - 1]
    BY <1>6, <1>t, <2>1, OpenedIs, ZenonT(60)
  <2> QED BY <2>2 DEF l
<1>9. last \in Seq(Tokens) /\ Len(last) = 2 /\ last[1] = RB /\ last[2] = CM
  BY <1>t
<1>10. M!RowText(row) = text
  BY Zenon DEF M!RowText, text, open, Opened, last, flat, pp, pair, LB, RB, CM
<1> HIDE DEF open, last
<1>11. /\ text \in Seq(Tokens) /\ Len(text) = 2 * c + 2
       /\ \A i \in 1..(2 * c) : text[i] = open[i]
       /\ \A i \in 1..2 : text[2 * c + i] = last[i]
  <2>1. /\ text \in Seq(Tokens) /\ Len(text) = Len(open) + Len(last)
        /\ \A i \in 1..Len(open) : text[i] = open[i]
        /\ \A i \in 1..Len(last) : text[Len(open) + i] = last[i]
    BY <1>8, <1>9, Joined
  <2> QED BY <1>8, <1>9, <2>1
<1> HIDE DEF text
<1>12. text[2 * c + 1] = RB /\ text[2 * c + 2] = CM
  BY <1>9, <1>11
<1>13. ASSUME NEW p \in 1..(2 * c + 1) PROVE text[p] = M!Object(row)[p]
  <2>0. M!Object(row)[p] = IF p = 1 THEN LB ELSE IF p = 2 * c + 1 THEN RB
                           ELSE IF p % 2 = 0 THEN M!Cell(row, p \div 2) ELSE CM
    <3>1. M!Object(row) = [x \in 1..(2 * Len(row) + 1) |->
                             IF x = 1 THEN LB ELSE IF x = 2 * Len(row) + 1 THEN RB
                             ELSE IF x % 2 = 0 THEN M!Cell(row, x \div 2) ELSE CM]
      BY Zenon DEF M!Object, LB, RB, CM
    <3> QED BY <1>1, <3>1
  <2>1. CASE p = 1
    <3>1. 1 \in 1..(2 * c)
      OBVIOUS
    <3> QED BY <1>8, <1>11, <2>0, <2>1, <3>1
  <2>2. CASE p = 2 * c + 1
    BY <1>12, <2>0, <2>2
  <2>3. CASE p # 1 /\ p # 2 * c + 1
    <3>1. p \in 2..(2 * c) /\ p \in 1..(2 * c)
      BY <2>3
    <3>2. text[p] = flat[p - 1]
      BY <1>8, <1>11, <3>1
    <3>3. CASE p % 2 = 0
      <4> DEFINE i == p \div 2
      <4>1. i \in 1..c /\ 2 * (i - 1) + 1 = p - 1
        BY <3>1, <3>3
      <4> HIDE DEF i
      <4>2. flat[p - 1] = pair(i)[1]
        BY <1>7, <4>1
      <4>3. pair(i)[1] = M!Cell(row, i)
        BY <1>3, <4>1
      <4> QED BY <2>0, <2>3, <3>2, <3>3, <4>2, <4>3 DEF i
    <3>4. CASE p % 2 # 0
      <4> DEFINE i == p \div 2
      <4>1. i \in 1..c /\ 2 * (i - 1) + 2 = p - 1
        BY <3>1, <3>4
      <4> HIDE DEF i
      <4>2. flat[p - 1] = pair(i)[2]
        BY <1>7, <4>1
      <4>3. pair(i)[2] = CM
        BY <1>3, <4>1
      <4> QED BY <2>0, <2>3, <3>2, <3>4, <4>2, <4>3
    <3> QED BY <3>3, <3>4
  <2> QED BY <2>1, <2>2, <2>3
<1> QED BY <1>10, <1>11, <1>12, <1>13

\* The text of a result is the array.
LEMMA ArrayIs ==
  ASSUME NEW n \in Nat \ {0}, NEW c \in Nat \ {0}, NEW rows \in [1..n -> [1..c -> Cells]]
  PROVE  M!ArrayText(rows) = M!Json(rows)
<1> DEFINE tt == [r \in DOMAIN rows |-> M!RowText(rows[r])]
           w == 2 * c + 2
           l == w * n
           flat == M!FlattenSeq(tt)
           open == Opened(LS, flat)
           last == <<RS>>
           text == open \o last
           json == M!Json(rows)
<1>0. w \in Nat \ {0} /\ l \in Nat \ {0} /\ l = n * w /\ w >= 4
  <2> DEFINE v == w
  <2>1. v \in Nat \ {0} /\ v >= 4
    OBVIOUS
  <2> HIDE DEF v
  <2>2. v * n \in Nat \ {0} /\ v * n = n * v
    BY <2>1
  <2> QED BY <2>1, <2>2 DEF v
<1>1. DOMAIN rows = 1..n /\ Len(rows) = n /\ Len(rows[1]) = c /\ rows # <<>>
  OBVIOUS
<1>t. LS \in Tokens /\ RS \in Tokens
  BY DEF Tokens
<1>2. ASSUME NEW r \in 1..n
      PROVE  /\ M!RowText(rows[r]) \in Seq(Tokens) /\ Len(M!RowText(rows[r])) = w
             /\ \A p \in 1..(w - 1) : M!RowText(rows[r])[p] = M!Object(rows[r])[p]
             /\ M!RowText(rows[r])[w] = CM
  <2> DEFINE row == rows[r]
  <2>1. row \in [1..c -> Cells]
    OBVIOUS
  <2> HIDE DEF row
  <2>2. /\ M!RowText(row) \in Seq(Tokens) /\ Len(M!RowText(row)) = 2 * c + 2
        /\ \A p \in 1..(2 * c + 1) : M!RowText(row)[p] = M!Object(row)[p]
        /\ M!RowText(row)[2 * c + 2] = CM
    BY <2>1, RowIs
  <2>3. w - 1 = 2 * c + 1
    OBVIOUS
  <2> QED BY <2>2, <2>3 DEF row
<1>3. tt \in [1..n -> Seq(Tokens)] /\ \A r \in 1..n : tt[r] = M!RowText(rows[r])
  BY <1>1, <1>2
<1>4. json = [p \in 1..(l + 1) |->
                IF p = 1 THEN LS ELSE IF p = l + 1 THEN RS
                ELSE IF (p - 1) % w = 0 THEN CM
                ELSE M!Object(rows[((p - 1) \div w) + 1])[(p - 1) % w]]
  <2>1. json = LET columns == Len(rows[1])
                   width == 2 * columns + 2
               IN  IF rows = <<>> THEN <<LS, RS>>
                   ELSE [p \in 1..(width * Len(rows) + 1) |->
                           IF p = 1 THEN LS ELSE IF p = width * Len(rows) + 1 THEN RS
                           ELSE IF (p - 1) % width = 0 THEN CM
                           ELSE M!Object(rows[((p - 1) \div width) + 1])[(p - 1) % width]]
    BY Zenon DEF M!Json, LS, RS, CM
  <2> QED BY <1>1, <2>1, Zenon
<1>5. M!ArrayText(rows) = text
  BY <1>1, Zenon DEF M!ArrayText, M!Rows, Opened, LS, RS
<1> HIDE DEF tt, w, json
<1>r. Regular(tt, n, w) /\ n \in 1..n
  BY <1>2, <1>3 DEF Regular
<1>6. flat = InARow(tt, w, n)
  BY <1>0, <1>3, <1>r, Flat
<1>7. flat \in Seq(Tokens) /\ Len(flat) = l
  <2>1. Grows(tt, w, n)
    BY <1>0, <1>r, InARowIs
  <2> QED BY <1>0, <1>6, <2>1 DEF Grows
<1> HIDE DEF flat, l
<1>8. /\ open \in Seq(Tokens) /\ Len(open) = l /\ open[1] = LS
      /\ \A p \in 2..l : open[p] = flat[p - 1]
  BY <1>0, <1>7, <1>t, OpenedIs, ZenonT(60)
<1>9. last \in Seq(Tokens) /\ Len(last) = 1 /\ last[1] = RS
  BY <1>t
<1> HIDE DEF open, last
<1>10. /\ text \in Seq(Tokens) /\ Len(text) = l + 1
       /\ \A i \in 1..l : text[i] = open[i]
       /\ text[l + 1] = RS
  <2>1. /\ text \in Seq(Tokens) /\ Len(text) = Len(open) + Len(last)
        /\ \A i \in 1..Len(open) : text[i] = open[i]
        /\ \A i \in 1..Len(last) : text[Len(open) + i] = last[i]
    BY <1>8, <1>9, Joined
  <2> HIDE DEF text
  <2>2. text[l + 1] = last[1]
    BY <1>0, <1>8, <1>9, <2>1
  <2> QED BY <1>0, <1>8, <1>9, <2>1, <2>2
<1> HIDE DEF text
<1>11. ASSUME NEW p \in 2..l PROVE text[p] = json[p]
  <2> DEFINE x == p - 1
             q == (x - 1) \div w
             r == (x - 1) % w
  <2>1. x \in 1..l /\ l \in Int /\ x \in Int
    BY <1>0
  <2>2. q \in 0..(n - 1) /\ r \in 0..(w - 1) /\ x - 1 = w * q + r
    <3> HIDE DEF x
    <3> QED BY <1>0, <2>1, PlaceOf
  <2> HIDE DEF q, r
  <2>3. text[p] = flat[x]
    BY <1>0, <1>8, <1>10
  <2>4. json[p] = IF x % w = 0 THEN CM ELSE M!Object(rows[(x \div w) + 1])[x % w]
    <3>1. p \in 1..(l + 1) /\ p # 1 /\ p # l + 1
      BY <1>0
    <3> QED BY <1>4, <3>1
  <2> HIDE DEF x
  <2> DEFINE j == q + 1
             i == r + 1
  <2>5. j \in 1..n /\ i \in 1..w /\ q \in Int /\ r \in Int
    BY <1>0, <2>2
  <2>6. Lies(x, j, w, i)
    <3> DEFINE y == q * w
    <3>1. y \in Int /\ x - 1 = y + r
      BY <1>0, <2>2, <2>5
    <3>2. j - 1 = q
      BY <2>5
    <3> HIDE DEF y
    <3>3. x = y + i
      BY <2>1, <2>5, <3>1
    <3> HIDE DEF j, i
    <3> QED BY <3>2, <3>3 DEF Lies, y
  <2> HIDE DEF j, i
  <2>7. flat[x] = tt[j][i]
    BY <1>0, <1>6, <2>1, <2>5, <2>6, InARowAt
  <2>8. tt[j] = M!RowText(rows[j])
    BY <1>3, <2>5
  <2>9. CASE r < w - 1
    <3>1. x = w * q + i /\ i \in 0..(w - 1) /\ i # 0 /\ i \in 1..(w - 1)
      BY <1>0, <2>1, <2>2, <2>5, <2>9 DEF i
    <3>2. x \div w = q /\ x % w = i
      BY <1>0, <2>1, <2>5, <3>1, DivModUnique, ZenonT(60)
    <3>3. tt[j][i] = M!Object(rows[j])[i]
      BY <1>2, <2>5, <2>8, <3>1
    <3>4. json[p] = M!Object(rows[j])[i]
      <4>1. x % w # 0
        BY <3>1, <3>2
      <4>2. json[p] = M!Object(rows[q + 1])[i]
        BY <2>4, <3>2, <4>1
      <4> QED BY <4>2 DEF j
    <3> QED BY <2>3, <2>7, <3>3, <3>4
  <2>10. CASE r = w - 1
    <3>1. x = w * j + 0 /\ 0 \in 0..(w - 1) /\ j \in Int
      <4>1. w * (q + 1) = w * q + w
        BY <1>0, <2>5
      <4> QED BY <1>0, <2>1, <2>2, <2>5, <2>10, <4>1 DEF j
    <3>2. x % w = 0
      BY <1>0, <2>1, <3>1, DivModUnique, ZenonT(60)
    <3>3. i = w
      BY <1>0, <2>10 DEF i
    <3>4. tt[j][i] = CM
      BY <1>2, <2>5, <2>8, <3>3
    <3> QED BY <2>3, <2>4, <2>7, <3>2, <3>4
  <2>11. r < w - 1 \/ r = w - 1
    BY <1>0, <2>2
  <2> QED BY <2>9, <2>10, <2>11
<1>12. text[1] = json[1] /\ text[l + 1] = json[l + 1]
  <2>1. 1 \in 1..(l + 1) /\ l + 1 \in 1..(l + 1) /\ 1 \in 1..l /\ l + 1 # 1
    BY <1>0
  <2> QED BY <1>4, <1>8, <1>10, <2>1
<1>13. ASSUME NEW p \in 1..(l + 1) PROVE text[p] = json[p]
  <2>1. p = 1 \/ p = l + 1 \/ p \in 2..l
    BY <1>0
  <2> QED BY <1>11, <1>12, <2>1
<1>14. text = [p \in 1..(l + 1) |-> text[p]] /\ json = [p \in 1..(l + 1) |-> json[p]]
  <2>1. text = [p \in 1..(l + 1) |-> text[p]]
    BY <1>0, <1>10
  <2>2. json = [p \in 1..(l + 1) |-> json[p]]
    BY <1>4
  <2> QED BY <2>1, <2>2
<1>15. text = json
  BY <1>13, <1>14
<1> QED BY <1>5, <1>15 DEF json

\* OrcaleClient has the same text.
LEMMA SameText ==
  ASSUME NEW rows
  PROVE  O!ArrayText(rows) = M!ArrayText(rows) /\ O!Json(rows) = M!Json(rows)
<1>1. \A s : O!FlattenSeq(s) = M!FlattenSeq(s)
  BY Zenon DEF O!FlattenSeq, M!FlattenSeq
<1>2. \A s : O!Front(s) = M!Front(s)
  BY Zenon DEF O!Front, M!Front
<1>3. \A row, i : O!Cell(row, i) = M!Cell(row, i)
  BY Zenon DEF O!Cell, M!Cell
<1>4. \A row : O!RowText(row) = M!RowText(row)
  BY <1>1, <1>2, <1>3, Zenon DEF O!RowText, M!RowText
<1>5. O!Rows(rows) = M!Rows(rows)
  BY <1>1, <1>4, Zenon DEF O!Rows, M!Rows
<1>6. O!ArrayText(rows) = M!ArrayText(rows)
  BY <1>2, <1>5, Zenon DEF O!ArrayText, M!ArrayText
<1>7. \A row : O!Object(row) = M!Object(row)
  BY <1>3, Zenon DEF O!Object, M!Object
<1>8. O!Json(rows) = M!Json(rows)
  BY <1>7, Zenon DEF O!Json, M!Json
<1> QED BY <1>6, <1>8

\* The array of no rows.
LEMMA NoRows == M!ArrayText(<<>>) = M!Json(<<>>)
BY Zenon DEF M!ArrayText, M!Json

\* The array of every result that a query may have.
LEMMA ResultText ==
  ASSUME NEW rows \in M!Results
  PROVE  M!ArrayText(rows) = M!Json(rows)
<1>1. PICK n \in 0..MaxRows, c \in 1..Columns : rows \in [1..n -> [1..c -> Cells]]
  BY DEF M!Results
<1>2. n \in Nat /\ c \in Nat \ {0}
  OBVIOUS
<1>3. CASE n = 0
  <2>1. rows = <<>>
    BY <1>1, <1>3
  <2> QED BY <2>1, NoRows
<1>4. CASE n # 0
  BY <1>1, <1>2, <1>4, ArrayIs
<1> QED BY <1>3, <1>4

\* The text is that of the last query.
LEMMA MySqlText == M!ResultIsRows /\ [M!Next]_(M!vars) => M!ResultIsRows'
<1> SUFFICES ASSUME M!ResultIsRows, [M!Next]_(M!vars) PROVE M!ResultIsRows'
  OBVIOUS
<1> USE DEF M!ResultIsRows
<1>1. ASSUME ret'.call # "ExecuteQuery" PROVE M!ResultIsRows'
  BY <1>1
<1>2. ASSUME UNCHANGED <<ret, resultx>> PROVE M!ResultIsRows'
  BY <1>2
<1>3. \A ok : M!OpenConn(ok) => ret'.call # "ExecuteQuery"
  BY DEF M!OpenConn, M!Void
<1>4. M!CloseConn => ret'.call # "ExecuteQuery"
  BY DEF M!CloseConn, M!Void
<1>5. M!Destroy \/ UNCHANGED M!vars => UNCHANGED <<ret, resultx>>
  BY DEF M!Destroy, M!vars
<1>6. \A s : s # "ExecuteQuery" /\ M!ConnectFails(s) => ret'.call # "ExecuteQuery"
  BY DEF M!ConnectFails, M!Void
<1>7. M!QueryFails => ret'.call # "ExecuteQuery"
  <2>1. M!QueryFails => ret' = [M!Void EXCEPT !.call = "failed"]
    BY Zenon DEF M!QueryFails
  <2> QED BY <2>1 DEF M!Void
<1>8. ASSUME NEW rows \in M!Results, M!ExecuteQuery(rows) PROVE M!ResultIsRows'
  <2>1. /\ resultx' = M!ArrayText(rows)
        /\ ret' = [M!Void EXCEPT !.call = "ExecuteQuery", !.rows = rows]
    BY <1>8 DEF M!ExecuteQuery
  <2>2. ret'.rows = rows
    BY <2>1 DEF M!Void
  <2> QED BY <2>1, <2>2, ResultText
<1>9. \A changed, ok : M!ExecuteNoQuery(changed, ok) => ret'.call # "ExecuteQuery"
  BY DEF M!ExecuteNoQuery, M!Void
<1>10. \A s \in {"ExecuteQuery failed", "ExecuteNoQuery"} : s # "ExecuteQuery"
  BY Zenon
<1> HIDE DEF M!ResultIsRows
<1> QED BY <1>1, <1>2, <1>3, <1>4, <1>5, <1>6, <1>7, <1>8, <1>9, <1>10, Zenon DEF M!Next

\* A query that throws returns false.
LEMMA OrcaleText == O!ResultIsRows /\ [O!Next]_(O!vars) => O!ResultIsRows'
<1> SUFFICES ASSUME O!ResultIsRows, [O!Next]_(O!vars) PROVE O!ResultIsRows'
  OBVIOUS
<1>1. ASSUME envRet'.call # "ExecuteQuery" \/ ~envRet'.ok PROVE O!ResultIsRows'
  BY <1>1, Zenon DEF O!ResultIsRows
<1>2. CASE UNCHANGED O!vars
  BY <1>2, Zenon DEF O!ResultIsRows, O!vars
<1>3. ASSUME NEW s, NEW throws, O!ConnectFails(s, throws) \/ O!EnvironmentFails(s, throws) PROVE ~envRet'.ok
  <2>1. envRet' = [O!Void EXCEPT !.call = s]
    BY <1>3, Zenon DEF O!ConnectFails, O!EnvironmentFails
  <2> QED BY <2>1 DEF O!Void
<1>4. O!OpenConn => envRet'.call # "ExecuteQuery"
  BY DEF O!OpenConn, O!Void
<1>5. ASSUME NEW throws, O!CloseConn(throws) PROVE envRet'.call # "ExecuteQuery"
  BY <1>5 DEF O!CloseConn, O!Void
<1>6. ASSUME NEW ok, NEW throws, O!ExecuteNoQuery(ok, throws) PROVE envRet'.call # "ExecuteQuery"
  <2>1. envRet' = [O!Void EXCEPT !.call = "ExecuteNoQuery"]
        \/ envRet' = [call |-> "ExecuteNoQuery", ok |-> ok, rows |-> <<>>]
    BY <1>6, Zenon DEF O!ExecuteNoQuery, O!Statement
  <2> QED BY <2>1 DEF O!Void
<1>7. ASSUME NEW rows \in O!Results, NEW throws, O!ExecuteQuery(rows, throws) PROVE O!ResultIsRows'
  <2>1. CASE throws
    <3>1. envRet' = [O!Void EXCEPT !.call = "ExecuteQuery"]
      BY <1>7, <2>1, Zenon DEF O!ExecuteQuery, O!Statement
    <3>2. ~envRet'.ok
      BY <3>1 DEF O!Void
    <3> QED BY <1>1, <3>2
  <2>2. CASE ~throws
    <3>1. /\ sqlResult' = O!ArrayText(rows)
          /\ envRet' = [call |-> "ExecuteQuery", ok |-> TRUE, rows |-> rows]
      BY <1>7, <2>2, Zenon DEF O!ExecuteQuery, O!Statement
    <3>2. envRet'.rows = rows
      BY <3>1
    <3>3. rows \in M!Results
      BY SMTT(30) DEF O!Results, M!Results
    <3>4. O!ArrayText(rows) = O!Json(rows)
      BY <3>3, ResultText, SameText
    <3> QED BY <3>1, <3>2, <3>4, Zenon DEF O!ResultIsRows
  <2> QED BY <2>1, <2>2
<1>8. ASSUME NEW rows, NEW executed, NEW throws, O!QueryThrows(rows, executed, throws) PROVE ~envRet'.ok
  <2>1. envRet' = [O!Void EXCEPT !.call = "ExecuteQuery"]
        \/ envRet' = [call |-> "ExecuteQuery", ok |-> FALSE, rows |-> <<>>]
    BY <1>8, Zenon DEF O!QueryThrows, O!Statement
  <2> QED BY <2>1 DEF O!Void
<1> QED BY <1>1, <1>2, <1>3, <1>4, <1>5, <1>6, <1>7, <1>8, Zenon DEF O!Next

\* For every number of rows and columns, none included, and whatever cells
\* are NULL, the text that is built cell by cell and row by row, with the last
\* comma erased each time, is the JSON array of the rows.
THEOREM ResultsAreRows == AllSpec => []ResultIsRows
<1>1. AllInit => ResultIsRows
  <2> SUFFICES ASSUME M!Init, O!Init PROVE ResultIsRows
    BY DEF AllInit
  <2>1. ret.call # "ExecuteQuery"
    BY DEF M!Init, M!Void
  <2>2. envRet.call # "ExecuteQuery"
    BY DEF O!Init, O!Void
  <2> QED BY <2>1, <2>2, Zenon DEF ResultIsRows, M!ResultIsRows, O!ResultIsRows
<1>2. ResultIsRows /\ [AllNext]_allVars => ResultIsRows'
  BY StepOfOne, MySqlText, OrcaleText DEF ResultIsRows
<1> QED BY <1>1, <1>2, PTL DEF AllSpec
=============================================================================
