---------------------------- MODULE OrcaleClient ----------------------------
(***************************************************************************)
(* include/OrcaleClient.hpp: an OCCI environment and a connection, held in *)
(* two pointers, opened and closed around every statement.  OCCI is        *)
(* external: creating an environment or a connection, executing, fetching  *)
(* a row, and giving each of these back may throw.  What giving back       *)
(* throws has no handler and leaves the call.  A pointer is "null", "live" *)
(* or "dangling", as is a connection of an environment that is lost; using *)
(* one that is not live has no defined outcome.                            *)
(***************************************************************************)
EXTENDS JsonRows

CONSTANTS
  Cells,     \* the values of cells, Null included
  Columns,   \* bound on the columns of a result
  MaxRows,   \* bound on its rows
  MaxLost    \* bound on the environments that can be lost

VARIABLES
  outEnv, outConn,  \* the two pointers
  envs,             \* environments that exist
  lost,             \* environments that no pointer refers to any more
  held,             \* history: OpenConn succeeded outside a statement
  threw,            \* history: a release threw, and nothing was opened or closed since
  failed,           \* history: the last opening failed after its environment
  reopened,         \* history: something was opened while held or after a throw
  sqlResult,        \* the caller's result string
  ret,              \* what the last call returned, and the rows of its result
  undefined         \* a pointer that was not live has been used

vars == <<outEnv, outConn, envs, lost, held, threw, failed, reopened, sqlResult, ret, undefined>>

Void == [call |-> "none", ok |-> FALSE, rows |-> <<>>]

Init ==
  /\ outEnv = "null" /\ outConn = "null"
  /\ envs = 0 /\ lost = 0
  /\ held = FALSE /\ threw = FALSE /\ failed = FALSE /\ reopened = FALSE
  /\ sqlResult = <<>>
  /\ ret = Void
  /\ undefined = FALSE

\* createEnvironment overwrites outEnv.
Overwrite ==
  /\ lost' = IF outEnv = "live" THEN lost + 1 ELSE lost
  /\ lost' <= MaxLost
  /\ reopened' = (reopened \/ held \/ threw)

\* Environment::terminateEnvironment(outEnv) throws: the environment may be
\* there still or not.
NotTerminated(count) ==
  \/ outEnv' = "live" /\ envs' = count
  \/ outEnv' = "dangling" /\ envs' = count - 1

\* createConnection threw: the handler terminates the new environment, and
\* outEnv keeps its address.
EnvAfterFailedConnect == envs' = envs /\ outEnv' = "dangling"

\* OpenConn() whose createConnection threw; the handler may throw as well.
ConnectFails(call, throws) ==
  /\ ~undefined
  /\ Overwrite
  /\ IF throws THEN NotTerminated(envs + 1) ELSE EnvAfterFailedConnect
  /\ held' = FALSE /\ threw' = throws /\ failed' = TRUE
  /\ outConn' = IF outConn = "null" THEN "null" ELSE "dangling"
  /\ ret' = [Void EXCEPT !.call = call]
  /\ UNCHANGED <<sqlResult, undefined>>

\* OpenConn() whose createEnvironment threw: outEnv is still the old pointer,
\* which the handler terminates, live or not, if it is not null.
EnvironmentFails(call, throws) ==
  /\ ~undefined
  /\ throws => outEnv = "live"
  /\ undefined' = (outEnv = "dangling")
  /\ IF throws THEN NotTerminated(envs)
     ELSE /\ envs' = IF outEnv = "live" THEN envs - 1 ELSE envs
          /\ outEnv' = IF outEnv = "null" THEN "null" ELSE "dangling"
  /\ outConn' \in IF outConn # "live" THEN {outConn}
                 ELSE IF throws THEN {"live", "dangling"} ELSE {"dangling"}
  /\ held' = FALSE
  /\ threw' = (throws \/ threw)
  /\ failed' = (failed \/ held)
  /\ ret' = [Void EXCEPT !.call = call]
  /\ UNCHANGED <<lost, reopened, sqlResult>>

OpenConn ==
  /\ ~undefined
  /\ Overwrite
  /\ envs' = envs + 1
  /\ outEnv' = "live" /\ outConn' = "live"
  /\ held' = TRUE /\ threw' = FALSE /\ failed' = FALSE
  /\ ret' = [Void EXCEPT !.call = "OpenConn", !.ok = TRUE]
  /\ UNCHANGED <<sqlResult, undefined>>

\* The pointers after CloseConn().
Closed == outEnv' = "null" /\ outConn' = "null"

\* CloseConn(), with count environments: both are given back, or
\* terminateConnection throws, and the pointers stay, or
\* terminateEnvironment does, and outConn is null already.
Close(count, throws) ==
  \/ ~throws /\ Closed /\ envs' = count - 1
  \/ throws /\ outConn' \in {"live", "dangling"} /\ outEnv' = "live" /\ envs' = count
  \/ throws /\ outConn' = "null" /\ NotTerminated(count)

CloseConn(throws) ==
  /\ ~undefined
  /\ undefined' = (outEnv # "live" \/ outConn # "live")
  /\ IF undefined' THEN Closed /\ envs' = IF outEnv = "live" THEN envs - 1 ELSE envs
                   ELSE Close(envs, throws)
  /\ held' = FALSE /\ threw' = throws
  /\ ret' = [Void EXCEPT !.call = "CloseConn"]
  /\ UNCHANGED <<lost, failed, reopened, sqlResult>>

\* closeResultSet or terminateStatement throws: nothing is closed.
NothingClosed(count) == outEnv' = "live" /\ outConn' = "live" /\ envs' = count

\* A statement after a successful OpenConn, and its release.  A call whose
\* release throws returns nothing.
Statement(call, ok, rows, throws) ==
  /\ ~undefined
  /\ Overwrite
  /\ Close(envs + 1, throws) \/ (throws /\ NothingClosed(envs + 1))
  /\ held' = FALSE /\ threw' = throws /\ failed' = FALSE
  /\ ret' = IF throws THEN [Void EXCEPT !.call = call]
                      ELSE [call |-> call, ok |-> ok, rows |-> rows]
  /\ UNCHANGED undefined

\* Whether it throws or not, affRow is forgotten and 0 returned.
ExecuteNoQuery(ok, throws) ==
  /\ Statement("ExecuteNoQuery", ok, <<>>, throws)
  /\ UNCHANGED sqlResult

ExecuteQuery(rows, throws) ==
  /\ Statement("ExecuteQuery", TRUE, rows, throws)
  /\ sqlResult' = ArrayText(rows)

\* executeQuery throws, or the fetch of the row after rows does: the caller
\* gets FALSE and the text as far as it was built.
QueryThrows(rows, executed, throws) ==
  /\ Statement("ExecuteQuery", FALSE, <<>>, throws)
  /\ sqlResult' = IF executed THEN Rows(rows) ELSE sqlResult

Results == UNION {[1..n -> [1..c -> Cells]] : n \in 0..MaxRows, c \in 1..Columns}

Calls == {"OpenConn", "ExecuteQuery", "ExecuteNoQuery"}

Next ==
  \E throws \in BOOLEAN :
    \/ \E call \in Calls : ConnectFails(call, throws) \/ EnvironmentFails(call, throws)
    \/ ~throws /\ OpenConn
    \/ CloseConn(throws)
    \/ \E ok \in BOOLEAN : ExecuteNoQuery(ok, throws)
    \/ \E rows \in Results :
         \/ ExecuteQuery(rows, throws)
         \/ \E executed \in BOOLEAN : QueryThrows(rows, executed, throws)

Spec == Init /\ [][Next]_vars

(***************************************************************************)
(* Properties.                                                             *)
(***************************************************************************)

\* Every environment is terminated by the call that created it, whichever of
\* the calls before the release throws.  One stays only where the user holds
\* it, or where giving something back threw; and such a one is lost only when
\* the next opening, by OpenConn or by a statement, puts another in its place.
EnvironmentsReleased ==
  /\ envs = lost + (IF outEnv = "live" THEN 1 ELSE 0)
  /\ outEnv = "live" => held \/ threw \/ undefined
  /\ lost > 0 => reopened

\* outEnv dangles after an OpenConn that could not connect, and after a
\* terminateEnvironment that threw.  The pointer is used again only by the
\* next opening, if that cannot even create an environment, or by a CloseConn
\* without a connection: a sequence of statements, whichever of them fail to
\* connect, never reaches it.
DanglingOnlyAfterFailure ==
  /\ outEnv = "dangling" => failed \/ threw
  /\ undefined => failed \/ threw \/ ret.call = "CloseConn"

\* ExecuteQuery that returns true hands out the JSON array of exactly the
\* rows of the result.
ResultIsRows == ret.call = "ExecuteQuery" /\ ret.ok => sqlResult = Json(ret.rows)
=============================================================================
