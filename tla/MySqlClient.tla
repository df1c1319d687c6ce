---------------------------- MODULE MySqlClient ----------------------------
(***************************************************************************)
(* include/MySqlClient.hpp: a client whose MYSQL structure is a member.    *)
(* Every query opens a connection of its own and closes it; OpenConn and   *)
(* CloseConn are public too.  libmysqlclient is external: connecting and   *)
(* querying may fail, and a result is a sequence of rows.                  *)
(***************************************************************************)
EXTENDS JsonRows

CONSTANTS
  Cells,     \* the values of cells, Null included
  Columns,   \* bound on the columns of a result
  MaxRows,   \* bound on its rows
  MaxLost,   \* bound on the connections that can be lost
  SIZE_MAX   \* (size_t)-1, what mysql_affected_rows gives on error

VARIABLES
  mysql,    \* the structure: "raw" memory, "ready", "open", "closed",
            \* "destroyed", or "undefined" after a close of raw memory
  conns,    \* connections that the server holds open for this client
  lost,     \* connections that no structure refers to any more
  held,     \* history: the user opened a connection and has not closed it
  reopened, \* history: a connection was opened while the user held one
  resultx,  \* the caller's result string
  ret       \* what the last call returned, and the rows of its result

vars == <<mysql, conns, lost, held, reopened, resultx, ret>>

Void == [call |-> "none", value |-> 0, rows |-> <<>>]

\* The object exists and its behaviour is defined.
Alive == mysql \notin {"destroyed", "undefined"}

Init ==
  /\ mysql = "raw"
  /\ conns = 0
  /\ lost = 0
  /\ held = FALSE
  /\ reopened = FALSE
  /\ resultx = <<>>
  /\ ret = Void

\* The connections left when mysql_init overwrites the structure.
LostByInit == IF mysql = "open" THEN lost + 1 ELSE lost

\* OpenConn(): mysql_init overwrites the structure, then connect.
OpenConn(ok) ==
  /\ Alive
  /\ LostByInit <= MaxLost
  /\ lost' = LostByInit
  /\ mysql' = IF ok THEN "open" ELSE "ready"
  /\ conns' = IF ok THEN conns + 1 ELSE conns
  /\ held' = ok
  /\ reopened' = (reopened \/ held)
  /\ ret' = [Void EXCEPT !.call = "OpenConn"]
  /\ UNCHANGED resultx

\* mysql_close(&mysql); on memory that mysql_init never saw, anything happens.
Close(after) ==
  /\ conns' = IF mysql = "open" THEN conns - 1 ELSE conns
  /\ mysql' \in IF mysql = "raw" THEN {after, "undefined"} ELSE {after}

CloseConn ==
  /\ Alive
  /\ Close("closed")
  /\ held' = FALSE
  /\ ret' = [Void EXCEPT !.call = "CloseConn"]
  /\ UNCHANGED <<lost, reopened, resultx>>

\* ~MySqlClient()
Destroy ==
  /\ Alive
  /\ Close("destroyed")
  /\ held' = FALSE
  /\ UNCHANGED <<lost, reopened, resultx, ret>>

\* Mutant: a failed query returns without closing its connection.
AfterFailedQueryOpen == mysql' = "open" /\ conns' = conns + 1

\* A query that failed has freed its (null) result and closed its connection.
AfterFailedQuery == mysql' = "closed" /\ conns' = conns

\* The query connects first; if that fails nothing else is done.
ConnectFails(call) ==
  /\ Alive
  /\ LostByInit <= MaxLost
  /\ lost' = LostByInit
  /\ mysql' = "ready"
  /\ reopened' = (reopened \/ held)
  /\ held' = FALSE
  /\ ret' = [Void EXCEPT !.call = call]
  /\ UNCHANGED <<conns, resultx>>

\* The query, or the connection under it, fails: mysql_store_result is NULL.
QueryFails ==
  /\ Alive
  /\ LostByInit <= MaxLost
  /\ lost' = LostByInit
  /\ AfterFailedQuery
  /\ reopened' = (reopened \/ held)
  /\ held' = FALSE
  /\ resultx' = <<"[", "]">>
  /\ ret' = [Void EXCEPT !.call = "failed"]

ExecuteQuery(rows) ==
  /\ Alive
  /\ LostByInit <= MaxLost
  /\ lost' = LostByInit
  /\ mysql' = "closed"
  /\ reopened' = (reopened \/ held)
  /\ held' = FALSE
  /\ resultx' = ArrayText(rows)
  /\ ret' = [Void EXCEPT !.call = "ExecuteQuery", !.rows = rows]
  /\ UNCHANGED conns

\* mysql_affected_rows, read before CloseConn.
Affected(changed, ok) == IF ok THEN changed ELSE SIZE_MAX

ExecuteNoQuery(changed, ok) ==
  /\ Alive
  /\ LostByInit <= MaxLost
  /\ lost' = LostByInit
  /\ mysql' = "closed"
  /\ reopened' = (reopened \/ held)
  /\ held' = FALSE
  /\ ret' = [Void EXCEPT !.call = "ExecuteNoQuery", !.value = Affected(changed, ok)]
  /\ UNCHANGED <<conns, resultx>>

Results == UNION {[1..n -> [1..c -> Cells]] : n \in 0..MaxRows, c \in 1..Columns}

Next ==
  \/ \E ok \in BOOLEAN : OpenConn(ok)
  \/ CloseConn \/ Destroy
  \/ \E call \in {"ExecuteQuery failed", "ExecuteNoQuery"} : ConnectFails(call)
  \/ QueryFails
  \/ \E rows \in Results : ExecuteQuery(rows)
  \/ \E changed \in 0..MaxRows, ok \in BOOLEAN : ExecuteNoQuery(changed, ok)

Spec == Init /\ [][Next]_vars

(***************************************************************************)
(* Properties.                                                             *)
(***************************************************************************)

\* Every connection is closed by the call that opened it, failed queries and
\* the destructor included; one is lost only when the user opens a second
\* one, with OpenConn or a query, on top of a connection that he holds.
ConnectionsReleased ==
  /\ conns = lost + (IF mysql = "open" THEN 1 ELSE 0)
  /\ mysql = "open" => held
  /\ lost > 0 => reopened

\* A successful ExecuteQuery hands out the JSON array of exactly the rows of
\* the result, also for none and for one row or column.
ResultIsRows == ret.call = "ExecuteQuery" => resultx = Json(ret.rows)
=============================================================================
