----------------------------- MODULE MCClients -----------------------------
(***************************************************************************)
(* WebClient, CurlGlobal, MySqlClient and OrcaleClient side by side.  They *)
(* share no state: a behaviour runs one of them and leaves the others as   *)
(* they begin.                                                             *)
(***************************************************************************)
EXTENDS WebClient

CONSTANTS Threads, Null, Empty, Cells, Columns, MaxRows, MaxLost, SIZE_MAX

VARIABLES
  g_curl_bInit, inits, ready, curlPc,
  mysql, conns, lost, held, reopened, resultx, ret,
  outEnv, outConn, envs, envsLost, envHeld, threw, failed, envReopened, sqlResult,
  envRet, undefined,
  active   \* the component that runs

C == INSTANCE CurlGlobal WITH pc <- curlPc
M == INSTANCE MySqlClient
O == INSTANCE OrcaleClient WITH lost <- envsLost, held <- envHeld, reopened <- envReopened, ret <- envRet

curlVars == <<g_curl_bInit, inits, ready, curlPc>>
mysqlVars == <<mysql, conns, lost, held, reopened, resultx, ret>>
orcaleVars == <<outEnv, outConn, envs, envsLost, envHeld, threw, failed, envReopened,
                sqlResult, envRet, undefined>>

allVars == <<vars, curlVars, mysqlVars, orcaleVars, active>>

AllInit ==
  /\ active \in {"web", "curl", "mysql", "orcale"}
  /\ Init /\ C!Init /\ M!Init /\ O!Init

WebNext    == active = "web" /\ Next /\ UNCHANGED <<curlVars, mysqlVars, orcaleVars>>
CurlNext   == active = "curl" /\ C!Next /\ UNCHANGED <<vars, mysqlVars, orcaleVars>>
MySqlNext  == active = "mysql" /\ M!Next /\ UNCHANGED <<vars, curlVars, orcaleVars>>
OrcaleNext == active = "orcale" /\ O!Next /\ UNCHANGED <<vars, curlVars, mysqlVars>>

AllNext == active' = active /\ (WebNext \/ CurlNext \/ MySqlNext \/ OrcaleNext)

AllSpec == AllInit /\ [][AllNext]_allVars

(***************************************************************************)
(* The properties of the components.                                       *)
(***************************************************************************)

\* CurlGlobal: no thread uses libcurl before an initialisation has returned.
InitBeforeUse == C!InitBeforeUse

\* MySqlClient and OrcaleClient: every connection and every environment is
\* ended by the call that made it, unless ending it throws; a pointer that is
\* left dangling is used again only by an opening that cannot create an
\* environment or by a CloseConn without a connection.
ConnectionsReleased ==
  M!ConnectionsReleased /\ O!EnvironmentsReleased /\ O!DanglingOnlyAfterFailure

\* Both database clients hand out the JSON array of exactly the rows of the
\* result.
ResultIsRows == M!ResultIsRows /\ O!ResultIsRows
=============================================================================
