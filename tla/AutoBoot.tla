------------------------------ MODULE AutoBoot ------------------------------
(***************************************************************************)
(* include/WinTool.hpp: GetAutoBootStatus and SetAutoBoot, which keep the  *)
(* programs to be started in the values of the Run key of the registry,    *)
(* each under the name of its file without directory and extension.  Other *)
(* programs use the key between any two calls of the system, and opening   *)
(* it may be refused at one moment and allowed at another.                 *)
(***************************************************************************)
EXTENDS Integers

CONSTANTS
  Callers,   \* processes that call the functions
  Places,    \* directories, with the extension
  Names,     \* names without directory and extension
  NoText,    \* no value, and the buffer strDir before anything is read
  MaxCalls   \* bound on the calls

\* The files of programs.
Programs == Places \X Names

VARIABLES
  values,    \* the Run key: [Names -> Programs \cup {NoText}]
  pc,        \* of each caller: "idle", "status", "set"
  filename, bStatus,  \* of each caller: its arguments
  calls,     \* number of calls so far
  promised   \* history: the program that was last reported as registered
             \* under each name, if nobody else changed the value since

vars == <<values, pc, filename, bStatus, calls, promised>>

Init ==
  /\ values \in [Names -> Programs \cup {NoText}]
  /\ pc = [c \in Callers |-> "idle"]
  /\ filename = [c \in Callers |-> CHOOSE p \in Programs : TRUE]
  /\ bStatus = [c \in Callers |-> FALSE]
  /\ calls = 0
  /\ promised = [n \in Names |-> NoText]

\* Path::GetFileNameWithoutExtension
appName(c) == filename[c][2]

\* A call of c returns r.
Return(c, r) ==
  /\ pc' = [pc EXCEPT ![c] = "idle"]
  /\ promised' = IF r /\ (bStatus[c] \/ pc[c] = "set")
                 THEN [promised EXCEPT ![appName(c)] = IF bStatus[c] THEN filename[c] ELSE NoText]
                 ELSE promised

SetAutoBoot(c, p, b) ==
  /\ pc[c] = "idle" /\ calls < MaxCalls
  /\ pc' = [pc EXCEPT ![c] = "status"]
  /\ filename' = [filename EXCEPT ![c] = p]
  /\ bStatus' = [bStatus EXCEPT ![c] = b]
  /\ calls' = calls + 1
  /\ UNCHANGED <<values, promised>>

\* Mutant: any value under the name counts.
IsBootAny(c, strDir) == strDir # NoText

\* The comparison is made when RegGetValue failed.  It always does: there is
\* no value, or the flags REG_SZ, which stand for values without a type, do
\* not fit the text.
IsBoot(c, strDir) == strDir = filename[c]

\* GetAutoBootStatus inside SetAutoBoot, and the early returns after it.  A
\* RegGetValue that fails may or may not have filled strDir.
GetAutoBootStatus(c, opens) ==
  \E strDir \in {NoText, values[appName(c)]} :
    LET b == opens /\ IsBoot(c, strDir)
    IN  /\ pc[c] = "status"
        /\ IF b = bStatus[c]
           THEN Return(c, TRUE)
           ELSE pc' = [pc EXCEPT ![c] = "set"] /\ UNCHANGED promised
        /\ UNCHANGED <<values, filename, bStatus, calls>>

\* RegSetValueEx or RegDeleteValue, which fail without rights and, the
\* latter, without a value.
SetValue(c, opens) ==
  LET n == appName(c)
      ok == opens /\ (bStatus[c] \/ values[n] # NoText)
      v == IF bStatus[c] THEN filename[c] ELSE NoText
  IN  /\ pc[c] = "set"
      /\ values' = IF ok THEN [values EXCEPT ![n] = v] ELSE values
      /\ Return(c, ok)
      /\ UNCHANGED <<filename, bStatus, calls>>

\* Somebody else changes a value.
Other(n, v) ==
  /\ calls < MaxCalls /\ v # values[n]
  /\ calls' = calls + 1
  /\ values' = [values EXCEPT ![n] = v]
  /\ promised' = [promised EXCEPT ![n] = NoText]
  /\ UNCHANGED <<pc, filename, bStatus>>

Next ==
  \/ \E c \in Callers :
       \/ \E p \in Programs, b \in BOOLEAN : SetAutoBoot(c, p, b)
       \/ \E opens \in BOOLEAN : GetAutoBootStatus(c, opens) \/ SetValue(c, opens)
  \/ \E n \in Names, v \in Programs \cup {NoText} : Other(n, v)

Spec == Init /\ [][Next]_vars

(***************************************************************************)
(* Properties.                                                             *)
(***************************************************************************)

\* Once SetAutoBoot(file, true) has returned true the file is the one that
\* is started under its name, whether or not the value could be compared,
\* until a file of the same name is registered or taken away, or another
\* program changes the value.
EnabledRegistered ==
  \A n \in Names : promised[n] # NoText => values[n] = promised[n]
=============================================================================
