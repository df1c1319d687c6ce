-------------------------------- MODULE Log --------------------------------
(***************************************************************************)
(* include/os.h: comm::Log.  Every call appends a line to the log of the   *)
(* day and then deletes the logs of other days.  It takes no lock: calls   *)
(* of several threads, or of several processes started from the same       *)
(* executable, interleave, and midnight may come between any two steps.    *)
(* A log is named by its day; Windows does not remove an open file.        *)
(***************************************************************************)
EXTENDS Integers, Sequences

CONSTANTS
  Callers,   \* the threads and processes that log
  MaxDay,    \* bound on the days
  MaxCalls   \* bound on the calls

VARIABLES
  day,      \* the date
  exists,   \* the logs that exist
  log,      \* their lines; a line is the number of its call
  written,  \* history: all lines ever written to the log of a day
  cleaned,  \* history: the day on which a caller last began to clean up
  calls,    \* number of calls so far
  pc, line, logFilename, today, files  \* of each caller

vars == <<day, exists, log, written, cleaned, calls, pc, line, logFilename, today, files>>

Days == 1..MaxDay

Init ==
  /\ day = 1
  /\ exists = {} /\ log = [d \in Days |-> <<>>] /\ written = [d \in Days |-> <<>>]
  /\ cleaned = [c \in Callers |-> 0]
  /\ calls = 0
  /\ pc = [c \in Callers |-> "idle"]
  /\ line = [c \in Callers |-> 0]
  /\ logFilename = [c \in Callers |-> 1]
  /\ today = [c \in Callers |-> 1]
  /\ files = [c \in Callers |-> {}]

Goto(c, from, to) == pc[c] = from /\ pc' = [pc EXCEPT ![c] = to]

\* The name of the log, from the date; Path::Create(dir).
Begin(c) ==
  /\ Goto(c, "idle", "named")
  /\ calls < MaxCalls
  /\ calls' = calls + 1
  /\ line' = [line EXCEPT ![c] = calls']
  /\ logFilename' = [logFilename EXCEPT ![c] = day]
  /\ UNCHANGED <<cleaned, day, exists, log, written, today, files>>

\* A log that exists keeps its lines when it is opened.
Opened(d) == log' = [log EXCEPT ![d] = IF d \in exists THEN @ ELSE <<>>]

\* std::ofstream file(logFilename, std::ios::app)
Open(c) ==
  /\ Goto(c, "named", "open")
  /\ Opened(logFilename[c])
  /\ exists' = exists \cup {logFilename[c]}
  /\ UNCHANGED <<cleaned, day, written, calls, line, logFilename, today, files>>

\* The line is appended and the file closed.
Write(c) ==
  /\ Goto(c, "open", "written")
  /\ log' = [log EXCEPT ![logFilename[c]] = Append(@, line[c])]
  /\ written' = [written EXCEPT ![logFilename[c]] = Append(@, line[c])]
  /\ UNCHANGED <<cleaned, day, exists, calls, line, logFilename, today, files>>

\* Mutant: the day of the log's name is used again.
ReadClockOnce(c) == logFilename[c]

\* The date is read again for the cleanup.
ReadClock(c) == day

Today(c) ==
  /\ Goto(c, "written", "search")
  /\ today' = [today EXCEPT ![c] = ReadClock(c)]
  /\ cleaned' = [cleaned EXCEPT ![c] = day]
  /\ UNCHANGED <<day, exists, log, written, calls, line, logFilename, files>>

\* Path::SearchFiles(dir, "*.log")
SearchFiles(c) ==
  /\ Goto(c, "search", "cleanup")
  /\ files' = [files EXCEPT ![c] = exists]
  /\ UNCHANGED <<cleaned, day, exists, log, written, calls, line, logFilename, today>>

IsOpen(d) == \E c \in Callers : pc[c] = "open" /\ logFilename[c] = d

\* One file of the list: File::Delete if it is not of today.
Cleanup(c) ==
  /\ pc[c] = "cleanup"
  /\ \E d \in files[c] :
       /\ \A e \in files[c] : d <= e
       /\ files' = [files EXCEPT ![c] = @ \ {d}]
       /\ IF d # today[c] /\ d \in exists /\ ~IsOpen(d)
          THEN exists' = exists \ {d} /\ log' = [log EXCEPT ![d] = <<>>]
          ELSE UNCHANGED <<exists, log>>
  /\ UNCHANGED <<cleaned, day, written, calls, pc, line, logFilename, today>>

End(c) ==
  /\ Goto(c, "cleanup", "idle")
  /\ files[c] = {}
  /\ UNCHANGED <<cleaned, day, exists, log, written, calls, line, logFilename, today, files>>

Midnight ==
  /\ day < MaxDay
  /\ day' = day + 1
  /\ UNCHANGED <<cleaned, exists, log, written, calls, pc, line, logFilename, today, files>>

LogStep(c) ==
  \/ Begin(c) \/ Open(c) \/ Write(c) \/ Today(c)
  \/ SearchFiles(c) \/ Cleanup(c) \/ End(c)

Next == Midnight \/ \E c \in Callers : LogStep(c)

Spec == Init /\ [][Next]_vars

(***************************************************************************)
(* Properties.                                                             *)
(***************************************************************************)

\* The comment on the cleanup, "delete surplus logs, keep only the log of
\* the day": the log of the current day is complete, no line of it lost.
TodayComplete == log[day] = written[day]

\* When a call has returned, the logs left are those of the day on which it
\* cleaned up; a call cut by midnight deletes the line it has just written.
OnlyTodayLeft ==
  \A c \in Callers : pc[c] = "idle" /\ line[c] > 0 => exists \subseteq {cleaned[c]}
=============================================================================
