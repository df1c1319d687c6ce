------------------------------- MODULE Socket -------------------------------
(***************************************************************************)
(* include/Socket.hpp: Socket objects over the Windows socket library,     *)
(* which must be started before use and hands out handles that it uses     *)
(* again once they are closed.  Each object is used by a thread of its     *)
(* own.  The callers follow the rules that the code relies on: an object   *)
(* is closed once, after Connect, whatever it returned, after a Bind that  *)
(* succeeded or after Accep, and not after a Bind that failed; Cleanup is  *)
(* called when no object is in use.                                        *)
(***************************************************************************)
EXTENDS Integers, Sequences, SequencesExt

CONSTANTS
  Objects,      \* the Socket objects
  Handles,      \* the handles of the library
  None,         \* no handle, or INVALID_SOCKET
  Size,         \* the length of the buffers passed to Write
  Addresses,    \* the lengths of the texts of clients' addresses
  PointerSize,  \* sizeof(char*)
  MaxStarts     \* bound on the calls of WSAStartup

Buffer == [i \in 1..Size |-> i]

VARIABLES
  wVersion,    \* g_socket_wsadata.wVersion, 0 or 1
  started,     \* calls of WSAStartup without their WSACleanup
  starts,      \* calls of WSAStartup so far
  cleaning,    \* Cleanup is between its two statements
  phase,       \* what an object's caller knows of it
  handle,      \* the member socket
  open,        \* the handles that are open
  totalCount,  \* of an object's Write
  peer,        \* what the other side has received of it
  split,       \* whether a send of it took only a part
  unstarted,   \* objects constructed during a Cleanup or with a failed start
  aborted      \* the program was ended by the run-time library

vars == <<wVersion, started, starts, cleaning, phase, handle, open, totalCount,
          peer, split, unstarted, aborted>>

library == <<wVersion, started, starts, cleaning>>
written == <<totalCount, peer, split>>

Init ==
  /\ wVersion = 0 /\ started = 0 /\ starts = 0 /\ cleaning = FALSE
  /\ phase = [o \in Objects |-> "none"]
  /\ handle = [o \in Objects |-> None]
  /\ open = {}
  /\ totalCount = [o \in Objects |-> 0]
  /\ peer = [o \in Objects |-> <<>>]
  /\ split = [o \in Objects |-> FALSE]
  /\ unstarted = {}
  /\ aborted = FALSE

Become(o, p) == phase' = [phase EXCEPT ![o] = p]

\* The test of the static Init, which the constructor calls.
Construct(o) ==
  /\ phase[o] = "none"
  /\ wVersion = 0 => starts < MaxStarts
  /\ Become(o, IF wVersion = 0 THEN "startup" ELSE "fresh")
  /\ unstarted' = IF cleaning THEN unstarted \cup {o} ELSE unstarted
  /\ UNCHANGED <<library, handle, open, written, aborted>>

\* WSAStartup, whose failure the constructor ignores.
Startup(o) ==
  /\ phase[o] = "startup" /\ starts < MaxStarts
  /\ \/ started' = started + 1 /\ wVersion' = 1 /\ unstarted' = unstarted
     \/ unstarted' = unstarted \cup {o} /\ UNCHANGED <<started, wVersion>>
  /\ starts' = starts + 1
  /\ Become(o, "fresh")
  /\ UNCHANGED <<cleaning, handle, open, written, aborted>>

\* Cleanup: WSACleanup, which closes every handle when it is the last.
CleanupLibrary ==
  /\ ~ cleaning /\ \A o \in Objects : phase[o] = "none"
  /\ starts > 0
  /\ started' = IF started > 0 THEN started - 1 ELSE 0
  /\ open' = IF started' = 0 THEN {} ELSE open
  /\ cleaning' = TRUE
  /\ UNCHANGED <<wVersion, starts, phase, handle, written, unstarted, aborted>>

AfterCleanup == 0

CleanupReset ==
  /\ cleaning
  /\ wVersion' = AfterCleanup
  /\ cleaning' = FALSE
  /\ UNCHANGED <<started, starts, phase, handle, open, written, unstarted, aborted>>

\* What ::socket may return: nothing without the library.
NewHandles == IF started = 0 THEN {None} ELSE (Handles \ open) \cup {None}

\* The handle of a socket that could not connect stays open.
Connect(o) ==
  /\ phase[o] \in {"fresh", "closed"}
  /\ \E h \in NewHandles :
       /\ handle' = [handle EXCEPT ![o] = h]
       /\ open' = open \cup ({h} \ {None})
       /\ \/ h # None /\ Become(o, "connected")
          \/ Become(o, "failed")
  /\ UNCHANGED <<library, written, unstarted, aborted>>

\* Mutant: a socket that could not be bound is not closed.
UnboundLeft(h) == open \cup {h}

\* The handles open after a Bind that could not bind h.
Unbound(h) == open

\* The member keeps the handle that a failed Bind has closed.
Bind(o) ==
  /\ phase[o] \in {"fresh", "closed"}
  /\ \E h \in NewHandles :
       /\ handle' = [handle EXCEPT ![o] = h]
       /\ \/ h # None /\ open' = open \cup {h} /\ Become(o, "bound")
          \/ h # None /\ open' = Unbound(h) /\ Become(o, "closed")
          \/ h = None /\ open' = open /\ Become(o, "closed")
  /\ UNCHANGED <<library, written, unstarted, aborted>>

Listen(o) ==
  /\ phase[o] = "bound"
  /\ Become(o, "listening")
  /\ UNCHANGED <<library, handle, open, written, unstarted, aborted>>

\* Accep of o returns n.  The address is formatted into PointerSize bytes
\* of its buffer: a longer one ends the program.
Accep(o, n) ==
  /\ phase[o] = "listening" /\ phase[n] = "none"
  /\ \E h \in Handles \ open, length \in Addresses :
       /\ open' = open \cup {h}
       /\ IF length < PointerSize
          THEN /\ handle' = [handle EXCEPT ![n] = h]
               /\ Become(n, "connected")
               /\ aborted' = aborted
          ELSE aborted' = TRUE /\ UNCHANGED <<handle, phase>>
  /\ UNCHANGED <<library, written, unstarted>>

WriteCall(o) ==
  /\ phase[o] \in {"connected", "written"}
  /\ Become(o, "writing")
  /\ totalCount' = [totalCount EXCEPT ![o] = 0]
  /\ peer' = [peer EXCEPT ![o] = <<>>]
  /\ split' = [split EXCEPT ![o] = FALSE]
  /\ UNCHANGED <<library, handle, open, unstarted, aborted>>

\* Mutant: every send is given the whole buffer.
RemainingAll(o) == Size

Remaining(o) == Size - totalCount[o]

\* One send, always from the beginning of the buffer.  It takes a part of
\* what it is given, or fails, which ends Write.
WriteSend(o) ==
  /\ phase[o] = "writing" /\ totalCount[o] # Size
  /\ \/ \E n \in 1..Remaining(o) :
          /\ peer' = [peer EXCEPT ![o] = @ \o SubSeq(Buffer, 1, n)]
          /\ totalCount' = [totalCount EXCEPT ![o] = @ + n]
          /\ split' = [split EXCEPT ![o] = @ \/ n < Remaining(o)]
          /\ UNCHANGED phase
     \/ Become(o, "failed") /\ UNCHANGED written
  /\ UNCHANGED <<library, handle, open, unstarted, aborted>>

WriteReturn(o) ==
  /\ phase[o] = "writing" /\ totalCount[o] = Size
  /\ Become(o, "written")
  /\ UNCHANGED <<library, handle, open, written, unstarted, aborted>>

Closed(o) == open \ {handle[o]}

Close(o) ==
  /\ phase[o] \in {"connected", "bound", "listening", "written", "failed"}
  /\ open' = Closed(o)
  /\ Become(o, "closed")
  /\ UNCHANGED <<library, handle, written, unstarted, aborted>>

\* The object goes out of scope; its destructor does nothing.
Destroy(o) ==
  /\ phase[o] = "closed"
  /\ Become(o, "none")
  /\ handle' = [handle EXCEPT ![o] = None]
  /\ unstarted' = unstarted \ {o}
  /\ totalCount' = [totalCount EXCEPT ![o] = 0]
  /\ peer' = [peer EXCEPT ![o] = <<>>]
  /\ split' = [split EXCEPT ![o] = FALSE]
  /\ UNCHANGED <<library, open, aborted>>

Step(o) ==
  \/ Construct(o) \/ Startup(o) \/ Connect(o) \/ Bind(o) \/ Listen(o)
  \/ \E n \in Objects : Accep(o, n)
  \/ WriteCall(o) \/ WriteSend(o) \/ WriteReturn(o) \/ Close(o) \/ Destroy(o)

Next ==
  /\ ~ aborted
  /\ CleanupLibrary \/ CleanupReset \/ \E o \in Objects : Step(o)

Spec == Init /\ [][Next]_vars

(***************************************************************************)
(* Properties.                                                             *)
(***************************************************************************)

\* The objects that are to be closed.
Holding == {o \in Objects : phase[o] \in {"connected", "bound", "listening",
                                          "writing", "written", "failed"}}

\* Every open handle belongs to one object that its caller will close and
\* every such object has its own handle open: no failure of Connect, Bind or
\* Write loses a handle, and no Close hits the connection of another object,
\* although handles are used again.
HandlesOwned ==
  ~ aborted =>
    /\ open = {handle[o] : o \in Holding} \ {None}
    /\ \A o, p \in Holding : handle[o] = handle[p] /\ o # p => handle[o] = None

\* An object finds the library started, in whatever order threads construct
\* the first objects and however often the library was cleaned up before,
\* unless its own WSAStartup failed or a Cleanup overlaps its constructor.
LibraryStarted ==
  \A o \in Objects :
    phase[o] \in {"none", "startup"} \/ o \in unstarted \/ started > 0

\* What Write returns is the number of bytes the other side has got, never
\* more than were passed; they are the buffer's as long as no send had to
\* be repeated.
WriteCounted ==
  \A o \in Objects :
    /\ Len(peer[o]) = totalCount[o] /\ totalCount[o] <= Size
    /\ phase[o] = "written" => totalCount[o] = Size
    /\ ~ split[o] => IsPrefix(peer[o], Buffer)
=============================================================================
