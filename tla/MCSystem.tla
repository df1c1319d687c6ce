------------------------------ MODULE MCSystem ------------------------------
(***************************************************************************)
(* Regedit, Socket, Func, AutoBoot, Devices and the functions without      *)
(* state side by side.  They share no state: a behaviour runs one of them  *)
(* and leaves the others as they begin.                                    *)
(***************************************************************************)
EXTENDS Regedit

CONSTANTS
  Objects, Handles, None, Size, Addresses, PointerSize, MaxStarts,
  Callbacks, FunctionAddresses, MaxBinds,
  Places, NoText, MaxBootCalls,
  MaxDeviceCalls,
  Space, Chars, MaxStr, MaxArg, MaxCount, Slash, Backslash, Dot, Letters, MaxName,
  Bytes, MaxText, Pad, Width, Hours, Minutes, MaxTokens

ASSUME SystemAssumption ==
  Size \in Nat /\ None \notin Handles /\ FunctionAddresses \subseteq Nat \ {0}

\* A dot is no separator.
ASSUME NamesAssumption == Dot \notin {Slash, Backslash}

\* What is found in a text is counted to the end.
ASSUME TextAssumption == MaxStr \in Nat /\ MaxCount \in Nat /\ MaxStr <= MaxCount

VARIABLES
  wVersion, started, starts, cleaning, phase, handle, open, totalCount, peer,
  split, unstarted, aborted, callbacks, ids, it, ran, stayed, undefined,
  values, bootPc, filename, bStatus, bootCalls, promised,
  held, fn, step, failed, left, deviceCalls, gdiplusToken, gdiplus, inits, shut,
  op, text, oldText, newText, textPc, str, pos, count, arr, turn, out,
  active   \* the component that runs

S == INSTANCE Socket
F == INSTANCE Func WITH Addresses <- FunctionAddresses
B == INSTANCE AutoBoot WITH Callers <- Objects, MaxCalls <- MaxBootCalls,
                            pc <- bootPc, calls <- bootCalls
D == INSTANCE Devices WITH MaxCalls <- MaxDeviceCalls, calls <- deviceCalls
Fn == INSTANCE PureFunctions WITH arg <- text, pc <- textPc

socketVars == <<wVersion, started, starts, cleaning, phase, handle, open,
                totalCount, peer, split, unstarted, aborted>>
funcVars == <<callbacks, ids, it, ran, stayed, undefined>>
bootVars == <<values, bootPc, filename, bStatus, bootCalls, promised>>
deviceVars == <<held, fn, step, failed, left, deviceCalls, gdiplusToken, gdiplus, inits, shut>>
textVars == <<op, text, oldText, newText, textPc, str, pos, count, arr, turn, out>>

allVars == <<vars, socketVars, funcVars, bootVars, deviceVars, textVars, active>>

AllInit ==
  /\ active \in {"regedit", "socket", "func", "boot", "devices", "functions"}
  /\ Init /\ (active # "regedit" => keys = {} /\ denied = {} /\ closed = {} /\ arg = <<Root>>)
  /\ S!Init /\ F!Init
  /\ B!Init /\ (active # "boot" => \A n \in Names : values[n] = NoText)
  /\ D!Init /\ (active # "devices" => held["com"] = 0)
  /\ (active # "functions" => op = "Time" /\ text = <<>>) /\ Fn!AllInit

RegeditNext ==
  active = "regedit" /\ Next /\ UNCHANGED <<socketVars, funcVars, bootVars, deviceVars, textVars>>
SocketNext ==
  active = "socket" /\ S!Next /\ UNCHANGED <<vars, funcVars, bootVars, deviceVars, textVars>>
FuncNext ==
  active = "func" /\ F!Next /\ UNCHANGED <<vars, socketVars, bootVars, deviceVars, textVars>>
BootNext ==
  active = "boot" /\ B!Next /\ UNCHANGED <<vars, socketVars, funcVars, deviceVars, textVars>>
DeviceNext ==
  active = "devices" /\ D!Next /\ UNCHANGED <<vars, socketVars, funcVars, bootVars, textVars>>
FunctionsNext ==
  active = "functions" /\ Fn!AllNext /\ UNCHANGED <<vars, socketVars, funcVars, bootVars, deviceVars>>

AllNext ==
  /\ active' = active
  /\ RegeditNext \/ SocketNext \/ FuncNext \/ BootNext \/ DeviceNext \/ FunctionsNext

\* Fairness is that of DelKey and of the functions of Text.
AllSpec ==
  /\ AllInit /\ [][AllNext]_allVars
  /\ WF_allVars(/\ active = "regedit" /\ DelKey
                /\ UNCHANGED <<socketVars, funcVars, bootVars, deviceVars, textVars, active>>)
  /\ WF_allVars(/\ active = "functions" /\ Fn!Step /\ out' = out
                /\ UNCHANGED <<vars, socketVars, funcVars, bootVars, deviceVars, active>>)

(***************************************************************************)
(* The properties of the components.                                       *)
(***************************************************************************)

\* Socket: every handle has one owner, and who needs the library finds it
\* started.
HandlesOwned == S!HandlesOwned /\ S!LibraryStarted

\* Socket: Write returns the number of bytes that the other side has got.
WriteCounted == S!WriteCounted

\* Func: only bound functions run, those that stay bound once per invocation.
InvokedOnce == F!InvokedOnce

\* AutoBoot: what SetAutoBoot reports as registered is.
EnabledRegistered == B!EnabledRegistered

\* Devices: a call leaves no resource but those that its path neglects.
DevicesReleased == D!DevicesReleased

\* Text: Trim, Replace, Split and Count compute what they are named for.
TextAgrees == Fn!TextAgrees

\* Regedit and Text: a DelKey that runs, and a function of Text that is
\* called, return.
CallsReturn == (active = "regedit" => DelKeyReturns) /\ (active = "functions" => Fn!Returns)

\* Path: the functions on names agree with the definition by separators.
NamesAgree == Fn!NamesAgree

\* Base64 and HttpUtility: the encoders make what the standard says, and
\* HttpUtility's decoders undo it.
CodecsAgree == Fn!CodecsAgree

\* Time: the parts of a format become the parts of the time.
TimesAgree == Fn!TimesAgree
=============================================================================
