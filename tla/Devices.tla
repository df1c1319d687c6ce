------------------------------ MODULE Devices ------------------------------
(***************************************************************************)
(* What the functions of include/Printer.hpp, QrCode.hpp, GdiPlus.hpp and  *)
(* WinTool.hpp acquire from the system and give back: a function is the    *)
(* sequence of its calls of the system, each of which may fail where the   *)
(* code can go on after that.  A program calls them one after the other,   *)
(* and starts and shuts down GDI+ in between.                              *)
(***************************************************************************)
EXTENDS Integers, Sequences

CONSTANT MaxCalls   \* bound on the calls of functions

\* A call that gets some resources.  If it fails the function frees those of
\* undo and goes on at step next, the end of the function if that is 0.
Try(gets, undo, next) == [gets |-> gets, frees |-> {}, fails |-> TRUE, undo |-> undo, next |-> next]

\* A call without a failure that the function takes notice of.
Do(gets, frees) == [gets |-> gets, frees |-> frees, fails |-> FALSE, undo |-> {}, next |-> 0]

\* Mutant: the failure of CreateDC leaves the printer open.
PrinterImageOpen ==
  << Try({"printer"}, {}, 0), Try({}, {"printer"}, 0), Do({"devmode"}, {}),
     Try({}, {"devmode", "printer"}, 0), Try({}, {"devmode", "printer"}, 0),
     Try({"dc"}, {"devmode"}, 0),
     Try({"doc"}, {"devmode", "printer"}, 0), Try({"page"}, {"devmode", "printer"}, 0),
     Do({}, {"page", "doc"}), Do({}, {"dc"}), Do({}, {"devmode", "printer"}) >>

\* PrinterIamge16K and PrinterImageA4: OpenPrinter, DocumentProperties (size),
\* LocalAlloc, DocumentProperties (get, set), CreateDC, StartDoc, StartPage,
\* EndPage and EndDoc, DeleteDC, LocalFree and ClosePrinter.
PrinterImage ==
  << Try({"printer"}, {}, 0), Try({}, {"printer"}, 0), Do({"devmode"}, {}),
     Try({}, {"devmode", "printer"}, 0), Try({}, {"devmode", "printer"}, 0),
     Try({"dc"}, {"devmode", "printer"}, 0),
     Try({"doc"}, {"devmode", "printer"}, 0), Try({"page"}, {"devmode", "printer"}, 0),
     Do({}, {"page", "doc"}), Do({}, {"dc"}), Do({}, {"devmode", "printer"}) >>

\* LocalAlloc, LocalFree; what EnumPrinters returns is copied.
FindPrinters == << Try({"printers"}, {}, 0), Do({}, {"printers"}) >>

\* QRcode_encodeString, malloc, fopen_s, fclose, free and QRcode_free.
BuildQRcode ==
  << Try({"symbol"}, {}, 0), Try({"pixels"}, {}, 0), Try({"bmp"}, {}, 0),
     Do({}, {"bmp"}), Do({}, {"pixels", "symbol"}) >>

\* GetImageEncodersSize, malloc, free when found and when not.
GetEncoderClsid == << Try({}, {}, 0), Try({"codecs"}, {}, 0), Do({}, {"codecs"}) >>

\* GlobalAlloc, GetDC, CreateFile, GlobalFree, CloseHandle; on failure next.
SaveBitmapToFile(next) ==
  << Try({"mem"}, {}, next), Do({"screen"}, {}), Try({"bmp"}, {}, next),
     Do({}, {"mem"}), Do({}, {"bmp"}) >>

\* GetDC, CreateCompatibleBitmap, CreateCompatibleDC, __SaveBitmapToFile__,
\* ReleaseDC, which does nothing for a memory device context, ReleaseDC.
CutWindowBitmap ==
  << Do({"window"}, {}), Do({"bitmap"}, {}), Do({"memdc"}, {}) >>
    \o SaveBitmapToFile(9) \o << Do({}, {"window"}) >>

\* CoInitialize, CoCreateInstance, QueryInterface, Save, whose failure makes
\* no difference, Release twice, CoUninitialize.
CreateDesktopLnk ==
  << Try({"com"}, {}, 5), Try({"link"}, {}, 5), Try({"persist"}, {}, 4),
     Do({}, {"persist", "link"}), Do({}, {"com"}) >>

\* FindProcessInfo, with CreateToolhelp32Snapshot; the handles of processes
\* and of the token in Is64BitPorcess, FindProcessFilename, CloseProcess and
\* EnablePrivilege: CloseHandle also of a null one, which does nothing.
WithHandle == << Try({"handle"}, {}, 0), Do({}, {"handle"}) >>

\* OpenProcess(name) gives the handle to its caller.
OpenProcess == << Try({"process"}, {}, 0) >>

Functions ==
  [print |-> PrinterImage, printers |-> FindPrinters, qr |-> BuildQRcode,
   clsid |-> GetEncoderClsid, cut |-> CutWindowBitmap, save |-> SaveBitmapToFile(0),
   lnk |-> CreateDesktopLnk, process |-> WithHandle, open |-> OpenProcess]

Resources ==
  {"printer", "devmode", "dc", "doc", "page", "printers", "symbol", "pixels", "bmp", "codecs",
   "mem", "screen", "window", "bitmap", "memdc", "com", "link", "persist", "handle", "process"}

VARIABLES
  held,      \* [Resources -> number held]
  fn, step,  \* the function that runs, or "none", and its step
  failed,    \* the steps of the function that failed
  left,      \* history: what the calls that ended should have left
  calls,     \* number of calls so far
  gdiplusToken, gdiplus,  \* the token is not null; GDI+ is running
  inits, shut             \* history: Init started GDI+; CleanUp shut it down

vars == <<held, fn, step, failed, left, calls, gdiplusToken, gdiplus, inits, shut>>

gdi == <<gdiplusToken, gdiplus, inits, shut>>

\* The caller of CreateDesktopLnk may have initialised COM itself.
Init ==
  /\ \E com \in 0..1 : held = [r \in Resources |-> IF r = "com" THEN com ELSE 0]
  /\ left = held
  /\ fn = "none" /\ step = 1 /\ failed = {}
  /\ calls = 0
  /\ gdiplusToken = FALSE /\ gdiplus = FALSE /\ inits = FALSE /\ shut = FALSE

Plus(h, gets) == [r \in Resources |-> h[r] + IF r \in gets THEN 1 ELSE 0]

\* To free what is not there does nothing.
Minus(h, frees) == [r \in Resources |-> IF r \in frees /\ h[r] > 0 THEN h[r] - 1 ELSE h[r]]

Call(f) ==
  /\ fn = "none" /\ calls < MaxCalls
  /\ fn' = f /\ calls' = calls + 1
  /\ UNCHANGED <<held, step, failed, left, gdi>>

\* What a call of f leaves on purpose or by neglect, given its failed steps:
\* the device context when no page could be started, and then the document;
\* the symbol and the pixels of a code that could not be written; the memory
\* of a bitmap without a file, and always the screen's device context; the
\* bitmap and the memory device context of a window; a process's handle.
Leaves(f, steps) ==
  CASE f = "print" /\ 7 \in steps -> {"dc"}
    [] f = "print" /\ 8 \in steps -> {"dc", "doc"}
    [] f = "qr" /\ 2 \in steps -> {"symbol"}
    [] f = "qr" /\ 3 \in steps -> {"symbol", "pixels"}
    [] f = "save" /\ 1 \notin steps -> {"screen"} \cup IF 3 \in steps THEN {"mem"} ELSE {}
    [] f = "cut" -> {"bitmap", "memdc"} \cup (IF 4 \in steps THEN {} ELSE {"screen"})
                      \cup IF 6 \in steps THEN {"mem"} ELSE {}
    [] f = "open" /\ steps = {} -> {"process"}
    [] OTHER -> {}

\* CoUninitialize without a CoInitialize of its own takes the caller's.
Takes(f, steps) == IF f = "lnk" /\ 1 \in steps THEN {"com"} ELSE {}

\* The function goes on at step n, or returns.
Go(n, steps) ==
  LET ends == n = 0 \/ n > Len(Functions[fn])
  IN  /\ step' = IF ends THEN 1 ELSE n
      /\ failed' = IF ends THEN {} ELSE steps
      /\ fn' = IF ends THEN "none" ELSE fn
      /\ left' = IF ends THEN Plus(Minus(left, Takes(fn, steps)), Leaves(fn, steps)) ELSE left
      /\ UNCHANGED <<calls, gdi>>

Succeed ==
  /\ fn # "none"
  /\ LET s == Functions[fn][step] IN held' = Plus(Minus(held, s.frees), s.gets)
  /\ Go(step + 1, failed)

Fail ==
  /\ fn # "none"
  /\ LET s == Functions[fn][step]
     IN  /\ s.fails
         /\ held' = Minus(held, s.undo)
         /\ Go(s.next, failed \cup {step})

\* Gdiplus::Init; GdiplusStartup may fail.
GdiInit(ok) ==
  /\ gdiplusToken' = (gdiplusToken \/ ok)
  /\ gdiplus' = (gdiplus \/ (ok /\ ~gdiplusToken))
  /\ inits' = (inits \/ ok)
  /\ UNCHANGED <<held, fn, step, failed, left, calls, shut>>

\* Gdiplus::CleanUp keeps the token.
GdiCleanUp ==
  /\ gdiplus' = (gdiplus /\ ~gdiplusToken)
  /\ shut' = (shut \/ gdiplusToken)
  /\ UNCHANGED <<held, fn, step, failed, left, calls, gdiplusToken, inits>>

Next ==
  \/ Succeed \/ Fail \/ \E f \in DOMAIN Functions : Call(f)
  \/ GdiCleanUp \/ \E ok \in BOOLEAN : GdiInit(ok)

Spec == Init /\ [][Next]_vars

(***************************************************************************)
(* Properties.                                                             *)
(***************************************************************************)

\* After any sequence of calls, whichever of them failed and where, the
\* program holds what it held before and what Leaves tells of each call, and
\* GDI+ runs from the first Init that starts it to the first CleanUp after
\* that, whatever calls of Init follow.
DevicesReleased ==
  /\ fn = "none" => held = left
  /\ gdiplus = (inits /\ ~shut)
=============================================================================
