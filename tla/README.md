# Verification of VisualCpp

VisualCpp is a header-only C++ library for Windows: a thread pool, clients for HTTP, MySQL, Oracle and
sockets, files and paths, configuration, logging, codecs, text, zip archives, printing and imaging. This directory holds
TLA+ modules translated from its headers, the TLC configurations that check them and TLAPS proofs about most
of those that keep state. `PROJECT.json` lists the components, the runs, the source lines behind every definition, the
hazards, the findings and the theorems.

Run a check with `tlc -config X.cfg M`, a proof with `tlapm M.tla`.

## Inventory

Most headers are independent of each other. Those that interact do so by calls on the caller's thread:
`os.h` (Log), `FileWatcher`, `Path::Delete` and `ConfigJson` call the functions of namespaces `File`,
`Path` and `FileSystem`; those and `Time` call `Text::Replace`. State is shared with other threads in the
pool (queue, mutex, condition variable), in the unsynchronised globals `g_curl_bInit` and
`g_socket_wsadata`, and, with other programs too, in the file system and the registry. Nothing has a
server side or a protocol of its own.

| Component (under `include/`) | State | Operations | What is hard | What makes it correct |
|---|---|---|---|---|
| `ThreadPool.hpp` | queue, `stop`, threads, mutex, condition variable | constructor, worker loop, `enqueue`, destructor | interleavings, lost wakeups, tasks that enqueue or wait for tasks, shutdown | FIFO, each task once, no lost wakeup, every future resolves, the destructor drains and returns |
| `Md5.hpp` | `_state`, `_count`, `_buffer`, `_finished` | `reset`, `update` (memory, file), `final`, `digest`, `toString` | messages cut into any chunks, overflow of the length, padding into a second block, repeated `digest` | the context is the message; the digest is that of the padded message |
| `WebClient.hpp` | headers, cookies, `curl_header`, handle, files | header and cookie setters, `HttpGet`, `HttpPost`, `DownloadFile`, `FtpDownLoad`, `UploadFile`, `SubmitForm`, `CleanUp` | transfers that fail half way, members that outlive a call, handles freed twice, first construction by several threads | nothing of an earlier call is sent or held; a download leaves the response as far as the disk takes it |
| `MySqlClient.hpp`, `OrcaleClient.hpp` | connection, environment | `OpenConn`, `CloseConn`, `ExecuteQuery`, `ExecuteNoQuery` | failure of every library call, the releasing ones too; dangling pointers | what a call opens it closes, unless closing fails; results are the rows |
| `FileSystem.hpp`: `FileWatcher` | list of known files | `TaskFunc` with `SearchFiles` | the directory changes between any two steps; erasing while iterating | each appearance is reported once, what stays is known, what goes is forgotten |
| `FileSystem.hpp`: `File`, `Path`, `FileSystem`, `FileInfo` | the disk | `Exists`, `Create`, `Delete`, `Move`, `ReadFile`, `WriteFile`, `Find`, name functions | ignored results, files held open, kills between steps, attribute bits | a move never loses the source; deletion and creation do what they report |
| `os.h` | log files | `Log` | midnight and other callers between its steps | the log of the day is complete and alone |
| `Func.hpp` | map from ids to functions | `+=`, `-=`, `()` | callbacks that bind and unbind during `()`; ids that are addresses of temporaries | bound functions run once per call, removed ones do not |
| `ConfigIni.hpp` | the ini file | readers, `WriteValue`, `DeleteKey`, `DeleteSection` | read-modify-write of the whole file by several programs; a kill in between | only changes that overlap with a deletion are lost |
| `Regedit.h` | the registry | `DelKey`, `SetValue`, `CreateKey`, `Exist` | recursion over one buffer, keys that refuse, other programs | only keys below the argument go; the result is the truth; it returns |
| `Socket.hpp` | library count, handles | `Init`, `Cleanup`, `Connect`, `Bind`, `Listen`, `Accep`, `Write`, `Close` | races on the library flag, handles used again, partial sends | each handle has one owner; the library is started when used; `Write` counts truly |
| `Text.hpp`, `Base64.hpp`, `HttpUtility.hpp` | none | string functions, codecs | loops that do not end, boundaries, overflow | agreement with reference definitions; termination |
| `ConfigJson.hpp` | a JSON value, a file | readers, `WriteValue`, `LoadFromFile`, `Save`, `SaveAs` | reading inserts fields; saving empties the file first; two programs, kills | the document is what was given and written; what a save wrote stays |
| `FileSystem.hpp`: `FileInfo` | size at construction, position, stream | constructor, `Read`, `Close` | the file changes between reads; a size that was never set | chunks are the bytes in order |
| `WinTool.hpp` | Run key, handles, COM | `SetAutoBoot`, `GetAutoBootStatus`, process functions, `CreateDesktopLnk` | a status read from a call that failed; other processes | a program reported as registered is |
| `GdiPlus.hpp`, `Printer.hpp`, `QrCode.hpp` | GDI+ token, device contexts, memory, files | `Init`, `CleanUp`, saving, cutting, printing, encoding | early returns that keep handles, repeated set-up and shut-down | what a call acquires it releases, and no more |
| `Time.hpp` | none | `Now::ToString` | the order of the replacements | each token by its own part of the time |
| `zip/zip.cpp` | window, hash chains, trees, bits, archive, directory | `deflate`, `build_tree`, `send_*`, `Create`, `Add`, `GetMemory`, `Close` | a window that slides under a match, codes too long, media that fill up, sizes not known before | the tokens expand to the file; the block decodes; the archive has the entries accepted |
| `zip/unzip.cpp` | window, tables, cursor, open item | `inflate`, `huft_build`, `Get`, `Find`, `Unzip` | output buffers of any size, tables of several levels, items asked for in any order | the caller gets the text once and in order; the item asked for, whole |

## Modules

**ThreadPool** has one action per critical section of `ThreadPool.hpp` and one for taking the mutex, so that
workers, clients and the owner interleave as in the code. `m_tasks`, `stop` and the mutex are the members of
the class; `pc` holds the program points of the threads, `fut` the futures, `accepted` and `started` are
history. `EnqueueNotify` models `notify_one` after the unlock, with the worker it wakes chosen freely;
`SpuriousWakeup` (at most `MaxSpurious`) wakes a worker for nothing. A task may enqueue a child and may, or may not, wait
for it. **TaskPool** says what the pool promises without any thread: a FIFO that is open, closed and, once
drained, destroyed. **MCThreadPool** gives the tasks: two roots, one with a child.

**Md5** keeps the compression function symbolic (the state is the sequence of blocks it was applied to), so
equal digests mean equal padded messages. Block, word and byte sizes are constants.

**WebClient** is one object with its transfers. The file of a download may refuse to be deleted, opened or
written, which the code does not notice: what then comes into the file is a part of a chunk (`-c` for chunk
`c`) or nothing. The list of cookies that `CleanUp` asks libcurl for is counted (`cookieLists`), since nobody
frees it. **CurlGlobal** is the test and set of `g_curl_bInit` in the
constructor, by several threads.

**MySqlClient** and **OrcaleClient** have an action for each method with each failure, and in the Oracle client
also with a failure of the call that gives back a result set, a statement, the connection or the environment
(`throws`; the environment may then be there or not). They share **JsonRows**,
the loops that print the rows as a JSON array. Cells are atoms: the code does not escape cell texts, and the
modules say nothing about cells that contain quotes.

**FileWatcher** has one step per turn of each loop of `TaskFunc`, with `SearchFiles` as one step. The loop's
condition is the C function `exit`, never null, so the constructor does not return and the destructor has no
action. **Log** separates every access to the directory. **Files** has one step per call of the C library in
namespace `File`; **PathTree** has `Path::Create` step by step and `Path::Delete` with `Find` as one step.
**PathNames** has the name functions, over the strings of **Strings**, which **Text** uses too; there one
step is one turn of a loop. **Base64Codecs** has both Base64 implementations and the URL coding as functions.

**Func** has one step per callback. **ConfigIni** separates the read, the opening (which empties the file)
and the write of `DeleteSection`; a program may be killed in between. The stream shares the file, so another
deletion may open it too, and values be written, before the text comes: `Left` is what of the longer text
stays behind the shorter. `could` holds the values that each entry may have, `mixed` that two had the file open. **Regedit** is `DelKey` with its
recursion as a stack of lengths over one path buffer. A backslash at the end of the argument, which the code
drops, is not distinguished. **Socket** has objects with a thread each; `Init` and `Cleanup` are two steps each.
The rules that callers must keep are in the header of the module: the handle must be closed after a failed
`Connect` and must not be after a failed `Bind`.

**ConfigJson** has two programs with one file; a document is a function from fields to kinds of values, and
`Save` and `SaveAs` are two steps, the opening, which empties the file, and the write. Of the readers, what
they do to the document is modelled. **AutoBoot** has one
step for `GetAutoBootStatus` and one for the change of the value, for several processes and other programs.
**Devices** writes each function of `Printer.hpp`, `QrCode.hpp`, `GdiPlus.hpp` and `WinTool.hpp` as the
sequence of its system calls, with what each gets, frees, and frees when it fails. **TimeFormat** is
`Now::ToString` over the strings of `Strings`. **FileReader** is `FileInfo` while others change the file.

The zip sources are in five modules. **Deflate** is `deflate` (lazy matching, level 8) over its sliding window;
a block is the sequence of its literals and matches. **ZipTrees** takes the frequencies of a block, builds the
trees, sends them and the symbols as bytes, and reads them back through `huft_build` and its tables.
**Inflate** is the other end: symbols come in, and the window is emptied into the caller's buffers, with
`inflate_fast` where there is room. **ZipArchive** is `TZip` over a row of cells with a capacity, and the
functions that find the entries again. **ZipItems** is `TUnzip`: its cursor, the open item and the kept
`ZIPENTRY`. What a compressed item contains is abstract in the last two; the first three are about that.

Modules that put components side by side for TLC: **MCClients** has the web client, its global
initialisation and both database clients; **MCDisk** the file functions, the directory functions, the log,
the ini file, the json file and the watcher, each on its own part of the disk; **MCSystem** the registry, the
sockets, the delegate, the Run key, the devices and **PureFunctions**, which calls every function of `Text`,
`PathNames`, `Base64Codecs` and `TimeFormat` once for every input; **MCStreams** `Md5`, `FileReader` and the
zip modules. These components share no state, so a behaviour runs one of them (`active`) and leaves the
others as they begin: the state space is the sum and not the product of theirs.

Library calls that the code does not implement (`RegDeleteKey`, sharing of open files, libcurl, the
databases) are marked external in the map and modelled by the outcomes that the calling code tests for.

## Runs

Passing runs:

| Run | Checks | Bounds, and why they are enough |
|---|---|---|
| `thread_pool` | types, `NoLostWakeup`, `TakenInOrder`, `DrainedOnDestroy`, `EveryFutureResolves`, `DestructorReturns`, refinement of `TaskPool` | 0 to 2 workers, 2 clients, 3 tasks of which one is a child that its parent may wait for, 1 spurious wakeup: two workers and two notifiers are what a lost wakeup needs; 0 workers is the degenerate pool; with 1 worker a waiting parent starves the pool. The safety properties are also proved for all values |
| `streams`: MD5 | `DigestOfMessage` | blocks of 8 bytes, words of 4 bits, up to 18 bytes in chunks up to 9: more than two blocks, every boundary, and overflow of the low length word |
| `streams`: reader | `ChunksInOrder` | files up to 4 bytes, reads up to 3, any size where none was set |
| `streams`: deflate | `DeflateExact` | a window of 2 times 16, matches of 3 and 4, files up to 53 bytes with every period up to 5 and a strange byte: the window slides three times, under matches that are put off; blocks of up to 6 tokens, so that some begin before the window |
| `streams`: inflate | `InflateExact` | a window of 4, matches of 2 and 3, texts up to 7, buffers up to 3: the window wraps twice, and every copy is interrupted everywhere |
| `streams`: trees | `BlockExact` | codes of at most 5 bits (3 for lengths), lookup tables of 2 and 3 bits, all tables of 5 small frequencies and chosen longer ones: codes are cut in both trees, tables have two levels, runs have every kind of repeat code |
| `streams`: archive | `ArchiveComplete` | 2 calls of `Add` with files up to 3 cells, on a file that begins at 0 or 1, a pipe or memory of 7, 12 or 30 cells: every record is the one that does not fit |
| `streams`: items | `ItemsDelivered` | archives of 3 items: compressed, stored, encrypted, empty, a folder, one name twice; buffers shorter and longer than an item |
| `clients`: web | `HeadersOfThisCall`, `OnlyCookiesHeld`, `BodyReceived` | 2 header keys, 2 values, bodies of up to 2 chunks, so that a transfer fails before, between and after chunks; 3 pieces in a file, so that a body follows what was there; 2 cookies, in one list or two |
| `clients`: initialisation | `InitBeforeUse` | 3 threads |
| `clients`: databases | `ConnectionsReleased`, `ResultIsRows` | 2 columns, up to 2 rows: none, one and several of each, where separators go wrong; 2 lost connections |
| `disk`: files | `FilesKept` | one writer that may be killed, one reader, 2 names, 2 calls |
| `disk`: directories | `DirectoriesExact` | trees of three levels, with a dotted and an ordinary name and every kind of entry |
| `disk`: log | `OnlyTodayLeft` for one caller | 4 days, 5 calls |
| `disk`: ini file | `OnlyOverlapsLost` | 2 programs, 2 sections, 5 calls: two deletions overlap after two values were written, and a third value falls into both |
| `disk`: json file | `OwnDocument` | 2 programs, 2 fields, 4 calls that change something: two saves overlap, and a third follows |
| `disk`: watcher | `ReportedOnce`, `EventuallyTracked` | 3 names of 3 kinds: two neighbours vanish and a third stays |
| `system`: registry | `ResultTruthful`, `OnlyBelowDeleted`, `CallsReturn` | all trees of depth 3 with 2 names, one key that refuses, one change by another program: three calls are on the stack at once |
| `system`: sockets | `HandlesOwned`, `WriteCounted` | 2 objects, 2 handles, buffers of 3 bytes, 3 starts of the library: double starts, reuse of handles and sends in three parts |
| `system`: delegate | `InvokedOnce` | 2 functions, 3 addresses, 4 bindings: ids are shared and freed ones used again |
| `system`: Run key | `EnabledRegistered` | 2 processes, 2 names in 2 directories, 4 calls: calls for one name overlap, and another program interferes |
| `system`: devices | `DevicesReleased` | 2 calls of any functions with any failures, any sequence of `Init` and `CleanUp` |
| `system`: functions | `TextAgrees`, `NamesAgree`, `CodecsAgree`, `TimesAgree`, `CallsReturn` | all texts up to 4 over 3 characters with arguments up to 2; all names up to 6 over a letter, the dot and both separators; all byte strings up to 4 over 8 bytes with the extremes: every tail, and the second group of three; formats of up to 3 tokens at times with one and two digits |

Deadlock is allowed where the system really stops: a starved pool, and the side-by-side modules, whose
components stop when their bounded number of calls is used up.

Every property has a mutant in `PROJECT.json`, a plausible error in the code that makes TLC find it violated.

Runs that show where the code departs from its comments (the quotations are under "findings"):

- `md5_digest_twice`: a second `digest()` differs from the first when the first had to pad into a second block.
- `web_client_submit_form`: `SubmitForm` cleans up its handle twice.
- `curl_global_race`: two first constructions call `curl_global_init` twice.
- `file_watcher_remove`: the entry after an erased one is skipped.
- `log_midnight`: a call that overlaps midnight deletes the new day's log, which another caller has begun.
- `base64_decode`: `Base64::base64_decode` gives nothing for the codes that `base64_encode` makes: its tests
  refuse what the assertions they replaced demanded.
- `zip_random_access`: after a `FindZipItem` that finds nothing, the next `UnzipItem` may deliver another item
  than the one asked for: the search puts the number and the place of the cursor back, not what it knows.

Conditions in the passing properties mark where else the code does less than its name or comment suggests:

- `CallsReturn` and `TextAgrees` leave out `Trim` of a text of spaces, and `Replace` by a text that contains
  the old one or with an empty old one: the loops do not end.
- `NamesAgree` leaves out the file name when the last dot is in a directory's name, and the directory of a
  name without a separator (the code returns the name itself).
- `BodyReceived` promises the whole body only while the file could be deleted, opened and written (`spoilt`):
  the results of all three are ignored, and the caller is told of success. What it then still says is that the
  pieces in the file are of this body, in order, and none twice.
- `OnlyCookiesHeld` has the lists of cookies stay allocated, no more of them than cookies were added.
- `ConnectionsReleased` lets the Oracle client keep an environment when a release threw, until the next opening
  loses it: what follows the release is skipped.
- `OnlyOverlapsLost` says nothing once two programs had the ini file open for writing at once (`mixed`), and
  lets an entry go back to an earlier value, or to none, when a change of it fell into a deletion or a deletion
  was killed with the file open.
- `FilesKept` is, for the result of `Move`, about existing sources with the ARCHIVE bit and another target: of a missing source or a
  move onto itself the code reports success, and `Exists` takes the ARCHIVE bit for existence.
- `DirectoriesExact` says what stays of a deleted tree: dotted and hidden entries, files without ARCHIVE, and the
  directories above them.
- `InvokedOnce` is about functions that are in the map: a temporary at the address of an earlier one is not
  entered.
- `ReportedOnce` follows names that exist for `File::Exists`; a directory that is listed first is taken for
  a file and reported in every pass.
- `EveryFutureResolves` and `DestructorReturns` allow a starved pool, in which every worker waits for a task
  that no worker is left to run.
- `WriteCounted` promises the bytes of the buffer only while no send was partial: the next send starts at
  the beginning of the buffer again.
- `OwnDocument` has `LoadFromFile` as it is: it asks for a directory, so that a regular file is never loaded
  and the document is only what the object was given. A field that was looked at is there, as null. What a
  save wrote is promised until a save overlaps another or its process is killed.
- `EnabledRegistered` is about enabling. `RegGetValue` is passed a type where it expects flags, and fails; the
  comparison is made then, on a buffer that may or may not be filled. `SetAutoBoot(file, false)` therefore may
  return true and leave the registration.
- `DevicesReleased` names what calls leave by neglect in `Leaves`: the device context (and document) of a page
  that could not be started, the symbol and pixels of a code without a file, the memory of a bitmap without a
  file and every screen context of `__SaveBitmapToFile__`, bitmap and memory context of a cut window; and a
  failed `CoInitialize` is undone all the same. After a `CleanUp` no `Init` starts GDI+ again.
- `TimesAgree` has the milliseconds (`mmmm`) as the minutes twice, which is what comes out.
- `ArchiveComplete` does not speak of archives without an end record, nor of those in which a write fell short
  and left the position elsewhere than the count: on a disk or pipe only a name or stored data notices. Nor
  does `GetMemory` say that the directory did not fit.
- `ItemsDelivered` holds while the cursor is about the item it stands at (see `zip_random_access`). `Whole` is
  not promised of an encrypted item that is taken in pieces or is stored: the 12 key bytes are subtracted from
  its length, so that its end is cut off, or the call does not return. An empty compressed item, and one that
  is asked for again after its end, gives `ZR_FLATE`; `GetZipItem`, and `FindZipItem` when it finds something,
  rewind the item that was being unzipped.
- `BlockExact` supposes of the lookup bits what holds of the code's (9 for 286 codes, 6 for 30): two tables
  hold the longest code, or there are too few codes to reach a third (`Proportioned`).

## Fairness

Weak fairness is assumed of threads that are inside a call of the library and not blocked: the constructor,
workers, `enqueue` calls and the destructor of the pool (not of clients that may call, nor of the owner's
decision to destroy the pool), the loop of `FileWatcher` (in `disk`), the functions of `Text`, and `DelKey`
(both in `system`). The
operating system runs runnable threads; the mutex is held for a few statements only, and in the model it
need not be granted in any order. Other programs and spurious wakeups have no fairness.

## Proofs

`ThreadPoolProofs` proves, for every number of workers and clients, every set of tasks and every relation
between tasks and the tasks they submit:

- `TypeCorrect`, `Fifo` and `Drained` (the invariants `TypeOK`, `TakenInOrder`, `DrainedOnDestroy`). None of
  them is inductive. The inductive invariant `IInv` adds that the mutex is held exactly inside a critical
  section (`LockInv`), how far the constructor and the destructor are and what that implies for the threads
  (`PhaseInv`), that a task inside `enqueue` is nowhere else (`SubInv`), that a worker holds a task exactly
  while it runs it and no two hold the same (`CurInv`), and where a task in each state of its future is
  (`FutInv`). `Drained` rests on `JoinedIsDrained`: a worker leaves only when the queue is empty and the pool
  stopped, after which nothing is accepted.
- `Wakeups` (`NoLostWakeup`), by counting: while a worker sleeps, the queue is no longer than the workers on
  their way to it plus the callers about to notify. Queueing adds a notifier, `notify_one` turns a notifier
  into a worker on its way, taking a task uses up such a worker, and a worker goes to sleep only when the queue
  is empty.

`ThreadPoolRefinement` proves `Implementation`: every step of the threads is a step of `TaskPool` or leaves
its variables unchanged, under the mapping at the end of `ThreadPool`.

The assumptions are the ones named in `ThreadPool`. `PoolAssumption`: the sets of threads are disjoint and
finite, `NoTask` and `NoThread` are no task and no thread, the bounds are naturals. `SubmittedOnce`: a task
object is passed to `enqueue` once. TLC evaluates them, and those below, in the runs.

The other proof modules state the invariants that the runs check for every value of the constants, so that the
bounds of the table above (numbers of threads, names, calls, sizes, depths) are no limit for them.
`ClientsProofs`, `DiskProofs`, `FilesProofs`, `SystemProofs` and `StreamsProofs` are about the modules that put
components side by side, in which a step of the whole is a step of a component or leaves its variables alone.

| Module | Theorem (property) | The inductive invariant, and why it is needed |
|---|---|---|
| `ClientsProofs` | `CurlReady` (`InitBeforeUse`) | the flag implies a finished initialisation |
| | `Released` (`ConnectionsReleased`) | `DatabaseInv`: the properties themselves, with what a release that threw may have left, counters that are naturals and the values a pointer can have |
| | `OwnHeaders`, `AllGivenBack`, `WholeBody` (`HeadersOfThisCall`, `OnlyCookiesHeld`, `BodyReceived`) | `WebInv`: the header list is empty outside a transfer and complete in one, since a call appends to what is there; which calls have a form; a list of cookies comes with a cookie (`ListsHold`); a sink holds what it had before and then the pieces that landed, all chunks unless something failed. That the headers of a map are a sequence (`EntriesSeq`) comes from the cardinality of the set of keys |
| | `ResultsAreRows` (`ResultIsRows`) | the property itself is inductive: the last query's text is set with its rows. What it rests on is `ResultText`: the two folds, over the cells of a row and over the rows, with the last comma erased after each, give the array, for every number of either |
| `DiskProofs` | `DocumentsKept` (`OwnDocument`) | `JsonInv`: documents are functions on sets of fields, so that filling in nulls for what was looked at commutes with writing a field (`StoreFills`) and takes one more null for one more look (`AccessFills`) |
| | `Once` (`ReportedOnce`) | `WatchInv`: a file that was reported and exists is in the list. Erasing takes out one entry and keeps all others, for every position (`RemoveAtKeeps`) |
| | `OldLogsGone` (`OnlyTodayLeft`), for one caller | `LogInv`: the list that a cleanup works through holds every log that has to go |
| | `OverlapsOnly` (`OnlyOverlapsLost`) | `IniInv`: as long as nothing was mixed, every text, in the file or held by a deletion, has a section and a key in it once (`Regular`); at most one program has the file open, and then it is empty; every entry of the file, and of the text that a deletion of another section is about to write, has a value that it could have, and these values only become more while somebody deletes (`GiveTells`) |
| `FilesProofs` | `Kept` (`FilesKept`), for one writer and any readers | `FilesInv`: a `Move` has left the source alone or has put it under the new name, at every step where it may be killed. Other callers do not disturb this because they only read (`OthersQuiet`) |
| | `Exact` (`DirectoriesExact`) | `DeleteInv`. For `Create`, `TreeInv`: the levels that were handled are directories, or a file is in the way; only directories come and nothing goes while `Create` is not disturbed (`Grows`). For `Delete`, `Standing`: what is above an entry is a directory. What the recursion over the tree removes is given by a closed form (`Clear`, `ClearedSolves`) that is the only solution of its equation (`OneSolution`, by the longest path on which two solutions differ) |
| `SystemProofs` | `Registered` (`EnabledRegistered`) | `BootInv`: a call in progress has a program |
| | `Owned` (`HandlesOwned`) | `SocketInv`: an object with a handle of the library keeps it started, and the flag is set only while it is or a `Cleanup` is half way |
| | `Counted` (`WriteCounted`) | `WriteInv`: what the other side has is as long as the count, and is the buffer unless a send was split |
| | `Invoked` (`InvokedOnce`) | `FuncInv`: of the functions that stayed in the map, those up to the iterator have run once and those after it have not; the next one is the least that is greater (`Least`, by well-foundedness) |
| | `Released` (`DevicesReleased`) | `DeviceInv`: before each step a function holds what earlier calls have left and what the table `InHand` says, as far as the steps did not fail (`Holds`) |
| | `NamesRight` (`NamesAgree`) | `PathInv`: a finished call has the results of its name. What they are rests on the places of the last separator and the last dot: normalising keeps them (`NormalisedIs`), and the cuts are at them (`CutIs`) |
| | `TextRight` (`TextAgrees`) | `TextInv`. `TrimInv`: what is left lies in the text between spaces (`Core`). `SplitInv`: the parts and the rest, joined again, are the text; this rests on how the fold of `Join` takes one part more (`JoinAppend`). `CountInv`: what was counted and the places still ahead are all places, as a text without two equal characters cannot overlap itself (`FoundNext`). `ReplaceInv`: the search is where it would begin again, and each replacement takes away one place and makes none (`ReplacedOne`, by a bijection between the places behind the replacement before and after) |
| `RegeditProofs` | `Truthful` (`ResultTruthful`), `OnlyBelow` (`OnlyBelowDeleted`) | `RegeditInv`: every key has its parents; the buffer begins with the argument, and the calls on the stack are for keys each one longer than the last (`BufferInv`); without interference the keys of these calls exist and a failed call has left a key that refuses (`FailInv`) |
| `StreamsProofs` | `InOrder` (`ChunksInOrder`) | `ReaderInv`: what was read is the beginning of the file up to the stream position, and the position is what was counted |
| | `Inflated` (`InflateExact`) | `InflateInv`: the caller and the window together have the first p bytes of the text, and the k-th byte before the write pointer is in its place for every k up to the size of the window; `SymbolInv` and `CallInv` say how much of a match is still to be copied when a call ends. `inflate_fast` and the copy of a match put the same run of bytes as a byte-by-byte copy does (`CopiedIsRun`) |
| | `Digested` (`DigestOfMessage`) | `Md5Inv`: the blocks transformed and the bytes buffered are the message (`Content`), and the two words of the count are its length in bits, by uniqueness of quotient and remainder |
| | `Unzips` (`ItemsDelivered`) | `ItemsInv`: a cursor at the last item that has its place is about that item, also after a search that failed (`LastRight`); the open item is the one that the cursor stands at if the cursor is about it, or may come to be without the item being closed (`OpenRight`); and of an item that is not encrypted as many bytes are left as the count says (`Open`). Different items have different places (`PlacesDiffer`); the walk through the directory ends at the item or at a cursor that failed (`GoToIs`), the loop that writes a file at the end of the item (`CopiedIs`) |

Loops that the modules write as recursive functions in a `LET`, and folds, are unfolded like this: the table of
their values is shown to exist by extending it one argument at a time, and its values to have a property by the
same walk, with `Upto`: a set that has 0, and has k when it has k - 1, has all numbers up to n. This is induction
over a set of numbers, from well-foundedness (`Least`), and needs no theorem with an operator as parameter.

What they assume. Of constants: `WebClientAssumption` (header names are numbers, `NoValue` is no value, the bound on cookies is a natural),
`ScalarAssumption` (a JSON text that is no object is no document with fields), `FilesAssumption` (there is a
name; `None` is no content and no result), `PathsAssumption` (the set of paths has with a path those above it,
and none is longer than `MaxDepth`), `SystemAssumption` (a buffer's size is a natural, `None` is no handle,
addresses are positive numbers), `NamesAssumption` (a dot is no separator), `TextAssumption` (no text is so long
that the bound on the count cuts it off), `RegeditAssumption` (names are numbers, so that paths are sequences of
one type), `ReaderAssumption` and `InflateAssumption` (sizes are numbers, a match has some bytes and the window
room for one), `Md5Assumption` (words and blocks consist of whole bytes, and the length field fits into a
block), `ItemsAssumption` (an entry of the central directory and the encryption header take some bytes, lengths
fit into a double word). As hypotheses of the theorem: `OneCaller` of `OldLogsGone` and `OneWriter` of `Kept`
are the conditions under which the properties hold at all and which the configurations have too (`log_midnight`
shows what two callers do).

Only model-checked:

- all liveness properties (`EveryFutureResolves`, `DestructorReturns`, `EventuallyTracked`, `CallsReturn`):
  fairness and `ENABLED` are outside the prover.
- `CodecsAgree` and `TimesAgree`: the definitions that the codecs are compared with go through the bits of all
  bytes, and the format of the time replaces seven tokens one after the other, each in a text that the earlier
  ones have changed.
- `DeflateExact`: that a match which was put off is still right after the window has slid rests on every chain of
  equal hash keys, and that the third byte need not be compared on the shape of the hash.
- `BlockExact`: that the codes of both sides agree is a theorem about heaps and canonical codes.
- `ArchiveComplete`: a fold over chunks inside a fold over writes, for every cell of the archive.

## Not modelled

`TString.hpp` is commented out, `Json.hpp` includes jsoncpp, `main.cpp` is an example. libcurl, jsoncpp, the
MySQL and Oracle clients and libqrencode are in the repository as headers and binaries: some 75,000 of the
87,000 lines under `include/` are their declarations, which have no behaviour to model. The map therefore
covers a small share of all lines and most of those with code of the repository's own headers and of
`include/zip`. Functions that are one call of the system (code pages, queries of processes and windows, clock
conversions) have no state to check.

Left out of modelled components: the rounds of MD5 and its hexadecimal output, SQL texts and character sets,
sizes of character buffers in `ConfigIni` and `Regedit`, number parsing, drawing and paper sizes. In the zip
sources: `deflate_fast` (`TZip` always works at level 8), the bits of stored blocks and of the fixed trees,
compressed data that is damaged (`IBM_BAD`), CRC values (a wrong one is computed and ignored when an item is
closed), what the compressor's buffer does after a flush that failed, dates and attributes, negative indices, `FindZipItem` with a null entry, `SetUnzipBaseDir` and `EnsureDirectory`.

## Plan

The pool came first, as the only component with threads of its own; then the objects with resources and
failures (MD5, HTTP, databases), then those that share the disk or the registry with others, the pure
functions and the sockets; then the configuration files, devices and the zip sources. Still to do:

1. Proofs of the invariants that are only model-checked, `ArchiveComplete` first: as long as no write fell short,
   the cells up to `pos` are the entries that `zfis` keeps, one behind the other.
2. Stored blocks and fixed trees in `ZipTrees`, with the choice between the three kinds in `flush_block`.
3. Damaged compressed data in `Inflate`: that every call returns and nothing is written outside the window.
