# mod_aspdotnet: a TLA+ model

mod_aspdotnet lets Apache httpd on Windows serve ASP.NET applications.  This
directory holds TLA+ modules that model its own logic, TLC configurations that
check them on small instances, and TLAPS proofs of the main results.  Paths are
relative to `src/`; line numbers are those of the files there.

## 1. The system

A process of httpd loads `mod_aspdotnet.so`.  The module starts the .NET
runtime inside the process through COM and creates one managed object, the
`HostFactory`.  For every `AspNetMount` directive the factory creates an
ASP.NET application, a `Host` in an application domain of its own.  A worker
thread of httpd with a request for the `asp.net` handler finds the mount of its
URI, calls the factory with the mount's `host_key`, and the factory calls
`Host::HandleRequest` across the domain boundary, which wraps the
`request_rec` in a `WorkerRequest` and gives it to ASP.NET.  An MSI package
with two custom actions of its own installs all this.

| Component | Source | State | Operations |
|---|---|---|---|
| HostFactory | `Apache.Web/HostFactory.h` | `hostURI`, `hostDir`, `hostObj`, `hostSvr`, indexed by host key; its Monitor; `utf8_encoding` | `CreateHost`, `ConnectHost`, `HandleHostRequest`, `HostFinalized`, `Destroy` |
| Host | `Apache.Web/Host.h` | virtual and physical path, key, factory | `Configure`, `HandleRequest`, `MapPath`, destructor |
| Request, its life | `Apache.Web/WorkerRequest.{h,cpp}` | `body_sent`, `wait_complete`, `rr->status`, the output brigade | `Handler`, `SendStatus`, the sends, `FlushResponse`, `EndOfRequest` |
| Request, its body | same | `seen_eos`, `bytes_read`, the buffer being filled | the preread in `Handler`, `ReadEntityBody` |
| Request, files | same | the handle, the brigade | `SendResponseFromFile` (three overloads) |
| Request, headers | same, `http_header_arrays.h` | three tables, the cached strings | the constructor, lookups, `Send*ResponseHeader` |
| Mounts | `mod/mod_aspdotnet.cpp` | `global_conf->hosts`, the aliases of each server | `AspNetMount`, `post_config`, merge, the handler |
| AspNet directive | same | `enable` of each section | `AspNet`, create, merge, the handler's test |
| Engine | same | `pCorRuntime`, `pHostFactory`, COM references, `cor_version` | `AspNetVersion`, `init_asp_engine`, `asp_net_stop` |
| Installer, search | `msi_dll/quicksearch.c` | one shared path buffer | `drsearch`, `volsearch` |
| Installer, actions | `msi_dll/resolve_apache.c` | the ComboBox table, `INSTALLDIR`, `_BadPath` | `ResolveApacheInstances`, `VerifyApachePath` |

How they interact, and what is hard about it:

* **Worker threads and the factory.**  `HandleHostRequest` reads `hostObj`
  without a lock, calls the host, and takes the Monitor only to recover from a
  host that is gone.  ASP.NET may unload an application at any moment; the
  destructor of a `Host` calls back `HostFinalized` on another thread; the main
  thread runs `Destroy`, again without a lock, while requests may be under way.
  What must hold: the Monitor is released on every path; a request only ever
  runs in the application of its own mount; the recovery of one thread does not
  undo another's; a dead host is not met again; every request is answered.
* **The httpd thread and the pipeline.**  ASP.NET may finish a request on
  another thread after `ProcessRequest` has returned; `Handler` waits for it.
  What must hold: httpd gets the request back only when the pipeline has let go
  of it; the client gets one response; what was sent before an exception keeps
  its status; no wakeup is lost.
* **Passes of the configuration.**  httpd reads its configuration twice at
  start-up and again on each restart, in one process.  Aliases are made anew,
  hosts and their keys live on.  What must hold: keys keep identifying their
  hosts, nothing is created twice, a request reaches only what the configuration
  in force mounts.
* **Buckets.**  Bodies and files travel in brigades of buckets of any shape,
  with sizes that meet limits (8192, 49152, 2^24, 2^32).
* **Partial failure.**  Starting the engine is a chain of COM calls each of
  which may fail; the installer talks to a database that may refuse.
* **Shared buffers.**  All levels of the installer's recursive search write to
  one `MAX_PATH` buffer.

`PROJECT.json` lists the places where each of these bites under `hazards`.

## 2. The modules

| Module | Models | Composition |
|---|---|---|
| `RequestService` | what `IApacheWebHostFactory` promises the module | abstract |
| `HostFactory` | `HostFactory.h`, and when a `Host` is created, called, lost, disposed | implements `RequestService` |
| `MCHostFactory` | symmetry of threads and hosts | extends `HostFactory` |
| `HostFactoryProofs` | theorems, the refinement of `RequestService` among them | extends `HostFactory` |
| `WorkerRequest` | `Handler` and the pipeline, two threads on one request | |
| `WorkerRequestProofs` | theorems | extends `WorkerRequest` |
| `FileBuckets` | `SendResponseFromFile`, bucket by bucket | |
| `FileResponse` | a request one of whose sends is a file | extends `WorkerRequest`, instantiates `FileBuckets`, implements `WorkerRequest` again |
| `FileResponseProofs` | theorems, the refinement of `WorkerRequest` among them | extends `FileResponse`, instantiates `WorkerRequestProofs` |
| `EntityBody` | the request body | |
| `EntityBodyProofs` | theorems | extends `EntityBody` |
| `Headers` | request and response headers | |
| `HostPaths` | `Host::Configure`, `MapPath`, `GetFilePath` | |
| `RequestData`, `MCRequestData` | what a `WorkerRequest` knows of its request | extends `Headers`, instantiates `HostPaths` |
| `RequestDataProofs` | theorems | extends `RequestData` |
| `ModConfig` | mounts over configuration passes, and the handler that looks them up | |
| `EngineInit` | engine start and stop | |
| `ModPasses`, `MCModPasses` | one httpd process: `post_config` starts the engine, then creates the hosts | extends `ModConfig` and `EngineInit`, implements both |
| `ModPassesProofs` | theorems about the two parts and the process | extends `ModPasses` |
| `DirConf` | the `AspNet` directive | |
| `DirConfProofs` | theorems | extends `DirConf` |
| `DriveSearch` | `quicksearch.c` | |
| `Installer`, `MCInstaller` | `resolve_apache.c` | extends `DriveSearch`: the search runs inside `ResolveApacheInstances`, each hit calls `cbResolver` |
| `InstallerProofs` | theorems | extends `Installer` |

### HostFactory

`hostObj` is the list of that name; `lists` and `utf8_encoding` say whether
`Destroy` has dropped the lists and the encoding (a log call without the
encoding throws, and some of them stand outside any `try`).  `pc[t]` is the
place of thread `t` in `HandleHostRequest`:

| `pc` | Code | Actions |
|---|---|---|
| `lookup` | :200, the read of `hostObj[HostKey]` | `Lookup` |
| `call` | :204, the first try | `CallReturns`, `CallRemotingException`, `CallException` |
| `restart` | the log line outside any `try` | `Restart` |
| `enter` | `Monitor::Enter` | `EnterMonitor` |
| `locked` | `tryobj`, compare, empty the slot | `Recheck` |
| `create`, `configure` | `ConnectHost` | `CreateApplicationHost`, `..Null`, `..Throws`, `Configure`, `ConfigureThrows` |
| `query` | the read back of `hostObj` | `QueryHost` |
| `exit` | `Monitor::Exit` | `ExitMonitor` |
| `retry` | :296, the second try | `CallReturns`, `CallException` |

Publication and `Configure` of a new host are two actions, because a thread that
reads the slot between them calls a host that is not configured yet.  The world
outside is `LoseHost` (unload), `Collect` (garbage collection) and `Dispose`
(a destructor runs).  `HostFinalizedThrows` keeps the Monitor: the code has no
`finally` there and `~Host` swallows the exception.  The Monitor counts its
owner's calls, so the same thread may enter again later, and its `Exit` then does
not set it free (`DisposerStuck`).

### WorkerRequest

`hpc` is where `Handler` is, `pipe` where the ASP.NET pipeline is.  `wire` holds
the buckets the output filters accepted, `committed` the status line that went
ahead of them.  `Finalize` is httpd's part: what `ap_finalize_request_protocol`
or `ap_die` does with the value `Handler` returned.

A send is two steps: the brigade is passed on, then `body_sent = 1` (`MarkSent`;
between them `pipe` is "marking").  So is the exception handler: it tests
`body_sent`, then sets the status (`Set500`; between them `hpc` is "catch").
`ProcessRequest` may throw at any moment, wherever the pipeline is.  A
pipeline whose thread the exception has ended makes no more steps, which the
safety properties allow for.

### FileResponse

`WorkerRequest` has two actions for a send; `FileResponse` puts the steps of
`FileBuckets` in their place.  While the pipeline is inside
`SendResponseFromFile` the handler's thread goes on, and `body_sent` is set
only after the brigade was passed on.  The refinement mapping shows the pipeline
as "marking" while `pc = "close"`; every other variable, `body_sent` among them,
is its own image, so the handler tests the same flag in both.
What the filters have set aside is written when the next brigade reaches them
(`Filters`), which may be one of the application's or the one httpd ends with.

### ModConfig, EngineInit, ModPasses

A host is a pair of virtual and physical path, as in the key of
`global_conf->hosts`.  `table` is `hostURI`/`hostDir` of the factory.
`written` is a history variable for the properties.  The hash table of aliases
is walked in any order.  `Merge` is what `merge_asp_net_srvconf` returns: the
overlay it computes is dropped.  `Merge` in `DirConf` does the same; there it
agrees with the documentation, which says that the most specific section wins.

`EngineInit` has an action for each COM call and one for its failure; `refs`
counts the references, `step` is the place reached in `post_config`.
`ModConfig` starts the engine in one action.  `ModPasses` interleaves the two:
`EngineStep` is one COM call, and the pass goes on to the hosts when the engine
serves, or the process exits when an error is raised.

### Headers, HostPaths, RequestData

The value of a header is its place among those received or sent, which is all
the lookups and the table can tell apart.  The static arrays of
`http_header_arrays.h` are constants, so that the results do not depend on the
names in them, only on their being distinct.  An empty value throws at
`&avalue[0]` before anything is set.  Headers and paths share no state:
`RequestData` puts them one after the other as `Host::HandleRequest` does.

### EntityBody, FileBuckets, DirConf, Installer

These are written after the loops of the code, one action per turn of a loop or
per call that may fail.  In `EntityBody` byte `i` of the body is the number `i`;
in `FileBuckets` and in the brigades of `EntityBody` a bucket is a range, as in
httpd.  A cast to `apr_size_t` is a remainder.

In `DirConf` an integer of flags is the set of its bits and the flags are the
values the compiler gives them: `2 ^ n` is an exclusive or in C.  A directive is
read word by word, as the loop of `set_aspnet_enable` does, and for a request
httpd merges the sections one by one.  `Merge` is what `merge_asp_net_dirconf`
returns.  `Enables` says without the loop and without flags what a directive
turns on; the properties compare the two.

In `DriveSearch` a tree is a set of paths from the root of a drive, each name
with its backslash, and the stack holds for each call of `volsearch` its
`pathlen`, its depth and the entries it has not visited.  The buffer is a
function that grows where it is written, so that an overrun shows.

## 3. The runs

| Run | Question | What it shows |
|---|---|---|
| `factory` | two threads, two mounts, three hosts, everything that can be lost | the Monitor is released on every path but `HostFinalized`'s; one `ConnectHost` at a time; requests stay in their application; a host without paths is one about to be configured; a thread that met a dead host has evicted it; live hosts keep their slots; `RequestService` is implemented |
| `factory_liveness` | the same, no `Host` disposed, fair | every request is answered |
| `retry` | does a request whose host is lost get a new one? | no: see the findings |
| `response` | one request, both threads, an exception at any moment, one of the sends a file with ranges at the limits | no early return, one response, no lost wakeup; `Handler` and httpd leave a status that is on the wire alone, but for the window described below; the range is covered once and in order; no read after close; a file looks to the rest like any other send |
| `entity_body` | five bytes in every brigade | nothing out of bounds, nothing lost silently, `seen_eos` never too early, counts right, calls return |
| `request_data` | all short paths, all short lists of headers | what is inside an application maps below its directory, and back; every header received is found, every header sent arrives |
| `outside` | does a path outside the application map to nothing? | no: see the findings |
| `module` | three passes, two servers, four mounts, any call of the start failing | keys identify, one creation, only what is mounted is served; no reference released twice, none forgotten but `pObjHandle`; requests only with a configured engine; the process implements `ModConfig` |
| `version` | does `AspNetVersion` choose the runtime? | no: see the findings |
| `dirconf` | three nested sections, with and without directives, two options each, some read twice | the most specific directive decides; None disables; named types are served |
| `dirconf_directories` | are directories ever served? | no: see the findings |
| `installer` | search and dialog together | the buffer is never overrun, prefixes survive deeper levels, every installation in reach is reported once, `_BadPath` tells |

Every property of a passing run has a mutant in `PROJECT.json`: a plausible
mistake in one definition that the property catches.

### Bounds, and why they are enough

* `factory`: two threads are enough for every race in the code, which compares
  one thread's `obj` with a slot that one other actor may have changed; the
  disposer and the main thread are actors of their own.  Three hosts allow the
  lost one, its successor and the host of the other mount to exist together;
  `Collect` lets names be used again, so the number of hosts over time is not
  bounded.  Two mounts tell a wrong key from a right one.  Threads and hosts are
  symmetric; the liveness run uses no symmetry, one mount and two hosts.
* `response`: two sends allow a file before or after memory, and a flush behind
  both; two codes besides 200 and 500 allow a change of status.  The limit
  `AP_MAX_SENDFILE` is 3 and `apr_size_t` has 8 values: lengths from 0 to 9 pass
  each multiple of the one and the wrap of the other; the file of the request is
  below, at and above the limit.  One file in a request: a second one would meet
  the filters in the state any brigade leaves them in.
* `entity_body`: `PREREAD` and `HUGE_STRING_LEN` are 2 and buffers hold up to
  3 bytes, so that the body of 5 needs several turns of the loop, several calls
  and both limits; the filters may exceed what was asked for by one byte, which
  is the smallest overflow.
* `request_data`: paths of up to 4 characters, one more than the longest virtual
  path and its slash, over both slashes, two cases and another letter; three
  headers received, so that one may occur twice around another, and two sent, a
  value and what replaces it; names known to the request, to the response, to
  both and to neither, and each in two cases.
* `module`: three passes are the two of a start and a restart; two mounts
  in each make an order of hosts, a change between passes, and `/a` and `/aB`
  prefixes of one another.  Each failure of a COM call is a branch of its own.
* `dirconf`: three sections put one without a directive before, between or after
  two that have one; two options show that order matters.
* `installer`: depth 2, a drive that is searched and one that is not, and a tree
  with a path that fits exactly, one that is one character too long and one that
  is too deep; every placement of the file.

### Fairness

* `HostFactory!Fairness`: a worker thread that can go on does (weak fairness of
  `RequestStep` and `ConnectHost`: every call of .NET the code makes returns or
  throws); a thread that waits for the Monitor gets it if it is released again
  and again (strong fairness of `EnterMonitor`: .NET monitors have a queue); a
  destructor that has the Monitor ends.  New requests, losses and disposals are
  not fair.
* `FileResponse!CallSpec`, and `WorkerRequest!FairSpec` which it is shown to
  implement: both threads go on, the steps of a file send end (they are loops
  over a finite range and calls that return), and the application ends its
  request at some time, an exception of `ProcessRequest` notwithstanding (weak
  fairness of `PipelineProceeds`): that is ASP.NET's contract, and `Handler`
  waits without a timeout because of it.
* `EntityBody!FairSpec`: reads return, with data or an error.  ASP.NET need not
  ask again.

`CHECK_DEADLOCK FALSE` is in every configuration because each of these systems
may stop: the process ends, the request is over, the dialog is closed, or a
bound is used up.

### Where a property is narrower than one would like

The model has these behaviours; the properties leave them out, on purpose:

* `RequestAnswered` is checked with `HostsDisposed = FALSE`.  Where a `Host` is
  disposed after its domain has gone, `HostFinalized` (HostFactory.h:157)
  throws with the Monitor taken, and every later recovery waits for ever.
  Nothing in the repository disposes a `Host` itself.
* `HandlerReturns` is stated from the moment the pipeline has the request.  Where
  `ProcessRequest` throws before that, `Handler` (WorkerRequest.cpp:558) waits
  for an `EndOfRequest` nobody will call; and so it does where an exception
  ends the pipeline's thread, which fairness excludes.
* `StatusKept` and `FileStatusKept` have the exception that the code has.  An
  exception that meets a send between `ap_pass_brigade` and `body_sent = 1`
  (WorkerRequest.cpp:250, :338, and :192 for the flush) finds the body unsent
  and sets the status to 500 behind a status line that is already on the wire;
  so does one that tested `body_sent` just before the send.  The client then sees
  one status and the log another.  `Handler` still returns OK, because it looks
  at the flag again when the pipeline has ended, so no error response follows
  (`OneResponse`).  `SendStatus` sets the status whenever it is called
  (WorkerRequest.h:541), also behind content; `HeadersSent` is there to tell
  ASP.NET not to.
* `LiveHostKept` has two exceptions: the destructor, and a thread that had found
  the slot empty and creates a host although another thread has put one there
  (HostFactory.h:254 tests `obj`, not the slot).  The application is then
  created twice, which `docs/introduction.html:153` does not expect.
* `CountsMatch` excepts a preread that failed in a bucket.
* `RangeSent` excepts lengths of 2^32 and more where the file of the request is
  small: the split depends on `rr->finfo.size` (WorkerRequest.cpp:290), whatever
  file is sent.
* `InsideMapsBelow` and `RoundTrip` are about absolute paths inside the
  application.  `MapPath` accepts `/abc` for an application at `/a` (Host.h:160,
  a prefix without a boundary), and takes the length of the virtual path off
  relative paths (:182).
* `TransientsReleased` excepts `pObjHandle`, which nothing releases
  (mod_aspdotnet.cpp:512).
* `BadPathTells` knows that the longest path the search itself can report is
  refused: the test leaves room for a backslash that the path may already have
  (resolve_apache.c:154).
* `HeadersSentArrive` says "the value sent last", which is what
  `apr_table_setn` does: a second `Set-Cookie` replaces the first
  (WorkerRequest.h:576).

### What is left to the callers

The code does not test these; the models take them as given:

* ASP.NET sends nothing after the final flush (`Unfinished` in `WorkerRequest`);
  the half of `OneResponse` that nothing follows the end rests on it.  It makes
  finitely many sends, and `EndOfRequest` is its last call.
* The `size` ASP.NET passes to `ReadEntityBody` is at most `buffer->Length`
  (WorkerRequest.cpp:421 tests the one, :434 bounds the copy by the other).
  `EntityBody` takes them to be equal, the worst case.
* `SendUnknownResponseHeader` gets names that have no index, and never an empty
  one (WorkerRequest.h:600 would throw).
* `INSTALLDIR` is not empty when `VerifyApachePath` is called: with length 0
  `str[len - 1]` (resolve_apache.c:161) reads in front of the array.
  `MsiGetProperty` (:153) fails only for a path that does not fit.
* `FindFirstFileEx` lists every path the test at quicksearch.c:62 admits: Windows
  itself refuses paths of `MAX_PATH` characters, so of the directories
  `FoundExactly` speaks of it may not list those at the very limit.  A directory
  that may not be listed (:52) is a directory without subdirectories in `Tree`.

### Findings

Four runs expect a violation, of something the repository says of itself:

* `retry`: HostFactory.h:207 says that a lost host is to be recreated.  At :249
  `obj = tryobj` assigns `obj` what it already holds, so the test for `nullptr`
  fails, no host is created, and the second try is made on the lost host.  The
  next request of the mount creates it.
* `dirconf_directories`: `ASPNET_DIRS` is `2 ^ 2`, which is 0 in C; `AspNet
  Directories`, and even `AspNet All`, never let a directory be served
  (mod_aspdotnet.cpp:199 against docs/mod_aspdotnet.html:139).
* `version`: `init_clr4_runtime` asks for v4.0.30319 and `init_clr2_runtime`
  for v2.0.50727 (mod_aspdotnet.cpp:343, :372); neither reads the version that
  `AspNetVersion` set, which `init_runtime_version` (:331) overwrites
  (docs/mod_aspdotnet.html:187, "Force a specific .NET Framework version to be
  loaded").
* `outside`: `MapPath` compares a prefix without a boundary (Host.h:160), so
  that `/ab` is taken to be inside the application `/a`, against the comment
  that a path outside maps to nothing.

Other departures met while modelling, which are in the models without a run:
`SetEndOfSendNotification` stores no callback (WorkerRequest.h:140); a failed
send does not end the request (WorkerRequest.cpp:253, its code is commented
out); without an `AspNet` directive `ASPNET_UNSET` is `2 ^ 0 = 2`, which shares a
bit with `ASPNET_FILES`, so that files are served where the documentation says
"Default: AspNet None" (mod_aspdotnet.cpp:197); `ASPNET_FILES` and
`ASPNET_VIRTUAL` share a bit, so that `AspNet Virtual` lets files through as
well, and the reverse (mod_aspdotnet.cpp:198, :200); a failed bind of the runtime
is not tested before `Start` is called (:433); rows inserted by `tryAddPath`
collide with the first row of the search (resolve_apache.c:109 and :137).

## 4. The proofs

All theorems are checked by TLAPS with no step left out, for any number of
threads, mounts, hosts, passes, sends and nested sections, for bodies, files,
buffers, trees and limits of any size, and for any sets of paths and statuses,
from the named assumptions on the constants alone (`ConstantsAssumption`,
`ConfigAssumption`, `NoDirAssumption`, `VersionsAssumption`, `HeadersAssumption`,
`PathsAssumption`, `SizesAssumption`, `BoundsAssumption`, `SearchAssumption`,
`TreeAssumption`), which TLC evaluates in the runs.  In each module one
invariant is shown to be inductive with a lemma for each action that matters to
it, and the properties follow from it.

**HostFactoryProofs.**  `IInv` of `HostFactory` is inductive.  The properties
alone are not: that a second try never runs in another application, and that a
dead host is evicted, depend on what `obj` and `newHost` may hold in each part
of `HandleHostRequest` (`ObjDiscipline`, `NewHostDiscipline`); that the slot of a
thread between publication and `Configure` is its own host or empty
(`SlotDiscipline`), because the Monitor is held; and that worker threads run only
when every `CreateHost` is over (`StartupDiscipline`), which is why
`CreateHost` can do without the lock.
`MonitorIsReleased`, `ConnectIsExclusive`, `RequestsReachTheirOwnApplication`,
`DeadHostsAreEvicted` and `TypeCorrect` follow.

`FactoryImplementsService`: the refinement mapping
takes the pending threads, the key of each, the answers, and the mounts with an
application that is alive.  Every action is silent, ends one request or starts
one; the answer "served" needs an application of the request's own mount, which
`OwnApplication` gives.  `LiveHostsAreKept` is an action property from the same
invariant, for the actions that change a slot.
`UnconfiguredHostsAreTransient` rests on `Keeps`: every step but a creation and
a collection puts no new host into use, forgets none, and leaves `ConnectHost`
only with its host configured or gone.

**WorkerRequestProofs.**  `IInv` adds `Handover` (the event is set only by a
pipeline that has ended; `Handler` returns something other than OK only where
nothing was sent) and `WireDiscipline` (nothing is on the wire before
`body_sent` is set, but in the call that is about to set it; the end only after
the final flush).  From these `RequestOutlivesPipeline` and `OneResponse` are
preserved.  `StatusIsKept` is an action property from the same invariant:
`body_sent`, which the code sets on every path of a send, is what makes
`Handler` keep its hands off the status, and `WireDiscipline` says in which
state alone an exception can miss it.

**FileResponseProofs.**  `FileInv` follows the brigade of a file while it is
built: its buckets lie end to end, each but the last is `AP_MAX_SENDFILE` long,
and together with what `fsize` still counts they make up the range
(`SplitInv`, `TailInv`).  `RangesAreSent` is that invariant when the filters have
written the buckets; `NoBucketIsReadAfterClose` holds because the brigade ends
with a flush bucket, so the filters have set nothing aside when the stream is
closed.  `FilesAreSends`: a step of `FileBuckets` is a stutter of
`WorkerRequest`, passing the brigade on is its send, closing the file its
`MarkSent`; the window between the two, in which the handler's thread goes on, is
the window of `WorkerRequest` (`CallInv` says what the pipeline may be doing in
the call).  So the theorems of `WorkerRequestProofs` are carried over, and the
last four theorems state them of the composition.

**EntityBodyProofs.**  `BodyInv` ties the position in the body to the brigade and
the buffer: the buckets not yet taken are the bytes from there on, in order
(`Chain`); the buffer and the room left in it make up its size (`BufferInv`); and
as long as nothing was noted in the log, what ASP.NET was given and what is in the
buffer are the bytes before (`ContentInv`).  `CopiesStayInTheBuffer`,
`NothingIsLostSilently`, `EntireIsEntire` and `BytesAreCounted` follow.  No
induction on the length of a brigade is needed: the code looks at its first bucket
only, a chain without its first bucket is a chain, and the length of a chain is
the difference of two positions.

**RequestDataProofs.**  `LastHeadersArrive`: Content-Type never gets into
`headers_out`, because it has an index and the names of the array are distinct;
every other send replaces the entry of its own name alone.  `HeadersAreFound`:
`ReadInv` says that the array of known headers holds for each index the last of
its headers read, and the list of unknown ones all others in order, by their
lower-case names.  `InsideStaysInside` and `PathsRoundTrip`: the
physical path is a prefix of every file below it and the rest is as
long as the rest of the URI, with its slashes turned one way and back.

**ModPassesProofs.**  For the mounts `IInv` adds that the lists and the keys are
inverse (`TableKeyed`, until a creation fails and httpd exits), that an alias
leads to a recorded host of this pass (`AliasesRecorded`), and that what the loop
of `post_config` has visited is created (`LoopProgress`).  With them a request
never carries the key -1.  For the engine `EngineInv` says, for each interface, at
which points of the start it is held (`TransientsHeld`), that the two pointers are
references until `asp_net_stop` has run (`PointersHeld`), how far the start has
come (`Progress`), and that the cleanup is registered once, before there is
anything to release (`CleanupRegistered`).  `Progress` is what makes a later pass
safe: one begins with a complete engine or with none.

The process implements `EngineInit` step by step.  With
`EngineInv` and `Link` (where the engine is, seen from the pass) it implements
`ModConfig`: a COM call is a stutter, the last one is `StartEngine`, a failure is
`StartEngineFails`, which is only possible without an engine.  So what was proved
of the two parts holds in the process (`ProcessIsSafe`).

**DirConfProofs.**  `Read` says that a dirconf has, after every word, the flags of
the options its words turn on (`Enables`, which has no loop), and `Walked` that
the flags merged so far are those of the innermost of the merged sections that
has a dirconf.  `InnermostDecides`, `NoneServesNothing` and `NamedIsServed`
follow: the dropped result of the merge does no harm, because httpd creates no
dirconf for a section without the directive.

**InstallerProofs.**  `SearchInv` is about the stack of `volsearch`: the paths of
its levels are directories of the tree, a deeper one is the longer one, and the
buffer begins with each of them, whatever a deeper level, the search for the file
or the callback has written behind (`Nested`, `LevelsInv`).  The test of
the loop leaves room for what the next level writes, so the buffer never grows
(`SearchStaysInBuffer`), and the path of a level is still there when the loop goes
on (`LevelsShareTheBuffer`).  `DialogInv` adds what `_BadPath` and `INSTALLDIR`
say of each other, and that what the search found does hold Apache; from it
`DialogRelies`.

`SearchFindsAll` says that the search reports every directory in reach that
holds the file, once each, and nothing else, whatever the order in which the
system returns the entries.  Its invariant `WalkInv` names the directory of each level
(`Walk`: the depth left over fits its place in the tree, and the directory of an
inner level is below an entry that the outer one has taken), which
determines what is still to be visited (`Ahead`, `Left`); `Reported` says that
what has been reported is what is in reach and is not still to be visited.  A
call takes its own directory out of what is ahead, and no other, because the
entries of a directory cover what is below it (`Cover`) and do not overlap
(`Disjoint`).  A call at the last level, and a name that does not fit, take out
more, and what they take out is too deep (`DeeperBelow`) or too long
(`TooLongBelow`) to be in reach.  `SearchAssumption` says for this that a drive
letter occurs once and that no directory is called "." or "..".

Only model-checked: the liveness properties (`RequestAnswered`,
`HandlerReturns`, `ReadReturns`) and the fairness in `ImplementsRequest`, which
are out of the prover's reach.

## 5. What is not modelled

* The server variables and the accessors of the URI, the query string, the
  protocol and the addresses: they read `request_rec` and change nothing.
* Log texts, except where a log call can throw.
* `Host`'s log bridges and the remoting lease, of which only "it may end" is kept.
* Resources, version numbers, build and documentation files: no state.
* The headers and import libraries of Apache under `apache2_4_include` and
  `apache2_4_lib`: vendored, 145 of the 195 files and 42,400 of the 45,700 lines
  of the repository.  They declare functions and contain none of the module's
  logic.  What the module uses of httpd and APR (`ap_get_brigade`,
  `ap_pass_brigade`, `apr_brigade_length`, the hash order) is external in
  `PROJECT.json`, modelled from its use.  Of the project's own code nearly every
  function with state is in a module; what is left is logging, string
  conversion, accessors and the self-tests of debug builds.

## 6. Plan

`ModPasses` composed with `HostFactory`: the keys a handler uses against the
slots the factory recovers.  `KeysIdentify` and `OwnApplication` already say
what each side relies on.
