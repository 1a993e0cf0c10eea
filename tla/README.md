# Bluefish, modelled

A TLA+ development of the concurrent core of *secure-share-fss*: the Windows
file-system filter driver "Bluefish" (`src/trunk/client/Bluefish`) and the parts of
its user-mode service (`src/trunk/client/BluefishService`) that the driver depends
on. The driver decrypts protected documents on the fly. It recognises a document by
its header when the file is opened, asks the service for the document's key, holds
the reads of the file back until the key has come, and then answers them decrypted
or, when there is no key, as they are stored.

Paths below are relative to `src/trunk/client/Bluefish` unless they say otherwise.

## 1. The system

| Part | State | Operations | Talks to |
|---|---|---|---|
| **Encrypted I/O queue** (`gingko_ioqueue.c`), one per open protected file | `MainThreadQueue` with its semaphore, `OutstandingIoCount`, four events, the flags `StopPending`, `ThreadExitRequested`, `SuspendPending`, `Suspended`, `ShouldPassthrough`, and `CryptoInfo` | Start, AddIrp, the main thread, HoldWhenIdle / ResumeFromHold, Stop | dispatch routines (AddIrp), key exchange (lists, `RequestKeyEvent`), close |
| **File-object list** (`gingko_impl.c:101-192`), one per driver | `gGingkoWriteFileListEntry` of `GINGKO_OBJECT`s, its spin lock | search, search and remove, remove all, insert (create path) | every dispatch routine, fast I/O, control device |
| **Key exchange**, driver side (`gingko_interact.c:95-272`) | request list, response list, two mutexes | GET_REQUEST, PUT_RESPONSE | queue, service |
| **Key exchange**, service side (`../BluefishService/GingkoCheapman.cpp`) | `ReadEvent`, threads, thread count | event loop, one thread per request | driver ioctls, key server |
| **Process table and permissions** (`gingko_interact.c:334-662`) | table of processes under decryption, crypto blocks and permissions per process | add, remove, update, find | create, write, process notification |
| **Control device** (`gingko_lib_fun.c:276-338`, `gingko_readwrite.c:1133-1340`) | state, started flag, count of opens, notification block, its reference count | open, close, ioctls, the gates of the dispatch routines | service, file-object list |
| **Create path** (`gingko_readwrite.c:40-186, 867-983`) | completion event of one create | create, completion routine | lower driver, list, queue |
| **Volume attachment** (`gingko_filter.c`, `gingko_lib_fun.c:349-1213`) | device extensions, attached stacks | attach, mount completion, notification, unload | I/O manager |
| **TDI filter** (`gingko_redfish.c`) | hash tables of addresses and connections | add, remove, find | TDI clients |
| **Cryptographic worker pool** (`../Common/EncryptionThreadPool.c`) | ring of work items, events | start, stop, key derivation, DoWork | read path |
| **Password table** of the service (`../BluefishService/GingkoServiceThread.cpp:315-650`) | linked list of passwords, exit flag | dialog, insert, find, find and remove | request threads, pipe threads, dialog process |
| **Service life cycle** (`../BluefishService/GingkoServiceDispatcher.cpp`) | service status, events | control handler | key exchange, control device |
| Ciphers, SQLite, TrueCrypt tools, shell tools, installer, COM stubs, Java key server | | | not modelled; see `PROJECT.json` |

### What is hard about it

* **Threads.** Dispatch routines run in the threads of arbitrary processes; each open
  document has a kernel thread of its own; the service calls in from several threads;
  the close of a file and the close of the control device may come at any time.
* **Almost no locks.** The queue rests on interlocked counters, events and flags, so
  the *order* of single accesses carries the correctness. The file-object list is
  searched without a lock: a walker takes each entry off while it looks at it.
* **A one-shot decision.** When the key event is set, the main thread decides
  between decryption and pass-through, and a queue never returns from pass-through.
* **Partial failure.** A queue that cannot be started stays listed; a request may be
  lost between the two lists; a service may disappear.
* **Ids without owners.** Rights and keys belong to process ids, which the system gives
  to other processes later; answers arrive when they like.
* **Lists without locks**, in the service as well: its threads, its pipe's threads and a
  dialog in another process meet in one linked list.
* **Pointers without owners.** A queue is freed at the close of its file, while
  entries of the key-exchange lists still name it.

The hazards, each at its line and with the properties that cover it, are in
`PROJECT.json`.

### What makes each part correct

* *Queue*: every pended IRP is answered once, in order, in one mode; the count counts;
  nobody sleeps over work or over an event that will not come; the queue is freed only
  when it is at rest; a granted key is used.
* *File-object list*: no entry is lost, duplicated or freed in use; a search finds what
  is tracked; every walk ends.
* *Key exchange*: every request is answered or withdrawn, none dangles, one queue's key
  never reaches another.
* *Process table*: the table is sound; a process that has read plaintext cannot write
  unless it was allowed to; rights and keys do not outlive the process that got them.
* *Control device*: the notification block is freed once and read only when filled; a
  service that has started is served until it stops or dies; nothing is left behind.
* *Password table*: a request gets the password that was typed for it; one process is
  not refused because of another; no thread waits for a password that will not come.
* *Worker pool*: each unit of a request is processed exactly once, and DoWork returns
  only after the last of them.

## 2. The modules

| Module | Role |
|---|---|
| `PendedIrpService` | what a file may expect of its queue: pend, answer, decide a mode |
| `EncryptedIoQueue` | one queue with everything that touches it; implements `PendedIrpService` |
| `MCEncryptedIoQueue` | its instances for TLC |
| `EncryptedIoQueue_proofs` | types, places of the IRPs, life cycle, freeing; key exchange, count, tokens, wake-ups, holds; the inductive invariant |
| `EncryptedIoQueueRefinement_proofs` | the refinement |
| `KeyExchange` | several queues, both key-exchange lists, the service's loop and request threads |
| `MCKeyExchange` | its instances for TLC |
| `KeyExchange_proofs` | its inductive invariant, and each of its safety properties |
| `FragmentRead` | how the main thread answers one read with decrypted bytes |
| `MCFragmentRead` | its instance for TLC |
| `FragmentRead_proofs` | its inductive invariant, for every layout of sectors and fragments |
| `FileRegistry` | what the dispatch routines may expect of the file-object list |
| `FileObjectList` | the lock-free walks over the list; implements `FileRegistry` |
| `MCFileObjectList` | its instances for TLC |
| `FileObjectList_proofs` | types, places, `EntryOnce`, the inductive invariant and the refinement |
| `ControlDevice` | the control device, the lives of the service, the notification block and the gates |
| `MCControlDevice` | its instance for TLC |
| `ControlDevice_proofs` | its inductive invariant, and each of its properties |
| `ProcessTable` | processes, their files, and the table that says what each id may do |
| `MCProcessTable` | its instance for TLC |
| `ProcessTable_proofs` | its inductive invariant, and each of its properties |
| `PasswordTable` | request threads, dialogs and the table in which they meet |
| `MCPasswordTable` | its instance for TLC |
| `PasswordTable_proofs` | what a walk over the list returns, its inductive invariant, and each of its properties |

`FragmentRead` is what `MainServe` of `EncryptedIoQueue` stands for when the queue is
not in pass-through: `EncryptedIoQueue` decides that an IRP is answered `plain`,
`FragmentRead` which bytes that answer has. The main thread is the only one that
touches the fragment buffer, so the two need no shared state.

`KeyExchange` widens the one place `keyPlace` of `EncryptedIoQueue` to the lists that
several queues share. `EncryptedIoQueue` lets its request be retrieved and answered at
any time, or never; `KeyExchange` says when the service does that, and when it does not.
What the answer does to the queue (`ResponderInstall`, the count, the event) is in
`EncryptedIoQueue` alone.

`ControlDevice` says when the service is there at all. Its close-down is the fault
`controlClose` of `EncryptedIoQueue` and the walk `RemoveAllFileObjectQueue` of
`FileObjectList`; its gates decide which creates and reads come to a queue.
`ProcessTable` is the other half of an answer: `ResponderInstall` of `EncryptedIoQueue` is
what it does to the queue, `RecordsPermission` what it does to the process.
`PasswordTable` is what a request thread of `KeyExchange` does between its start and
`PutsResponse` when this computer has protected the document.

Queue and list compose through one assumption. `EncryptedIoQueue` treats the
search for its object as one step that may fail at any time (`DispatchIrp` may pass the
IRP down, `CloseFindsObject` may find nothing); `FileObjectList` says when that can
happen and shows that it never happens to a call that nobody overlaps, except beside a
second object for the same file.

### EncryptedIoQueue

One action per access to shared state, grouped by thread. `PROJECT.json` maps each
definition to its lines.

| Thread | Actions | Code |
|---|---|---|
| create path | `Starter`: `TrackFileObject`, `StartQueue`, `StartMainThread` | `GingkoCreateCompleteRoutine`, `EncryptedIoQueueStart` |
| dispatch routine of each IRP | `Send(i)`, `Dispatcher(i)`: count, test `StopPending`, insert, release the semaphore, or refuse | `GingkoRead`, `GingkoCleanup`, `EncryptedIoQueueAddIrp` |
| main thread | `MainThread`: loop test, key wait, token, drain, suspension, serve, uncount, signal | `MainThreadProc`, `CompleteOriginalIrp` |
| service, GET_REQUEST | `Retriever` | `GingkoRetrievPublicKeyRequest` |
| service, PUT_RESPONSE | `Responder` | `GingkoPublicKeyResponse` |
| IRP_MJ_CLOSE | `Close`, `Stop` | `GingkoClose`, `EncryptedIoQueueStop`, `TCStopThreadBySemaphore` |
| control device close | `ControlClose`, `RemoveAll` | `GingkoCloseControlDevice`, `RemoveAllFileObjectQueue` |
| holder | `CallHold`, `Hold` | `EncryptedIoQueueHoldWhenIdle`, `..ResumeFromHold` |

Abstractions:

* An answer is `raw` (bytes as stored), `plain` (decrypted), `other` (an IRP or a status
  that carries no data), `notReady` (refused by AddIrp) or `passed` (handed to the lower
  driver).
* `noIoEvent` and `resumedEvent` are auto-reset, `keyEvent` is set for good, as the
  `KeInitializeEvent` calls say.
* Failures are the constant `Faults`; each names the call that can fail. A run without a
  fault explores the system in which that call succeeds.
* The queue is one; the two lists of the key exchange are reduced to the place of this
  queue's request (`keyPlace`). Several queues are the subject of `KeyExchange`.
* Freed memory: once `object = "freed"`, a step that would write to the queue has no
  effect or becomes `ResponderDangles`. The model thus shows that the code can come
  there; what the write would destroy is outside any model.
* Left out: which bytes a decrypted read returns (`FragmentRead`); `ProcessWrite`, which
  no IRP reaches, because no dispatch routine pends an IRP_MJ_WRITE; the failure of
  `ObReferenceObjectByHandle` in `TCStartThread`; `EncryptedIoQueueIsRunning`,
  `..IsSuspended` and `..Cleanup`, which read flags or have no caller. HoldWhenIdle and
  ResumeFromHold have no caller either; they are modelled as the queue's interface and
  explored in a run of their own (`HoldLimit` = 0 in the others).

### FileObjectList

`list` is the linked list, `held[t]` the entry a walker has taken off it. `TakeHead`,
`PutsOtherBack`, `PutsMatchBack`, `WrapsAround` and `FindsListEmpty` are the paths
through one round of `FindWriteFileObject`; `CloseFrees`, `Allocates`, `Inserts` are the
steps of its callers between the search and their return; `Fetches`, `StopsThread`,
`AllFetched` are `RemoveAllFileObjectQueue`. Every access under the spin lock is one
step. The comparison needs no step: it reads `pObject->FileObject`, which is written
before the entry is first listed.

`life[f]` is the I/O manager's side, from the code's use of it: a `FILE_OBJECT` is
created, used, and closed after the last request that names it, and its address may
then be used again. Opens and closes that run in the service's process are passed down
unseen (`OpenedUnseen`, `ClosedUnseen`), as are files without an encrypted header.

Left out: `FindGingkoObjectByFileName` and `FindCryptoInfo`, which walk the list the
same way but which nothing calls; the first-object test of `RemoveAllFileObjectQueue`,
which cannot fire because an object it has fetched is on no list.

### KeyExchange

| Who | Actions | Code |
|---|---|---|
| create of queue `q` | `StartInserts`, `StartSignals`, `StartFails` | `EncryptedIoQueueStart` |
| close of queue `q` | `StopBegins`, `StopTakes`, `StopFindsEmpty`, `StopPutsBack`, `StopComesRound`, `StopFindsRequest`, `StopUnlists` | `EncryptedIoQueueStop`, `FindEncryptionIoQueueFromResponseKeyList` |
| the service's thread | `ServiceWakes`, `ServiceFetches`, `ServiceFindsEmpty`, `ServiceCannotFetch`, `ServiceLists`, `ServiceDrops`, `ServiceRelists`, `ServiceStartsThread`, `ServiceCounts`, `ServiceTests`, `ServiceCloses` | `DeviceIoThreadProc`, `DeviceIoGetPrivateKeyRequest`, `StartThread`, `GingkoRetrievPublicKeyRequest` |
| a request thread | `DialogEnds`, `PollEnds`, `PutsResponse`, `Ends` | `RequestKeyThreadProc`, `GetDigitalPassword`, `GingkoPublicKeyResponse` |
| stop of the service | `StopThread`: the flag, then the event | `StopThread` |

`hand[q]` is the entry that `q`'s Stop has taken off the request list and not yet put
back, `first[q]` the entry it saw first. `requests` is a sequence, because its order
decides what a Stop sees; `responses` is a set, because it is searched only under its
mutex. `readEvent` is auto-reset. A queue starts and stops once: its entry is embedded in
it, and a file that is opened again has another queue.

A round of the service ends in one of four ways (`LeavesLoop`): the list is empty
(`ServiceFindsEmpty`); the service has no memory for the next request
(`ServiceCannotFetch`); the driver has none for the response entry, and drops the request
(`ServiceDrops`); or the answer cannot be written, and the driver puts the request back
at the tail and reports no data (`ServiceRelists`, the `__except` of
`GingkoRetrievPublicKeyRequest`). After the last three the list need not be empty, and
nothing announces what is left on it.

A request thread is "asking" until the last of its dialogs has ended: it waits for each
without a timeout (`GingkoServiceThread.cpp:469`). It is "polling" while it looks for a
password that a dialog, its own last one or another thread's, is to send, every second
and until the service is told to stop, and "running" when it has all it needs.

Three history variables name the situations the properties except. `missed`: since it
woke last, the service left its loop with a request on the list or in the hand of a Stop,
or a Start failed after it had listed its request. `alone[q]`: since `q`'s Stop began, no
other Stop has run and the service has fetched nothing. `lost`: requests whose thread
could not be created. (A request that is dropped, because the driver has no memory for
its response entry, is in no place at all.)

Left out: what the answer contains; the several dialogs of one thread, which are one
wait (`PasswordTable` has them one by one); the waits for the key server and its
detection (`WaitForDetectGingkoServer`) and for the helper process that
`TryRemoteInjection` starts (`GingkoServiceThread.cpp:766`), which are all assumed to
end; a second life of the service; that the I/O manager runs the calls on the driver's
synchronous handle one after the other (the model allows more interleavings).

### FragmentRead

A byte is its position in the document, or `NoByte` when it was decrypted with the
wrong data units or was never read. `buffer` is `FragmentBufferA` after a load,
`cacheOffset`, `cacheLength` and `cacheStatus` are the queue's `Current*` fields,
`commit` is `commitLength`; `alignedOffset` and `dataRemaining` are determined by it
(`offset`, `remaining`). One action is one round of the loop:

| Action | Path through `ProcessRead` |
|---|---|
| `CopyRest` | the rest of the request is cached: copy, done |
| `CopyTail` | copy what is cached; done if the file ends there, else load the next fragment |
| `BehindEnd` | the request goes on behind the end: answer what there is |
| `LoadOther` | load the fragment of the offset |

`Load` succeeds with what the stored file has (`Stored`: the encrypter writes every
fragment in whole sectors, `../GingkoLibrary/GingkoLibrary.cpp:1910`), or fails, behind
the end of the file or anywhere else.

The service sends back the `SizeOfFile` the driver had sent it, so `size` never
changes. Left out: the 64-bit width of offsets, which no document reaches.

### ControlDevice

| Who | Actions | Code |
|---|---|---|
| a handle | `OpenReads`, `OpenWrites`, `OpenSets`; `CloseReads`, `CloseWrites`, `CloseTestsLast`, `CloseTestsNotLast` | `GingkoCreate`, `GingkoClose` |
| START | `StartIgnored`, `StartNoMemory`, `StartAllocates`, `StartFills`, `StartSetsStarted`, `StartSetsState` | `GingkoDeviceIoControl` |
| STOP, last close | `CloseDown`: one action per statement of `GingkoCloseControlDevice` | `gingko_lib_fun.c:296` |
| a dispatch routine | `Dispatch`: `IsGingkoServerProcess`, the gates, the use of the block in Start | `gingko_impl.c:268`, `gingko_readwrite.c:410`, `gingko_ioqueue.c:983` |

Clients are the lives of the service, one after the other, and tools (`Bootstrap`,
which opens the device for its ioctls). The system closes the handle of a life that dies.
The count of opens is read and written in two steps, because the code does it without an
interlock; `lost` and its like are history variables for the exceptions that the
properties name. `___SharedNotificationReference` is left out: it is counted, and nobody
waits for it. `IsGingkoServerProcess` compares a process id with `ServerProcess`, a
pointer, and `ClientProcess` is NULL: the service is never recognised by it, and the model
keeps only that it touches the block.

### ProcessTable

`table` is the list behind its first entry, `entry` what the allocated entries hold.
`Widens`, `Inserts` and `Forgets` are the outcomes of `UpdateProcessPermission`; `Removes`
is `RemoveProcessUnderDecryption`, called by the process monitor (`Exits`) and by END
(`EncryptEnd`). `file` has the open files: `Opens` looks the key up and lists the queue,
`InstallsKey` and `RecordsPermission` are the two halves of an answer,
`AnsweredNothing` an answer that has no effect, `Closes` the close. `Walk` is
`IsProcessUnderDecryption`, which takes no lock. `plain`, `given`, `late`, `forgotten`,
`bare` and `met` are history.

Rights are a set, of which `GingkoWrite` wants all: answers for several documents add up,
and START adds its own. A process that exits has no call under way in the driver; its
files may be closed, and its answers may come, later. Left out: the table's
initialisation and unload; the create gate, which only narrows an option; the query
ioctl.

### PasswordTable

| Who | Actions | Code |
|---|---|---|
| request thread | `TestFinds`, `TestFindsNone`, `Place`, `PollFinds`, `Unlinks`, `PollGivesUp`, `StationFails` | `GetDigitalPassword`, `FindGingkoPassword`, `InsertGingkoPassword` |
| dialog | `DialogCancelled`, `PasswordTyped`, `PasswordLost` | `GingkoShell.cpp:190`, `GingkoSendDecryptPassword` |
| pipe thread | `Send` | `ReplyRequest` |
| stop of the service | `Exits` | `UninitCheapman` |

The nodes of the list point to each other (`cell`, `head`), because that is what goes
wrong. A search is one step, what is done with its result another; an insertion
publishes its node in a step of its own. `UsesFreed` and `PlaceFinds` end the behaviour
(`broken`): a freed node or NULL is used. A thread waits for its dialog, so that one
place (`pc`) serves for the thread, its dialog and the pipe's thread.

## 3. The runs

| Run | Instance | Asks |
|---|---|---|
| `queue_faults` | 2 IRPs, every fault, one hold | `TypeOK`, `CountAccounts`, `TokenCoversQueue`, `HoldIsQuiet`, `FreedIsQuiescent`, `GrantedKeyIsUsed`, `ImplementsService` |
| `queue_live` | 2 IRPs, no fault, no hold, fair | `StopIsWoken`, `EveryIrpAnswered`, `CloseFinishes` |
| `queue_assert` | 2 IRPs, no memory | *violated*: `AssertNotStopPending` |
| `key_exchange` | 2 queues, every fault, fair | `TypeOK`, `RequestOnce`, `ListedIsAnnounced`, `AnswerFindsQueue`, `LoneStopUnlists`, `ServiceOutlivesThreads`, `LoneStopEnds`, `ServiceEnds` |
| `key_stops` | 2 queues, no fault | *violated*: `StoppedIsUnlisted` |
| `read_fragments` | documents of 0..10 bytes, sectors of 2, fragments of 4, fair | `TypeOK`, `DeliversDocument`, `ShortOnlyAtEnd`, `PaddingStaysInside`, `ReadEnds` |
| `read_past_end` | the same | *violated*: `NothingBehindEnd` |
| `list_walks` | 2 threads, 2 files, 2 objects, fair | `TypeOK`, `EntryOnce`, `ImplementsRegistry`, `LoneSearchEnds` |
| `list_find` | 2 threads | *violated*: `FindsTheFileObject` |
| `control_device` | 2 lives of the service, a tool, a dispatch routine | `TypeOK`, `BlockSafe`, `SessionIsServed`, `NothingLeft`, `WholeBlockRead`, `CrashIsCleanedUp` |
| `process_table` | 2 ids, one used twice, 2 files, 1 document, a walker, no memory | `TypeOK`, `TableSound`, `PlaintextIsGated`, `RightsAreOwn` |
| `password_table` | 3 requests of 2 processes, 2 tries, 2 nodes, every loss | `TypeOK`, `TableServes`, `PasswordArrives` |

**Bounds.** Two IRPs let one be served while the other is on its way through AddIrp, and
IRPs are interchangeable (symmetry); one hold is enough to fail or to succeed. Two
walkers allow one to have the entry that the other looks for; two objects are needed for
a list on which a walk comes round, and for two objects of one file. Two queues give a Stop one entry besides its own, which is
what it needs to come round, and two Stops, or a Stop and the service, to meet.
Documents of up to three fragments, and reads of up to nine bytes at any offset, let a
read begin, go on and end in any fragment, at its boundary, in the padding and behind
it. Two lives let the second START meet what the first left behind, and the tool
is what keeps the device open between them. An id that is used twice is inherited once;
two files let a second answer, or a key found in the table, meet the first. Three
requests are two that share an entry and one that shares only the list with them; two
nodes let each name have its entry, and a third insertion fail for lack of memory; a
second try is as good as a fourth. One case of `RefusalIsOwn` is beyond that instance:
an entry with its document from one request and its process from another needs a node
that is freed, used again and then written to by a pipe thread that found it before,
which takes four requests for two documents; the proof covers it. What is proved (section 4) is proved for all values.

**Deadlock.** The queue's runs say `CHECK_DEADLOCK FALSE`: the system of one file
really ends when the file is closed. The list's runs check deadlock: calls can always
begin. So do those of the reads. `key_exchange` says `CHECK_DEADLOCK FALSE`: when both
files are closed and the service has ended, nothing is left to do. So do
`process_table` and `password_table`, whose systems stop when they break, and when every
request is answered.

**Fairness** (`FairSpec`). Weak fairness of every thread that is inside a call: the
kernel schedules them, and none of their steps can be disabled again by another once it
is enabled for good. That the service fetches each request and answers it, as long as it
lives, is an *assumption* of `queue_live` about the service and its users, not something
its code guarantees. A request thread does answer once it gets there, in a `__finally`
block (`../BluefishService/GingkoCheapman.cpp:361-371`), but it never gets there while a
dialog stays open, or when the password it polls for was lost (`PasswordTable`); and the
service may sleep over a request (`missed` of `KeyExchange`). An IRP that waits for such
a key stays pended until the service's handle of the control device is closed. Nothing obliges anyone to send an
IRP, to close a file or to hold a queue. `queue_live` excludes the faults, because after
each of them the code leaves IRPs unanswered by construction (no thread, no request, no
service). `LoneSearchEnds` is about searches that no other call overlaps: an overlapped
one really need not end, because a close can remove the entry it saw first. `ReadEnds`
assumes only that the main thread keeps running; it holds whichever loads fail. In
`KeyExchange` every Start and Stop that has begun, the service's thread, a `StopThread`
between its two steps and a request thread that has what it needs are fair; a thread that
polls is fair once the service is told to stop (`__gApplicationExit`). The end of a
dialog is not: only its user can end it, and neither `UninitCheapman` nor `StopThread`
does. Opening and closing a file and telling the service to stop are not fair either.
`LoneStopEnds` gives up when the Stop is met, for the same reason as `LoneSearchEnds`.
`ServiceEnds` has the premise that no dialog stays open for ever (without it, TLC shows a
service that was told to stop and waits for a thread whose dialog is open), and gives up
when a thread could not be created: it is counted as running, so that the service waits
for it for ever.

### What the violated properties show

* `AssertNotStopPending`: `EncryptedIoQueueStart` sets `StopPending` and leaves it set
  when it runs out of memory, after the object has been listed. The close of the file
  then enters `EncryptedIoQueueStop` against its own assertion (`gingko_ioqueue.c:1062`)
  and goes on to stop a thread that was never started.
* `FindsTheFileObject`: a search takes each entry off the list while it compares it.
  A second search finds the list empty and reports a tracked file as untracked: the
  read is passed down raw, the second create tracks the file twice, the close leaves
  object and thread behind.
* `StoppedIsUnlisted`: a Stop turns the request list over entry by entry. A second Stop
  finds the list empty while the first has its request in hand, takes the request for
  already fetched, and its queue is freed; the first then puts the request back.
* `NothingBehindEnd`: the driver clips a load to the document only when the load is
  shorter than a fragment. A document that ends inside the last sector of a fragment is
  stored as full fragments; its last load is full, and a read across the end is
  answered with the padding, too.

## 4. The proofs

All for every set of IRPs, threads, files, objects and queues, every set of faults and
every hold limit, every document and layout, from the assumptions the modules name
(`IrpsAssumption`: IRPs are finitely many, needed for the cardinality in
`CountAccounts`; `FaultsAssumption`; `HoldAssumption`; `NoFileAssumption`,
`NoObjectAssumption` and `NoQueueAssumption`: a null pointer is no object;
`PasswordAssumption`: finitely many nodes, of which "nil" is none, and at least one try).

**EncryptedIoQueue.** `IInv` is inductive, and TLC checked it before it was proved.
The properties of the runs are not inductive by themselves: what the count must be
depends on where each IRP is (`IrpPlaces`), and that on how far create, close and thread
have come (`LifeCycle`). The argument goes in layers, one theorem for each:

1. `TypeCorrect`: types; in particular the semaphore stays non-negative.
2. `PlacesCorrect`: `IrpPlaces`, `LifeCycle`. The close begins only after every IRP
   was answered, so nothing is queued while `Stop` runs.
3. `FreedCorrect`: from 2, `FreedIsQuiescent`.
4. `FlagsCorrect`: `GrantPlaces`, `StopFlagged`, `HoldPlaces`, `ModeDecided`. The key
   event is set by a finished responder or by one of the two closes, hence
   `GrantedKeyCorrect`.
5. `CountCorrect`, `TokensCorrect`, `StopWokenCorrect`, `HoldCorrect`, and all parts
   together `InvariantCorrect`.
6. `QueueImplementsService`: the abstract queue is `current \o queue` while an IRP is
   being served, the abstract mode is decided by `passthrough` and `cryptoInfo`. Only
   `InsertIrp`, `MainServe`, `StartQueue`, `ResponderInstall` and `MainWakeWithKey` are
   visible; every other step stutters.
7. What liveness rests on. `WaitsCorrect`: whoever waits, for the key, a token, the end
   of a hold or the exit of the thread, waits for something that somebody is about to do
   or has done. From it `NoIrpIsStrandedCorrect` and `NoCloseIsStrandedCorrect`: as long
   as an IRP is pended, or a close has not returned, somebody can move (`SomeoneMoves`;
   TLC confirmed on the run's instance that its parts are true exactly where the actions
   are enabled). `NoStepIsIdleCorrect`: each step lowers a rank, so that they do not move
   in circles. Excepted are a queue whose Start failed, a lost request and a closed
   control device, after which the code leaves IRPs as they are; for the close, a holder;
   and, for the rank, a holder, which may try for ever, and a request that is listed again
   because it could not be written.

**FileObjectList.**

1. `ListTypeCorrect`: types, and a walker has an entry in hand exactly where the code
   has one.
2. `EntryOnceCorrect`: `EntryOnce` with `CallPlaces`, which says what each place of a
   walker means for its call.
3. `ListInvariantCorrect`: `LoneWalks`. A search that no call overlaps has compared
   everything from the entry that it saw first to the tail (`Compared`), so that coming
   round means that nothing matches, or that two objects stand for one file.
4. `ListImplementsRegistry`: the list stands for the entries on it and those that a
   search is about to put back (`Tracked`). Taking off and putting back stutter; the
   answers, the insert, the removal and the fetch are the registry's steps.
5. `LoneCallGoesOnCorrect`: the file that a lone call saw first is always ahead of it on
   the list, and each step brings it nearer (`Ahead`, `WalkRank`): what makes
   `LoneSearchEnds` true.

**KeyExchange.** `KInv` is inductive. Beside the properties it needs to know where a
request is before its queue starts (`NewUnlisted`), that none is begun twice
(`BegunOnce`), that the response entry precedes the thread (`ListedFirst`), and what a
lone Stop has compared (`LoneStops`, `LoneWalks`). TLC checked it with two queues and,
by symmetry, with three. The layers:

1. `KeyTypeCorrect`: types; a Stop has an entry in hand only while it turns the list.
2. `RequestOnceCorrect`: each step moves at most one request by one place (`Stays` says
   that all others are where they were).
3. `AnswerFindsQueueCorrect`: from 2, the service begins no request twice, hence only the
   queue's own Stop and its own answer free a response entry.
4. `ServiceOutlivesThreadsCorrect`: the count covers the live threads but for the one that
   was just started (`CountCovers`), and the service tests it only after it has counted.
5. `LoneStopUnlistsCorrect`: everything behind the entry that a lone Stop saw first is
   another queue's, because a Start, which inserts at the tail, never inserts its
   request (`Behind`); meeting that entry again, it has seen the whole list.
6. `ListedIsAnnouncedCorrect`: `Announced` says of the hands what it says of the list.
   The exceptions are in `missed`: a hand of a Stop, a failed fetch, a failed Start.
7. `ServiceIsNotStuckCorrect`: unless a thread could not be created, the count is exactly
   the number of live threads (`CountExact`), so that a service that is told to stop, and
   waits, waits for a thread, which ends unless its dialog stays open, or for an event
   that will be set.
8. `ServiceGoesOnCorrect`: the service's steps lower a rank, but for one round of its
   outer loop for each event and one of its inner loop for each request. Events are
   finitely many, because each has another who sets it (`Announcers`); requests are
   (`Unfetched`) as long as a round lasts, because the one that is put back ends it.
9. `LoneStopGoesOnCorrect`: the entry that a lone Stop saw first is ahead of it
   (`FirstIsAhead`), each of its steps comes nearer, and a Start, which inserts behind
   that entry, does not put it off.

**FragmentRead.** For every sector size, every fragment size that is a multiple of it
(`FragmentAssumption`), every document and every set of reads of at least one byte
(`InputsAssumption`; `MainThreadProc` does not call `ProcessRead` for an empty one).
`ReadInv` is inductive: beside the properties of the run it says that the cache holds a
fragment (`CacheHoldsFragment`): its base is a multiple of `Fragment`, and with status
success it is a whole one inside the stored file, with end of file it counts up to the
end of the document, or not at all. Without it nothing is known about the bytes that
`Copy` takes. `ShortOnlyAtEnd` says which failure cut a read short: one that has got
something stops where the failed fragment begins, because it goes on with the fragment it
has just tried to load (`GoesOnAtBase`); one that gets nothing begins in the failed
fragment or anywhere behind it, because a failure is cached as the end of the file, and
what lies behind it is answered without an attempt. The arithmetic (`RoundDown`, `RoundUp`, `MultiplesApart`) is proved once,
over plain numbers; its use is that a multiple of `Fragment` behind the end of the
document is also behind the padding (`StoredSectors`), so that a load that succeeds
begins inside the document, and a full fragment that crosses the end of the document is
exactly the last one. `RoundGoesOnCorrect` says that the loop of `ProcessRead` does not
go round for nothing: a load that succeeds makes the next round copy (`LoadMakesReady`),
so at most two rounds lie between two bytes, whatever loads fail.

**ControlDevice.** For every set of lives, tools, dispatch routines and blocks. `IInv`
says, for each place in an open, a close, a START or a close-down, what the count, the
flag, the state and the block then are; most of the properties follow from a part of it.

1. `ControlTypeCorrect`: types, and a client is in a close-down exactly while it stops or
   closes last.
2. `WholeBlockReadCorrect`: the order of publication and flag.
3. `ControlInvariant`: the rest, one lemma per group of steps.
4. `BlockSafeCorrect`, `SessionIsServedCorrect`, `NothingLeftCorrect`,
   `CrashIsCleanedUpCorrect`.

**ProcessTable.** For every set of ids, files, documents, rights and entries, and with as
many lives of an id as one likes. `IInv` is inductive; beside the properties it says

1. of the list, that it has each allocated entry once and one for a process (`Indexed`),
   which what an unlinking leaves keeps (`SplicedOf`, `WithoutOf`), and that an entry
   without a key was made as one (`Keyless`);
2. that an entry belongs to a process that lives or to whom an answer came late
   (`OwnersKnown`): otherwise the next process with its id would inherit it;
3. that an answer between its two steps has been given (`AnswersGiven`), and that no file
   is open in a life its id has not had yet (`LivesOrdered`), so that no old file becomes
   the file of a new process;
4. that who can read plaintext, or has read it, has an entry, or one of the excuses of
   `PlaintextIsGated` (`KeysKnown`, `PlainKnown`). The entry then has only rights that
   were given (`EntriesOwned`), and `PlaintextIsGated` follows.

**PasswordTable.** For every set of requests, every assignment of documents and
processes, every number of tries and every finite memory. The difficulty is the walk: a
recursive function over a linked list, so that what it returns for every list is an
induction over data. The library's induction theorems take an operator, so the induction
is done over sets of numbers instead (`LeastNat`, `SetInduction`, from the
well-foundedness of `<`), and even that the function satisfies its recursion is proved
that way (`WalkExists`, `WalkIs`). A list is described without recursion, as a function
`u` from `1..len` to nodes whose members point to each other in turn (`Linked`), no
longer than the memory (`LengthBound`). A walk over it follows `u` (`WalkStays`), hence
stops at the first node of the wanted name with the node before it at hand, or at the
end (`SearchFinds`, `SearchMisses`). On that rest the layers:

1. `PasswordTypeCorrect`: types, and an answer exactly for threads that are done.
2. `AloneCorrect`: as long as no two threads are inside, there is such a `u` that covers
   the allocated nodes except one that is being published (`Covered`), each thread's
   pointers are nodes of it, neighbours where it removes one (`PlaceOf`), names occur
   once, and the name of a thread that polls is there with its password (`Fed`).
3. `AskedCorrect`: the name of every entry, and of every refusal without a dialog, comes
   from requests that asked (`CellsAsked`, `RefusedOwned`), from one unless threads met.
4. `PasswordInvariant`, and from it `TableServesCorrect` and `PasswordArrivesCorrect`.

TLC checked the invariant first, on the run's instance and on one with four requests,
two documents and two processes.

**Only model-checked**: the liveness properties (`EveryIrpAnswered`, `CloseFinishes`,
`LoneSearchEnds`, `ReadEnds`, `LoneStopEnds`, `ServiceEnds`). They are statements about
fairness, hence about ENABLED, which the prover does not treat. What is proved is their
safety half, for all values of the constants: somebody can move, and each step comes
nearer to the end. Also the four violations, each of which is a behaviour.

## 5. The plan

Done, in this order: `EncryptedIoQueue`, `FileObjectList`, `KeyExchange`, `FragmentRead`,
`ControlDevice`, `ProcessTable`, `PasswordTable`. Worth doing next:

1. An abstract password broker (ask, answer, refuse) that `PasswordTable` implements as
   long as no two threads meet in it.
2. `EncryptionThreadPool` (`../Common`): the ring of work items, `DoWork`, stop. The
   driver reaches it only for reads of more than one data unit.
3. `CreatePath`: the completion routine of a create and the wait of `GingkoCreate` for a
   lower driver that has returned `STATUS_PENDING`.
4. `VolumeAttach`: attach on mount, notification, unload.

## 6. Not modelled

* *Worker pool, create path, volume attachment*: see the plan. The last two are mostly a
  conversation with the I/O manager, whose side nothing in the repository describes.
* *Fast I/O*: each entry point looks a file object up and refuses or forwards; the
  look-ups are the searches of `FileObjectList`, the test of the process is the walk of
  `ProcessTable`.
* *TDI filter*: hash tables of addresses and connections beside the document path; its
  dispatch stub passes everything on (`gingko_redfish.c:1153`).
* *Service dispatcher and its pipe*: of the stop order, what matters to the driver is in
  `KeyExchange` (`StopThread`, the drain) and `PasswordTable` (`Exits`); the rest is
  sequential start-up code.
* *Data, vendored or generated code*: ciphers and hashing, SQLite, the TrueCrypt tools in
  `../Common`, WTL, COM and SOAP stubs, NDIS sample code. They are most of the
  repository's lines, and none of its control.
* *User interface, installers, shell extensions*: no state that another part reads.
* *Java server*: requests are independent transactions of a database.

`PROJECT.json` lists each with its files.
