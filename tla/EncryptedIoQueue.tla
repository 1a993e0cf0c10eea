-------------------------- MODULE EncryptedIoQueue --------------------------
(***************************************************************************)
(* The encrypted I/O queue of ONE open file (Bluefish kernel driver,       *)
(* gingko_ioqueue.c), with everything that touches it while the file is    *)
(* open:                                                                   *)
(*                                                                         *)
(*   - the create path that tracks the file object and starts the queue;   *)
(*   - the dispatch routines that pend read and cleanup IRPs on it;        *)
(*   - the queue's main thread, which waits for the key and serves them;   *)
(*   - the service's two ioctls (GET_REQUEST, PUT_RESPONSE) by which the   *)
(*     key is asked for and delivered;                                     *)
(*   - IRP_MJ_CLOSE, which stops the thread and frees the queue;           *)
(*   - the last close of the control device, which stops the thread but    *)
(*     frees nothing;                                                      *)
(*   - the Hold/Resume interface of the queue.                             *)
(*                                                                         *)
(* A step is one access to shared state: an interlocked operation, the     *)
(* read of a flag another thread writes, an event, the semaphore, a list   *)
(* operation under its spin lock.  File data, offsets and keys are         *)
(* abstracted to "raw", "plain" and "other" answers.                       *)
(***************************************************************************)
EXTENDS Integers, Sequences, FiniteSets

CONSTANTS
    Irps,        \* the IRPs sent to the file object
    Faults,      \* the failures this instance may meet, of FaultKinds
    HoldLimit    \* how often HoldWhenIdle is called (no caller in the driver)

FaultKinds ==
    { "noMemory",      \* EncryptedIoQueueStart: fragment buffer not allocated
      "noServer",      \* EncryptedIoQueueStart: no notification block
      "noThread",      \* EncryptedIoQueueStart: PsCreateSystemThread fails
      "requestLost",   \* GET_REQUEST: response entry not allocated
      "badBuffer",     \* GET_REQUEST: exception while filling the answer
      "controlClose" } \* the service closes its last control handle

ASSUME IrpsAssumption   == IsFiniteSet(Irps)
ASSUME FaultsAssumption == Faults \subseteq FaultKinds
ASSUME HoldAssumption   == HoldLimit \in Nat

VARIABLES
    object,         \* the GINGKO_OBJECT that contains the queue
    starter,        \* progress of the create path
    irp,            \* where each IRP is
    unreleased,     \* IRPs inserted whose dispatcher owes the semaphore release
    result,         \* how each IRP was answered
    queue,          \* MainThreadQueue
    semaphore,      \* MainThreadQueueNotEmptyEvent
    outstanding,    \* OutstandingIoCount
    noIoEvent,      \* NoOutstandingIoEvent, auto-reset
    keyEvent,       \* RequestKeyEvent, manual-reset and never reset
    resumedEvent,   \* QueueResumedEvent, auto-reset
    stopPending,    \* StopPending
    exitRequested,  \* ThreadExitRequested
    suspendPending, \* SuspendPending
    suspended,      \* Suspended
    passthrough,    \* ShouldPassthrough
    cryptoInfo,     \* CryptoInfo # NULL
    mainPc,         \* where the main thread is
    current,        \* the IRP it has popped, as a sequence of at most one
    keyPlace,       \* where the queue's key request is
    responder,      \* progress of PUT_RESPONSE
    grant,          \* what the response said: "none", "granted", "refused"
    stopPc,         \* progress of IRP_MJ_CLOSE
    ctlPc,          \* progress of RemoveAllFileObjectQueue
    holdPc,         \* progress of HoldWhenIdle
    holds           \* calls of HoldWhenIdle so far

irpVars   == <<irp, unreleased, result, queue, current>>
eventVars == <<semaphore, noIoEvent, keyEvent, resumedEvent>>
flagVars  == <<stopPending, exitRequested, suspendPending, suspended>>
modeVars  == <<passthrough, cryptoInfo>>
keyVars   == <<keyPlace, responder, grant>>
holdVars  == <<holdPc, holds>>

vars == <<object, starter, irpVars, outstanding, eventVars, flagVars, modeVars,
          mainPc, keyVars, stopPc, ctlPc, holdVars>>

-----------------------------------------------------------------------------
(* Types. *)

IrpStates ==
    { "unsent",
      "found",        \* FindWriteFileObject returned the object
      "counted",      \* AddIrp has incremented OutstandingIoCount
      "admitted",     \* ... and has read StopPending = FALSE
      "queued",       \* in MainThreadQueue
      "current",      \* popped by the main thread
      "completed",    \* IoCompleteRequest done, not yet uncounted
      "refused",      \* AddIrp has read StopPending = TRUE, still counted
      "refusedZero",  \* uncounted, brought the count to zero
      "finished" }

Results == {"none", "raw", "plain", "other", "notReady", "passed"}

MainStates ==
    { "none", "top", "testKey", "waitKey", "waitToken", "drain", "popped",
      "suspended", "serve", "uncount", "signal", "terminated" }

StopStates ==
    { "idle", "flag", "request", "response", "count", "wait", "exit", "key",
      "release", "join", "returned", "noThread" }

IrpTypes ==
    /\ irp \in [Irps -> IrpStates]
    /\ result \in [Irps -> Results]
    /\ unreleased \in SUBSET Irps
    /\ queue \in Seq(Irps)
    /\ current \in Seq(Irps)

CountTypes ==
    /\ semaphore \in Nat
    /\ outstanding \in Int
    /\ holds \in 0..HoldLimit

FlagTypes ==
    /\ noIoEvent \in BOOLEAN /\ keyEvent \in BOOLEAN /\ resumedEvent \in BOOLEAN
    /\ stopPending \in BOOLEAN /\ exitRequested \in BOOLEAN
    /\ suspendPending \in BOOLEAN /\ suspended \in BOOLEAN
    /\ passthrough \in BOOLEAN /\ cryptoInfo \in BOOLEAN

ProgressTypes ==
    /\ object \in {"none", "listed", "unlisted", "orphaned", "freed"}
    /\ starter \in {"idle", "inserted", "prepared", "started", "failed"}
    /\ mainPc \in MainStates
    /\ keyPlace \in {"none", "requested", "popped", "response", "taken",
                     "withdrawn", "lost"}
    /\ responder \in {"idle", "found", "pin", "install", "release", "zero",
                      "signal", "done", "dangling"}
    /\ grant \in {"none", "granted", "refused"}
    /\ stopPc \in StopStates
    /\ ctlPc \in {"idle", "closed", "exit", "key", "release", "join", "returned",
                 "noThread"}
    /\ holdPc \in {"idle", "count", "wait", "recheck", "clear", "suspend",
                   "verify", "held"}

\* The type of every variable.
TypeOK == IrpTypes /\ CountTypes /\ FlagTypes /\ ProgressTypes

-----------------------------------------------------------------------------
(* Shared pieces. *)

\* Mutant: the test forgets StopPending.
SomebodyWaits_HoldOnly == suspendPending

\* The test DecrementOutstandingIoCount makes after the count reached zero.
SomebodyWaits == suspendPending \/ stopPending

\* KeSetEvent on NoOutstandingIoEvent, if somebody waits for it.
SignalNoIo == noIoEvent' = (noIoEvent \/ SomebodyWaits)

\* IRP_MJ_CLOSE comes when the I/O manager drops the last reference to the
\* file object: every IRP sent has been completed, and none is sent later.
LastReferenceGone == \A i \in Irps : irp[i] = "unsent" \/ result[i] # "none"

\* EncryptedIoQueueStart has returned, so the create IRP can complete and the
\* file object be used.
Opened == starter \in {"started", "failed"}

Init ==
    /\ object = "none" /\ starter = "idle"
    /\ irp = [i \in Irps |-> "unsent"]
    /\ unreleased = {}
    /\ result = [i \in Irps |-> "none"]
    /\ queue = <<>> /\ current = <<>>
    /\ semaphore = 0 /\ outstanding = 0
    /\ noIoEvent = FALSE /\ keyEvent = FALSE /\ resumedEvent = FALSE
    /\ stopPending = FALSE /\ exitRequested = FALSE
    /\ suspendPending = FALSE /\ suspended = FALSE
    /\ passthrough = FALSE /\ cryptoInfo = FALSE
    /\ mainPc = "none"
    /\ keyPlace = "none" /\ responder = "idle" /\ grant = "none"
    /\ stopPc = "idle" /\ ctlPc = "idle"
    /\ holdPc = "idle" /\ holds = 0

-----------------------------------------------------------------------------
(* The create path: GingkoCreateCompleteRoutine, EncryptedIoQueueStart.      *)

StarterFrame ==
    UNCHANGED <<irpVars, outstanding, suspendPending, suspended, passthrough,
                responder, grant, stopPc, ctlPc, holdVars>>

\* The object is allocated, zeroed and listed before its queue is started.
TrackFileObject ==
    /\ starter = "idle"
    /\ object' = "listed"
    /\ starter' = "inserted"
    /\ UNCHANGED <<eventVars, stopPending, exitRequested, cryptoInfo, mainPc, keyPlace>>

StartNoMemory ==
    /\ "noMemory" \in Faults
    /\ starter' = "failed"
    /\ stopPending' = TRUE      \* set at entry, not undone by "goto noMemory"
    /\ UNCHANGED <<cryptoInfo, keyPlace>>

StartNoServer ==
    /\ "noServer" \in Faults
    /\ starter' = "failed"
    /\ stopPending' = FALSE
    /\ UNCHANGED <<cryptoInfo, keyPlace>>

\* FindCryptoPermission may find the key of this document already granted to
\* the process; otherwise the queue joins gGingkoPublicKeyRequestQueue.
StartAskKey ==
    /\ stopPending' = FALSE
    /\ starter' = "prepared"
    /\ \/ cryptoInfo' = TRUE /\ UNCHANGED keyPlace
       \/ keyPlace' = "requested" /\ UNCHANGED cryptoInfo

StartQueue ==
    /\ starter = "inserted"
    /\ exitRequested' = FALSE
    /\ semaphore' = 0 /\ noIoEvent' = FALSE
    /\ keyEvent' = FALSE /\ resumedEvent' = FALSE
    /\ StartNoMemory \/ StartNoServer \/ StartAskKey
    /\ UNCHANGED <<object, mainPc>>

StartMainThread ==
    /\ starter = "prepared"
    /\ \/ starter' = "started" /\ mainPc' = "top"
       \/ "noThread" \in Faults /\ starter' = "failed" /\ UNCHANGED mainPc
    /\ UNCHANGED <<object, eventVars, stopPending, exitRequested, cryptoInfo, keyPlace>>

-----------------------------------------------------------------------------
(* The dispatch routines: GingkoRead and GingkoCleanup, EncryptedIoQueueAddIrp.*)

DispatchFrame ==
    UNCHANGED <<object, starter, current, keyEvent, resumedEvent, flagVars, modeVars,
                mainPc, keyVars, stopPc, ctlPc, holdVars>>

\* An IRP of the service or of a system thread is passed down unchanged, and so
\* is every read once the server is gone, and every IRP when the search of the
\* list of file objects fails; other IRPs of a listed file go to its queue.
DispatchIrp(i) ==
    /\ irp[i] = "unsent"
    /\ Opened
    /\ stopPc = "idle"
    /\ \/ /\ object = "listed"
          /\ irp' = [irp EXCEPT ![i] = "found"]
          /\ UNCHANGED result
       \/ /\ irp' = [irp EXCEPT ![i] = "finished"]
          /\ result' = [result EXCEPT ![i] = "passed"]
    /\ UNCHANGED <<unreleased, queue, outstanding, semaphore, noIoEvent>>

CountIrp(i) ==
    /\ irp[i] = "found"
    /\ outstanding' = outstanding + 1
    /\ irp' = [irp EXCEPT ![i] = "counted"]
    /\ UNCHANGED <<unreleased, result, queue, semaphore, noIoEvent>>

CheckStopPending(i) ==
    /\ irp[i] = "counted"
    /\ irp' = [irp EXCEPT ![i] = IF stopPending THEN "refused" ELSE "admitted"]
    /\ UNCHANGED <<unreleased, result, queue, outstanding, semaphore, noIoEvent>>

\* Mutant: the IRP is inserted at the head of the list.
InsertIrp_AtHead(i) ==
    /\ irp[i] = "admitted"
    /\ irp' = [irp EXCEPT ![i] = "queued"]
    /\ queue' = <<i>> \o queue
    /\ unreleased' = unreleased \cup {i}
    /\ UNCHANGED <<result, outstanding, semaphore, noIoEvent>>

InsertIrp(i) ==
    /\ irp[i] = "admitted"
    /\ irp' = [irp EXCEPT ![i] = "queued"]
    /\ queue' = Append(queue, i)
    /\ unreleased' = unreleased \cup {i}
    /\ UNCHANGED <<result, outstanding, semaphore, noIoEvent>>

\* Mutant: the semaphore is released only when the queue seems to have become
\* non-empty.
ReleaseSemaphore_FirstOnly(i) ==
    /\ i \in unreleased
    /\ unreleased' = unreleased \ {i}
    /\ semaphore' = IF Len(queue) = 1 THEN semaphore + 1 ELSE semaphore
    /\ UNCHANGED <<irp, result, queue, outstanding, noIoEvent>>

\* The main thread may already have popped and completed the IRP: once the
\* file is closed too, this release hits freed memory and has no effect here.
ReleaseSemaphore(i) ==
    /\ i \in unreleased
    /\ unreleased' = unreleased \ {i}
    /\ semaphore' = IF object = "freed" THEN semaphore ELSE semaphore + 1
    /\ UNCHANGED <<irp, result, queue, outstanding, noIoEvent>>

\* AddIrp takes its count back and the caller completes the IRP.
RefuseIrp(i) ==
    /\ irp' = [irp EXCEPT ![i] = "finished"]
    /\ result' = [result EXCEPT ![i] = "notReady"]

\* Mutant: the error path of AddIrp forgets DecrementOutstandingIoCount.
UncountRefused_Forgotten(i) ==
    /\ irp[i] = "refused"
    /\ RefuseIrp(i)
    /\ UNCHANGED <<unreleased, queue, outstanding, semaphore, noIoEvent>>

UncountRefused(i) ==
    /\ irp[i] = "refused"
    /\ outstanding' = outstanding - 1
    /\ IF outstanding = 1
       THEN irp' = [irp EXCEPT ![i] = "refusedZero"] /\ UNCHANGED result
       ELSE RefuseIrp(i)
    /\ UNCHANGED <<unreleased, queue, semaphore, noIoEvent>>

SignalRefused(i) ==
    /\ irp[i] = "refusedZero"
    /\ SignalNoIo
    /\ RefuseIrp(i)
    /\ UNCHANGED <<unreleased, queue, outstanding, semaphore>>

-----------------------------------------------------------------------------
(* The queue's thread: MainThreadProc.                                       *)

MainFrame ==
    UNCHANGED <<object, starter, unreleased, keyEvent, flagVars, cryptoInfo, keyVars,
                stopPc, ctlPc, holdVars>>

\* What most of the thread's steps leave alone besides.
queueVars  == <<irp, result, queue, current, outstanding>>
signalVars == <<semaphore, noIoEvent, resumedEvent>>

MainLoopTest ==
    /\ mainPc = "top"
    /\ mainPc' = IF exitRequested THEN "terminated" ELSE "testKey"
    /\ UNCHANGED <<queueVars, signalVars, passthrough>>

MainTestKey ==
    /\ mainPc = "testKey"
    /\ mainPc' = IF cryptoInfo \/ passthrough THEN "waitToken" ELSE "waitKey"
    /\ UNCHANGED <<queueVars, signalVars, passthrough>>

\* The event stays set, so waking and reading CryptoInfo are one step: what
\* is read is what CryptoInfo is when the read happens.
MainWakeWithKey ==
    /\ mainPc = "waitKey"
    /\ keyEvent
    /\ passthrough' = ~cryptoInfo
    /\ mainPc' = "waitToken"
    /\ UNCHANGED <<queueVars, signalVars>>

\* Mutant: the wait for the semaphore falls through.
MainTakeToken_NoWait ==
    /\ mainPc = "waitToken"
    /\ semaphore' = semaphore - 1
    /\ mainPc' = "drain"
    /\ UNCHANGED <<queueVars, noIoEvent, resumedEvent, passthrough>>

MainTakeToken ==
    /\ mainPc = "waitToken"
    /\ semaphore > 0
    /\ semaphore' = semaphore - 1
    /\ mainPc' = "drain"
    /\ UNCHANGED <<queueVars, noIoEvent, resumedEvent, passthrough>>

MainPop ==
    /\ mainPc = "drain"
    /\ queue # <<>>
    /\ current' = <<Head(queue)>>
    /\ queue' = Tail(queue)
    /\ irp' = [irp EXCEPT ![Head(queue)] = "current"]
    /\ mainPc' = "popped"
    /\ UNCHANGED <<result, outstanding, signalVars, passthrough>>

MainQueueEmpty ==
    /\ mainPc = "drain"
    /\ queue = <<>>
    /\ mainPc' = "top"
    /\ UNCHANGED <<queueVars, signalVars, passthrough>>

MainCheckSuspended ==
    /\ mainPc = "popped"
    /\ mainPc' = IF suspended THEN "suspended" ELSE "serve"
    /\ UNCHANGED <<queueVars, signalVars, passthrough>>

MainResume ==
    /\ mainPc = "suspended"
    /\ resumedEvent
    /\ resumedEvent' = FALSE
    /\ mainPc' = "serve"
    /\ UNCHANGED <<queueVars, semaphore, noIoEvent, passthrough>>

\* What the switch and the two transfer paths can answer: no data, or the
\* file's bytes as stored (ShouldPassthrough) or decrypted (ProcessRead).
ReadAnswer == IF passthrough THEN "raw" ELSE "plain"

\* CompleteOriginalIrp completes the IRP before it uncounts it.
MainServe ==
    /\ mainPc = "serve"
    /\ \E r \in {"other", ReadAnswer} : result' = [result EXCEPT ![current[1]] = r]
    /\ irp' = [irp EXCEPT ![current[1]] = "completed"]
    /\ mainPc' = "uncount"
    /\ UNCHANGED <<queue, current, outstanding, signalVars, passthrough>>

MainUncount ==
    /\ mainPc = "uncount"
    /\ outstanding' = outstanding - 1
    /\ irp' = [irp EXCEPT ![current[1]] = "finished"]
    /\ current' = <<>>
    /\ mainPc' = IF outstanding = 1 THEN "signal" ELSE "drain"
    /\ UNCHANGED <<result, queue, signalVars, passthrough>>

MainSignal ==
    /\ mainPc = "signal"
    /\ SignalNoIo
    /\ mainPc' = "drain"
    /\ UNCHANGED <<queueVars, semaphore, resumedEvent, passthrough>>

-----------------------------------------------------------------------------
(* The key exchange: GingkoRetrievPublicKeyRequest, GingkoPublicKeyResponse. *)

KeyFrame ==
    UNCHANGED <<object, starter, irpVars, semaphore, resumedEvent, flagVars,
                passthrough, mainPc, stopPc, ctlPc, holdVars>>

RetrieveRequest ==
    /\ keyPlace = "requested"
    /\ keyPlace' = "popped"
    /\ UNCHANGED <<outstanding, noIoEvent, keyEvent, cryptoInfo, responder, grant>>

\* The request leaves as an answer to the service and an entry of
\* gGingkoPublicKeyResponseQueue.  It is lost when that entry cannot be
\* allocated, listed again when the answer cannot be written, and names freed
\* memory when the queue was freed since it was popped.
FinishRetrieve ==
    /\ keyPlace = "popped"
    /\ \/ object # "freed" /\ keyPlace' = "response"
       \/ "requestLost" \in Faults /\ keyPlace' = "lost"
       \/ "badBuffer" \in Faults /\ object # "freed" /\ keyPlace' = "requested"
       \/ object = "freed" /\ keyPlace' = "lost"
    /\ UNCHANGED <<outstanding, noIoEvent, keyEvent, cryptoInfo, responder, grant>>

\* The response entry is taken off the list under gAcquireResponseQueryMutex;
\* from here on only the responder knows that it will touch the queue.
FindResponse ==
    /\ keyPlace = "response"
    /\ keyPlace' = "taken"
    /\ responder' = "found"
    /\ UNCHANGED <<outstanding, noIoEvent, keyEvent, cryptoInfo, grant>>

ResponderCheck ==
    /\ responder = "found" /\ object # "freed"
    /\ \/ ~stopPending /\ grant' = "granted" /\ responder' = "pin"
       \/ grant' = "refused" /\ responder' = "release"
    /\ UNCHANGED <<keyPlace, outstanding, noIoEvent, keyEvent, cryptoInfo>>

\* Mutant: RequestKeyEvent is set as soon as the response is accepted.
ResponderPin_SignalsFirst ==
    /\ responder = "pin" /\ object # "freed"
    /\ outstanding' = outstanding + 1
    /\ keyEvent' = TRUE
    /\ responder' = "install"
    /\ UNCHANGED <<keyPlace, grant, noIoEvent, cryptoInfo>>

ResponderPin ==
    /\ responder = "pin" /\ object # "freed"
    /\ outstanding' = outstanding + 1
    /\ responder' = "install"
    /\ UNCHANGED <<keyPlace, grant, noIoEvent, keyEvent, cryptoInfo>>

\* ReadPrimaryKey stores the key, or fails and leaves CryptoInfo as it is.
ResponderInstall ==
    /\ responder = "install" /\ object # "freed"
    /\ cryptoInfo' = TRUE \/ UNCHANGED cryptoInfo
    /\ responder' = "release"
    /\ UNCHANGED <<keyPlace, grant, outstanding, noIoEvent, keyEvent>>

\* The count is taken back whether or not it was taken.
ResponderUncount ==
    /\ responder = "release" /\ object # "freed"
    /\ outstanding' = outstanding - 1
    /\ responder' = IF outstanding = 1 THEN "zero" ELSE "signal"
    /\ UNCHANGED <<keyPlace, grant, noIoEvent, keyEvent, cryptoInfo>>

ResponderSignalIo ==
    /\ responder = "zero" /\ object # "freed"
    /\ SignalNoIo
    /\ responder' = "signal"
    /\ UNCHANGED <<keyPlace, grant, outstanding, keyEvent, cryptoInfo>>

\* Mutant: a response that brings no key does not wake the main thread.
ResponderSetKeyEvent_GrantedOnly ==
    /\ responder = "signal" /\ object # "freed"
    /\ keyEvent' = (keyEvent \/ cryptoInfo)
    /\ responder' = "done"
    /\ UNCHANGED <<keyPlace, grant, outstanding, noIoEvent, cryptoInfo>>

ResponderSetKeyEvent ==
    /\ responder = "signal" /\ object # "freed"
    /\ keyEvent' = TRUE
    /\ responder' = "done"
    /\ UNCHANGED <<keyPlace, grant, outstanding, noIoEvent, cryptoInfo>>

\* The queue was freed under the responder: what it reads and writes is no
\* longer the queue.
ResponderDangles ==
    /\ responder \notin {"idle", "done", "dangling"}
    /\ object = "freed"
    /\ responder' = "dangling"
    /\ UNCHANGED <<keyPlace, grant, outstanding, noIoEvent, keyEvent, cryptoInfo>>

-----------------------------------------------------------------------------
(* IRP_MJ_CLOSE: GingkoClose, EncryptedIoQueueStop, TCStopThreadBySemaphore.  *)

CloseFrame ==
    UNCHANGED <<starter, irpVars, outstanding, resumedEvent, suspendPending, suspended,
                modeVars, mainPc, responder, grant, ctlPc, holdVars>>

\* The close leaves the queue alone when it runs in the service's process or the
\* search of the list fails: the queue and its thread then stay for good.
CloseFindsObject ==
    /\ stopPc = "idle"
    /\ Opened
    /\ LastReferenceGone
    /\ \/ object = "listed" /\ object' = "unlisted" /\ stopPc' = "flag"
       \/ stopPc' = "returned" /\ UNCHANGED object
    /\ UNCHANGED <<semaphore, noIoEvent, keyEvent, stopPending, exitRequested, keyPlace>>

StopSetPending ==
    /\ stopPc = "flag"
    /\ stopPending' = TRUE
    /\ stopPc' = "request"
    /\ UNCHANGED <<object, semaphore, noIoEvent, keyEvent, exitRequested, keyPlace>>

\* A request the service has popped and not yet answered is in neither list.
StopWithdrawRequest ==
    /\ stopPc = "request"
    /\ keyPlace' = IF keyPlace = "requested" THEN "withdrawn" ELSE keyPlace
    /\ stopPc' = "response"
    /\ UNCHANGED <<object, semaphore, noIoEvent, keyEvent, stopPending, exitRequested>>

StopWithdrawResponse ==
    /\ stopPc = "response"
    /\ keyPlace' = IF keyPlace = "response" THEN "withdrawn" ELSE keyPlace
    /\ stopPc' = "count"
    /\ UNCHANGED <<object, semaphore, noIoEvent, keyEvent, stopPending, exitRequested>>

StopReadCount ==
    /\ stopPc = "count"
    /\ stopPc' = IF outstanding > 0 THEN "wait" ELSE "exit"
    /\ UNCHANGED <<object, semaphore, noIoEvent, keyEvent, stopPending, exitRequested,
                   keyPlace>>

StopWait ==
    /\ stopPc = "wait"
    /\ noIoEvent
    /\ noIoEvent' = FALSE
    /\ stopPc' = "count"
    /\ UNCHANGED <<object, semaphore, keyEvent, stopPending, exitRequested, keyPlace>>

StopRequestExit ==
    /\ stopPc = "exit"
    /\ exitRequested' = TRUE
    /\ stopPc' = "key"
    /\ UNCHANGED <<object, semaphore, noIoEvent, keyEvent, stopPending, keyPlace>>

\* Mutant: Stop forgets the thread that waits for its key.
StopSetKeyEvent_Forgotten ==
    /\ stopPc = "key"
    /\ stopPc' = "release"
    /\ UNCHANGED <<object, semaphore, noIoEvent, keyEvent, stopPending, exitRequested,
                   keyPlace>>

StopSetKeyEvent ==
    /\ stopPc = "key"
    /\ keyEvent' = TRUE
    /\ stopPc' = "release"
    /\ UNCHANGED <<object, semaphore, noIoEvent, stopPending, exitRequested, keyPlace>>

\* Without a thread the join that follows waits on a null object pointer.
StopRelease ==
    /\ stopPc = "release"
    /\ semaphore' = semaphore + 1
    /\ stopPc' = IF mainPc = "none" THEN "noThread" ELSE "join"
    /\ UNCHANGED <<object, noIoEvent, keyEvent, stopPending, exitRequested, keyPlace>>

\* Mutant: the queue is freed without waiting for its thread.
StopJoin_NoWait ==
    /\ stopPc = "join"
    /\ object' = "freed"
    /\ stopPc' = "returned"
    /\ UNCHANGED <<semaphore, noIoEvent, keyEvent, stopPending, exitRequested, keyPlace>>

StopJoin ==
    /\ stopPc = "join"
    /\ mainPc = "terminated"
    /\ object' = "freed"
    /\ stopPc' = "returned"
    /\ UNCHANGED <<semaphore, noIoEvent, keyEvent, stopPending, exitRequested, keyPlace>>

-----------------------------------------------------------------------------
(* The control device's last close or GINGKO_DEVICE_STOP:                    *)
(* GingkoCloseControlDevice, RemoveAllFileObjectQueue.                       *)

CtlFrame ==
    UNCHANGED <<starter, irpVars, outstanding, noIoEvent, resumedEvent, stopPending,
                suspendPending, suspended, modeVars, mainPc, keyVars, stopPc, holdVars>>

CtlClose ==
    /\ "controlClose" \in Faults
    /\ ctlPc = "idle"
    /\ ctlPc' = "closed"
    /\ UNCHANGED <<object, semaphore, keyEvent, exitRequested>>

\* The object leaves the list for good; nobody frees it afterwards.
CtlFetch ==
    /\ ctlPc = "closed"
    /\ IF object = "listed"
       THEN object' = "orphaned" /\ ctlPc' = "exit"
       ELSE ctlPc' = "returned" /\ UNCHANGED object
    /\ UNCHANGED <<semaphore, keyEvent, exitRequested>>

CtlRequestExit ==
    /\ ctlPc = "exit"
    /\ exitRequested' = TRUE
    /\ ctlPc' = "key"
    /\ UNCHANGED <<object, semaphore, keyEvent>>

CtlSetKeyEvent ==
    /\ ctlPc = "key"
    /\ keyEvent' = TRUE
    /\ ctlPc' = "release"
    /\ UNCHANGED <<object, semaphore, exitRequested>>

CtlRelease ==
    /\ ctlPc = "release"
    /\ semaphore' = semaphore + 1
    /\ ctlPc' = IF mainPc = "none" THEN "noThread" ELSE "join"
    /\ UNCHANGED <<object, keyEvent, exitRequested>>

CtlJoin ==
    /\ ctlPc = "join"
    /\ mainPc = "terminated"
    /\ ctlPc' = "returned"
    /\ UNCHANGED <<object, semaphore, keyEvent, exitRequested>>

-----------------------------------------------------------------------------
(* EncryptedIoQueueHoldWhenIdle and EncryptedIoQueueResumeFromHold.          *)

HoldFrame ==
    UNCHANGED <<object, starter, irpVars, outstanding, semaphore, keyEvent, stopPending,
                exitRequested, modeVars, mainPc, keyVars, stopPc, ctlPc>>

HoldBegin ==
    /\ holdPc = "idle"
    /\ holds < HoldLimit
    /\ starter = "started" /\ stopPc = "idle" /\ object = "listed"
    /\ holds' = holds + 1
    /\ suspendPending' = TRUE
    /\ holdPc' = "count"
    /\ UNCHANGED <<noIoEvent, resumedEvent, suspended>>

HoldReadCount ==
    /\ holdPc = "count"
    /\ holdPc' = IF outstanding > 0 THEN "wait" ELSE "clear"
    /\ UNCHANGED <<holds, noIoEvent, resumedEvent, suspendPending, suspended>>

\* A timeout, or a count that is positive again after the wait, returns
\* STATUS_UNSUCCESSFUL and leaves SuspendPending set.
HoldWait ==
    /\ holdPc = "wait"
    /\ \/ noIoEvent /\ noIoEvent' = FALSE /\ holdPc' = "recheck"
       \/ holdPc' = "idle" /\ UNCHANGED noIoEvent
    /\ UNCHANGED <<holds, resumedEvent, suspendPending, suspended>>

HoldRecheck ==
    /\ holdPc = "recheck"
    /\ holdPc' = IF outstanding > 0 THEN "idle" ELSE "count"
    /\ UNCHANGED <<holds, noIoEvent, resumedEvent, suspendPending, suspended>>

\* Mutant: a stale QueueResumedEvent is not cleared.
HoldClearResumed_Forgotten ==
    /\ holdPc = "clear"
    /\ holdPc' = "suspend"
    /\ UNCHANGED <<holds, noIoEvent, resumedEvent, suspendPending, suspended>>

HoldClearResumed ==
    /\ holdPc = "clear"
    /\ resumedEvent' = FALSE
    /\ holdPc' = "suspend"
    /\ UNCHANGED <<holds, noIoEvent, suspendPending, suspended>>

HoldSuspend ==
    /\ holdPc = "suspend"
    /\ suspended' = TRUE
    /\ holdPc' = "verify"
    /\ UNCHANGED <<holds, noIoEvent, resumedEvent, suspendPending>>

\* If an IRP was counted meanwhile: undo, wake the main thread, start over.
HoldVerify ==
    /\ holdPc = "verify"
    /\ IF outstanding = 0
       THEN /\ suspendPending' = FALSE /\ holdPc' = "held"
            /\ UNCHANGED <<suspended, resumedEvent>>
       ELSE /\ suspended' = FALSE /\ resumedEvent' = TRUE /\ holdPc' = "count"
            /\ UNCHANGED suspendPending
    /\ UNCHANGED <<holds, noIoEvent>>

ResumeFromHold ==
    /\ holdPc = "held"
    /\ suspended' = FALSE
    /\ resumedEvent' = TRUE
    /\ holdPc' = "idle"
    /\ UNCHANGED <<holds, noIoEvent, suspendPending>>

-----------------------------------------------------------------------------
Starter == StarterFrame /\ (TrackFileObject \/ StartQueue \/ StartMainThread)

Send(i) == DispatchFrame /\ DispatchIrp(i)

\* What the dispatch routine of an IRP does once the IRP has been sent.
Dispatcher(i) ==
    /\ DispatchFrame
    /\ \/ CountIrp(i) \/ CheckStopPending(i) \/ InsertIrp(i) \/ ReleaseSemaphore(i)
       \/ UncountRefused(i) \/ SignalRefused(i)

MainThread ==
    /\ MainFrame
    /\ \/ MainLoopTest \/ MainTestKey \/ MainWakeWithKey \/ MainTakeToken
       \/ MainPop \/ MainQueueEmpty \/ MainCheckSuspended \/ MainResume
       \/ MainServe \/ MainUncount \/ MainSignal

Retriever == KeyFrame /\ (RetrieveRequest \/ FinishRetrieve)

Responder ==
    /\ KeyFrame
    /\ \/ FindResponse \/ ResponderCheck \/ ResponderPin \/ ResponderInstall
       \/ ResponderUncount \/ ResponderSignalIo \/ ResponderSetKeyEvent
       \/ ResponderDangles

Close == CloseFrame /\ CloseFindsObject

\* EncryptedIoQueueStop, once the close has begun.
Stop ==
    /\ CloseFrame
    /\ \/ StopSetPending \/ StopWithdrawRequest \/ StopWithdrawResponse
       \/ StopReadCount \/ StopWait \/ StopRequestExit \/ StopSetKeyEvent
       \/ StopRelease \/ StopJoin

ControlClose == CtlFrame /\ CtlClose

RemoveAll ==
    /\ CtlFrame
    /\ CtlFetch \/ CtlRequestExit \/ CtlSetKeyEvent \/ CtlRelease \/ CtlJoin

CallHold == HoldFrame /\ HoldBegin

Hold ==
    /\ HoldFrame
    /\ \/ HoldReadCount \/ HoldWait \/ HoldRecheck \/ HoldClearResumed
       \/ HoldSuspend \/ HoldVerify \/ ResumeFromHold

Next ==
    \/ Starter
    \/ \E i \in Irps : Send(i) \/ Dispatcher(i)
    \/ MainThread
    \/ Retriever
    \/ Responder
    \/ Close \/ Stop
    \/ ControlClose \/ RemoveAll
    \/ CallHold \/ Hold

Spec == Init /\ [][Next]_vars

\* Every thread that has begun a call keeps running.  That the service, as long as
\* it lives, fetches the request and answers it is an assumption about the service
\* and its users, not something its code guarantees: no request is slept over
\* (KeyExchange), no dialog stays open and no password is lost (PasswordTable).
\* Nothing obliges anybody to send an IRP, to close the file, to close the control
\* device or to hold the queue.
Fairness ==
    /\ WF_vars(Starter)
    /\ \A i \in Irps : WF_vars(Dispatcher(i))
    /\ WF_vars(MainThread)
    /\ WF_vars(Retriever)
    /\ WF_vars(Responder)
    /\ WF_vars(Stop)
    /\ WF_vars(RemoveAll)
    /\ WF_vars(Hold)

FairSpec == Spec /\ Fairness

-----------------------------------------------------------------------------
(* Safety.                                                                   *)

\* The IRPs that OutstandingIoCount is there to count.
Outstanding ==
    { i \in Irps : irp[i] \in {"counted", "admitted", "queued", "current",
                               "completed", "refused"} }

\* A granted response counts itself while it installs the key ...
Pin == IF responder = "install" \/ (responder = "release" /\ grant = "granted")
       THEN 1 ELSE 0

\* ... and a refused one has taken back a count it never took.
Debt == IF grant = "refused" /\ responder \in {"zero", "signal", "done"}
        THEN 1 ELSE 0

(* As long as the queue exists, OutstandingIoCount is the number of IRPs     *)
(* inside it plus a responder at work, minus the one unmatched decrement of  *)
(* a refused response (GingkoPublicKeyResponse:263).                         *)
CountAccounts ==
    object # "freed" => outstanding = Cardinality(Outstanding) + Pin - Debt

(* While the main thread is not draining, an IRP whose dispatcher has left   *)
(* AddIrp is covered by a semaphore token: the thread cannot go to sleep     *)
(* over a queued IRP (EncryptedIoQueueAddIrp:826-828, MainThreadProc:599).   *)
TokenCoversQueue ==
    /\ mainPc \in {"none", "top", "testKey", "waitKey", "waitToken"}
    /\ \E k \in DOMAIN queue : queue[k] \notin unreleased
    => semaphore > 0

\* Somebody has brought the count to zero and is about to test the flags.
Signalling ==
    mainPc = "signal" \/ responder = "zero" \/ \E i \in Irps : irp[i] = "refusedZero"

(* EncryptedIoQueueStop never waits for an event that nobody will set: the   *)
(* count is still positive, or the event is set, or whoever zeroed the count *)
(* has yet to test StopPending.  With HoldWhenIdle in play the auto-reset    *)
(* event could wake the other waiter instead.                                *)
StopIsWoken ==
    stopPc = "wait" /\ HoldLimit = 0 => noIoEvent \/ outstanding > 0 \/ Signalling

(* When the close has freed the queue, its thread is gone, nothing is queued *)
(* and no IRP is on its way in: of all the threads that ever touched the     *)
(* queue only the two ioctls of the key exchange and a dispatcher that owes  *)
(* a semaphore release can still hold a pointer to it.                       *)
FreedIsQuiescent ==
    object = "freed" =>
        /\ mainPc = "terminated"
        /\ queue = <<>> /\ current = <<>>
        /\ \A i \in Irps : irp[i] \in {"unsent", "finished"}

(* HoldWhenIdle returns success only over a queue at rest, and the main      *)
(* thread then serves nothing until ResumeFromHold, whatever is queued.  An  *)
(* unmatched decrement of a refused response breaks the count this rests on. *)
HoldIsQuiet ==
    holdPc = "held" /\ grant # "refused" => mainPc \notin {"serve", "uncount"}

(* A key that was granted and installed is used: the queue falls back to     *)
(* pass-through over an installed key only if the close of the file or of    *)
(* the control device woke the thread before the responder was done.         *)
GrantedKeyIsUsed ==
    passthrough /\ cryptoInfo => ctlPc # "idle" \/ stopPc # "idle"

-----------------------------------------------------------------------------
(* The inductive invariant behind the properties above.                      *)

\* MainThreadQueue holds each queued IRP, once.
QueuePlaces ==
    /\ \A i \in Irps : irp[i] = "queued" <=> \E k \in DOMAIN queue : queue[k] = i
    /\ \A k, l \in DOMAIN queue : queue[k] = queue[l] => k = l

\* The main thread works on the IRP it has popped, and on no other.
CurrentPlaces ==
    /\ \A i \in Irps :
          irp[i] = "current" <=>
              mainPc \in {"popped", "suspended", "serve"} /\ current = <<i>>
    /\ \A i \in Irps : irp[i] = "completed" <=> mainPc = "uncount" /\ current = <<i>>
    /\ mainPc \in {"popped", "suspended", "serve", "uncount"} =>
          \E i \in Irps : current = <<i>>
    /\ mainPc \notin {"popped", "suspended", "serve", "uncount"} => current = <<>>

\* An IRP has its result once it is completed.
ResultPlaces ==
    \A i \in Irps : result[i] # "none" <=> irp[i] \in {"completed", "finished"}

IrpPlaces == QueuePlaces /\ CurrentPlaces /\ ResultPlaces

\* The life of the object against the progress of create, thread and close.
LifeCycle ==
    /\ starter = "idle" <=> object = "none"
    /\ starter = "started" <=> mainPc # "none"
    /\ ~Opened => /\ \A i \in Irps : irp[i] = "unsent"
                  /\ stopPc = "idle"
                  /\ ~passthrough
    /\ stopPc # "idle" =>
          \A i \in Irps : irp[i] \in {"unsent", "completed", "finished"}
    /\ stopPc \in {"idle", "returned"} <=> object # "unlisted"
    /\ object = "freed" => stopPc = "returned" /\ mainPc = "terminated"

\* A responder's progress against what the response said.
GrantPlaces ==
    /\ responder \in {"idle", "found"} => grant = "none"
    /\ responder \in {"pin", "install"} => grant = "granted"
    /\ responder \in {"release", "zero", "signal", "done"} => grant # "none"
    /\ keyPlace # "taken" => responder = "idle"
    /\ starter \in {"idle", "inserted"} => keyPlace = "none"

StopFlagged ==
    stopPc \notin {"idle", "flag", "returned"} => stopPending

\* The suspension flag and the event that ends it follow the holder.
HoldPlaces ==
    /\ HoldLimit = 0 => holdPc = "idle"
    /\ suspended <=> holdPc \in {"verify", "held"}
    /\ holdPc \in {"suspend", "verify", "held"} => ~resumedEvent
    /\ holdPc # "idle" => Opened

\* The key wait is passed only with a decision taken.
ModeDecided ==
    /\ mainPc \in {"waitToken", "drain", "popped", "suspended", "serve", "uncount",
                   "signal"} => passthrough \/ cryptoInfo
    /\ mainPc = "waitKey" => ~passthrough
    /\ passthrough => keyEvent
    /\ keyEvent => responder = "done" \/ ctlPc # "idle" \/ stopPc # "idle"

IInv ==
    /\ TypeOK
    /\ IrpPlaces /\ LifeCycle /\ GrantPlaces /\ StopFlagged /\ HoldPlaces
    /\ ModeDecided
    /\ CountAccounts /\ TokenCoversQueue /\ StopIsWoken
    /\ HoldIsQuiet /\ GrantedKeyIsUsed

-----------------------------------------------------------------------------
(* The queue implements the abstract service.                                *)

Unanswered ==
    (IF mainPc \in {"popped", "suspended", "serve"} THEN current ELSE <<>>) \o queue

ReadMode ==
    IF passthrough THEN "raw" ELSE IF cryptoInfo THEN "plain" ELSE "undecided"

Service == INSTANCE PendedIrpService WITH pending <- Unanswered, mode <- ReadMode

(* Pended IRPs are answered exactly once, in the order they were pended, and *)
(* all reads of the file object are answered in the same mode.               *)
ImplementsService == Service!Spec

-----------------------------------------------------------------------------
(* Liveness (under FairSpec).                                                *)

(* Every IRP that enters the queue is answered.                              *)
EveryIrpAnswered == \A i \in Irps : irp[i] = "found" ~> result[i] # "none"

(* IRP_MJ_CLOSE of a tracked file returns, with the queue freed.             *)
CloseFinishes == stopPc = "flag" ~> object = "freed"

-----------------------------------------------------------------------------
(* What an assertion of the source says (gingko_ioqueue.c:1062): a queue is  *)
(* stopped only while StopPending is FALSE.                                  *)
AssertNotStopPending == stopPc = "flag" => ~stopPending
=============================================================================
