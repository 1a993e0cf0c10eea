---------------------------- MODULE KeyExchange ----------------------------
(***************************************************************************)
(* How the requests for keys get from the queues to the service, and the   *)
(* answers back.                                                           *)
(*                                                                         *)
(* A queue that starts lists its request (EncryptedIoQueueStart) and sets  *)
(* ReadEvent, an auto-reset event.  The service's thread waits for it,     *)
(* then fetches requests until it finds the list empty (DeviceIoThread-    *)
(* Proc), and starts a thread for each, which brings the answer (Request-  *)
(* KeyThreadProc).  The driver keeps a response entry meanwhile, by which  *)
(* the answer finds its queue.  A queue that stops looks for its request   *)
(* by taking the entries off the head of the list and putting the others   *)
(* back at its tail (EncryptedIoQueueStop), and then for its response      *)
(* entry, under a mutex.                                                   *)
(*                                                                         *)
(* What a queue does with its answer is the subject of EncryptedIoQueue.   *)
(***************************************************************************)
EXTENDS Integers, Sequences, FiniteSets

CONSTANTS Queues,    \* the encrypted I/O queues, each of one open file
          NoQueue,   \* the null pointer
          Faults     \* what may fail

ASSUME NoQueueAssumption == NoQueue \notin Queues
ASSUME FaultsAssumption  ==
    Faults \subseteq {"start",       \* EncryptedIoQueueStart, after it has listed its request
                      "memory",      \* TCalloc of the response entry
                      "badBuffer",   \* GET_REQUEST: exception while filling the answer
                      "malloc",      \* the service's memory for the next request
                      "thread"}      \* StartThread

VARIABLES
    requests,    \* gGingkoPublicKeyRequestQueue
    responses,   \* gGingkoPublicKeyResponseQueue
    phase,       \* what the file's create or close has come to
    hand,        \* tempQueue: the entry a Stop has taken off the list
    first,       \* pfirst
    readEvent,   \* SharedNotification->ReadEvent, bags->hEvent
    service,     \* where DeviceIoThreadProc is
    taken,       \* the request it has fetched
    thread,      \* the request threads, by the queue of the request
    count,       \* gChildThreadCount
    exit,        \* bThreadExit
    stopper,     \* where StopThread is
    missed,      \* history: a request may be listed without an event
    alone,       \* history: no other Stop, and no fetch, met this Stop
    lost         \* history: the requests whose thread could not be created

fileVars    == <<phase, hand, first>>
serviceVars == <<service, taken, count>>
stopVars    == <<exit, stopper>>
serviceSide == <<serviceVars, stopVars, thread>>
lists       == <<requests, responses>>
history     == <<missed, alone, lost>>
vars == <<lists, readEvent, fileVars, serviceSide, history>>

TypeOK ==
    /\ requests \in Seq(Queues) /\ responses \subseteq Queues
    /\ phase \in [Queues -> {"new", "listed", "open", "rotating", "unlisting", "stopped"}]
    /\ hand \in [Queues -> Queues \cup {NoQueue}]
    /\ first \in [Queues -> Queues \cup {NoQueue}]
    /\ \A q \in Queues : hand[q] # NoQueue => phase[q] = "rotating"
    /\ readEvent \in BOOLEAN
    /\ service \in {"waiting", "fetching", "listing", "starting", "counting",
                    "testing", "draining", "closed"}
    /\ taken \in Queues \cup {NoQueue}
    /\ taken # NoQueue <=> service \in {"listing", "starting", "counting"}
    /\ thread \in [Queues -> {"none", "asking", "polling", "running", "ending"}]
    /\ count \in Int
    /\ exit \in BOOLEAN /\ stopper \in {"idle", "between", "done"}
    /\ missed \in BOOLEAN /\ alone \in [Queues -> BOOLEAN] /\ lost \subseteq Queues

Init ==
    /\ requests = <<>> /\ responses = {}
    /\ phase = [q \in Queues |-> "new"]
    /\ hand = [q \in Queues |-> NoQueue] /\ first = [q \in Queues |-> NoQueue]
    /\ readEvent = FALSE /\ service = "testing" /\ taken = NoQueue
    /\ thread = [q \in Queues |-> "none"] /\ count = 0
    /\ exit = FALSE /\ stopper = "idle"
    /\ missed = FALSE /\ alone = [q \in Queues |-> FALSE] /\ lost = {}

Becomes(q, p) == phase' = [phase EXCEPT ![q] = p]

-----------------------------------------------------------------------------
(* EncryptedIoQueueStart, in the create of the file.                         *)

\* The key is asked for, or it is one of those the process has been given.
StartInserts(q) ==
    /\ phase[q] = "new" /\ service # "closed"
    /\ Becomes(q, "listed")
    /\ requests' = Append(requests, q) \/ UNCHANGED requests
    /\ UNCHANGED <<responses, hand, first, readEvent, serviceSide, history>>

StartSignals(q) ==
    /\ phase[q] = "listed"
    /\ Becomes(q, "open")
    /\ readEvent' = TRUE
    /\ UNCHANGED <<lists, hand, first, serviceSide, history>>

\* The main thread could not be created: the request stays listed.
StartFails(q) ==
    /\ "start" \in Faults
    /\ phase[q] = "listed"
    /\ Becomes(q, "open")
    /\ missed' = TRUE
    /\ UNCHANGED <<lists, hand, first, readEvent, serviceSide, alone, lost>>

-----------------------------------------------------------------------------
(* EncryptedIoQueueStop, in the close of the file.                           *)

Stopping(q) == phase[q] \in {"rotating", "unlisting"}

StopBegins(q) ==
    /\ phase[q] = "open"
    /\ Becomes(q, "rotating")
    /\ first' = [first EXCEPT ![q] = NoQueue]
    /\ alone' = [p \in Queues |->
                   IF p = q
                   THEN taken = NoQueue /\ \A r \in Queues : ~Stopping(r)
                   ELSE alone[p] /\ ~Stopping(p)]
    /\ UNCHANGED <<lists, hand, readEvent, serviceSide, missed, lost>>

\* Mutant: the head entry is looked at but left on the list.
StopTakes_Peeks(q) ==
    /\ phase[q] = "rotating" /\ hand[q] = NoQueue
    /\ requests # <<>>
    /\ hand' = [hand EXCEPT ![q] = Head(requests)]
    /\ UNCHANGED <<lists, phase, first, readEvent, serviceSide, history>>

StopTakes(q) ==
    /\ phase[q] = "rotating" /\ hand[q] = NoQueue
    /\ requests # <<>>
    /\ hand' = [hand EXCEPT ![q] = Head(requests)]
    /\ requests' = Tail(requests)
    /\ UNCHANGED <<responses, phase, first, readEvent, serviceSide, history>>

StopFindsEmpty(q) ==
    /\ phase[q] = "rotating" /\ hand[q] = NoQueue
    /\ requests = <<>>
    /\ Becomes(q, "unlisting")
    /\ UNCHANGED <<lists, hand, first, readEvent, serviceSide, history>>

PutBack(q) ==
    /\ hand[q] # NoQueue
    /\ requests' = Append(requests, hand[q])
    /\ hand' = [hand EXCEPT ![q] = NoQueue]
    /\ UNCHANGED <<responses, readEvent, serviceSide, history>>

\* Mutant: the first entry is not remembered.
StopPutsBack_NoFirst(q) ==
    /\ PutBack(q)
    /\ hand[q] # q
    /\ UNCHANGED <<first, phase>>

\* Another queue's request.
StopPutsBack(q) ==
    /\ PutBack(q)
    /\ hand[q] # q /\ hand[q] # first[q]
    /\ first' = IF first[q] = NoQueue THEN [first EXCEPT ![q] = hand[q]] ELSE first
    /\ UNCHANGED phase

\* Mutant: any second entry is taken for the first one.
StopComesRound_Early(q) ==
    /\ PutBack(q)
    /\ first[q] # NoQueue
    /\ Becomes(q, "unlisting")
    /\ UNCHANGED first

\* Mutant: the loop is left without putting the entry back.
StopComesRound_KeepsEntry(q) ==
    /\ hand[q] # NoQueue /\ hand[q] = first[q]
    /\ Becomes(q, "unlisting")
    /\ UNCHANGED <<lists, hand, first, readEvent, serviceSide, history>>

\* It is the entry it saw first.
StopComesRound(q) ==
    /\ PutBack(q)
    /\ hand[q] = first[q]
    /\ Becomes(q, "unlisting")
    /\ UNCHANGED first

StopFindsRequest(q) ==
    /\ hand[q] = q /\ first[q] # q
    /\ hand' = [hand EXCEPT ![q] = NoQueue]
    /\ Becomes(q, "unlisting")
    /\ UNCHANGED <<lists, first, readEvent, serviceSide, history>>

\* Mutant: the first response entry there is, is freed.
StopUnlists_Any(q) ==
    /\ phase[q] = "unlisting"
    /\ Becomes(q, "stopped")
    /\ IF responses = {} THEN UNCHANGED responses
       ELSE \E r \in responses : responses' = responses \ {r}
    /\ UNCHANGED <<requests, hand, first, readEvent, serviceSide, history>>

\* FindEncryptionIoQueueFromResponseKeyList, with no queue to return.
StopUnlists(q) ==
    /\ phase[q] = "unlisting"
    /\ Becomes(q, "stopped")
    /\ responses' = responses \ {q}
    /\ UNCHANGED <<requests, hand, first, readEvent, serviceSide, history>>

Stop(q) ==
    \/ StopTakes(q) \/ StopFindsEmpty(q) \/ StopPutsBack(q) \/ StopComesRound(q)
    \/ StopFindsRequest(q) \/ StopUnlists(q)

-----------------------------------------------------------------------------
(* DeviceIoThreadProc, with GingkoRetrievPublicKeyRequest in the driver.     *)

Serves(place) == service' = place

\* Its inner loop ends; what it leaves on the list, or in the hand of a Stop, is not
\* announced again.
LeavesLoop(left) ==
    /\ Serves("testing")
    /\ missed' = (missed \/ left # <<>> \/ \E q \in Queues : hand[q] # NoQueue)

ServiceWakes ==
    /\ service = "waiting" /\ readEvent
    /\ readEvent' = FALSE
    /\ Serves("fetching")
    /\ missed' = FALSE
    /\ UNCHANGED <<lists, fileVars, taken, count, stopVars, thread, alone,
                   lost>>

ServiceFetches ==
    /\ service = "fetching" /\ requests # <<>>
    /\ taken' = Head(requests)
    /\ requests' = Tail(requests)
    /\ Serves("listing")
    /\ alone' = [q \in Queues |-> alone[q] /\ ~Stopping(q)]
    /\ UNCHANGED <<responses, readEvent, fileVars, count, stopVars, thread,
                   missed, lost>>

ServiceFindsEmpty ==
    /\ service = "fetching" /\ requests = <<>>
    /\ LeavesLoop(requests)
    /\ UNCHANGED <<lists, readEvent, fileVars, taken, count, stopVars, thread,
                   alone, lost>>

\* No memory for the next request: the driver is not asked, the loop ends.
ServiceCannotFetch ==
    /\ "malloc" \in Faults
    /\ service = "fetching"
    /\ LeavesLoop(requests)
    /\ UNCHANGED <<lists, readEvent, fileVars, taken, count, stopVars, thread,
                   alone, lost>>

ServiceLists ==
    /\ service = "listing"
    /\ responses' = responses \cup {taken}
    /\ Serves("starting")
    /\ UNCHANGED <<requests, readEvent, fileVars, taken, count, stopVars,
                   thread, history>>

\* No memory for the response entry: the request is dropped, the loop ends.
ServiceDrops ==
    /\ "memory" \in Faults
    /\ service = "listing"
    /\ taken' = NoQueue
    /\ LeavesLoop(requests)
    /\ UNCHANGED <<lists, readEvent, fileVars, count, stopVars, thread, alone,
                   lost>>

\* The answer cannot be written: the request goes back to the tail, the loop ends.
ServiceRelists ==
    /\ "badBuffer" \in Faults
    /\ service = "listing"
    /\ requests' = Append(requests, taken)
    /\ taken' = NoQueue
    /\ LeavesLoop(requests')
    /\ UNCHANGED <<responses, readEvent, fileVars, count, stopVars, thread, alone,
                   lost>>

\* StartThread, whose result is not looked at.  The document and the other threads
\* decide whether it has to ask its user for a password, waits for one that is asked
\* for already, or needs none.
ServiceStartsThread ==
    /\ service = "starting"
    /\ Serves("counting")
    /\ \/ /\ \E place \in {"asking", "polling", "running"} :
                thread' = [thread EXCEPT ![taken] = place]
          /\ UNCHANGED lost
       \/ "thread" \in Faults /\ lost' = lost \cup {taken} /\ UNCHANGED thread
    /\ UNCHANGED <<lists, readEvent, fileVars, taken, count, stopVars, missed,
                   alone>>

\* Mutant: one request is fetched for each event.
ServiceCounts_FetchesOne ==
    /\ service = "counting"
    /\ count' = count + 1
    /\ taken' = NoQueue
    /\ Serves("testing")
    /\ UNCHANGED <<lists, readEvent, fileVars, stopVars, thread, history>>

ServiceCounts ==
    /\ service = "counting"
    /\ count' = count + 1
    /\ taken' = NoQueue
    /\ Serves("fetching")
    /\ UNCHANGED <<lists, readEvent, fileVars, stopVars, thread, history>>

ServiceTests ==
    /\ service = "testing"
    /\ Serves(IF exit THEN "draining" ELSE "waiting")
    /\ UNCHANGED <<lists, readEvent, fileVars, taken, count, stopVars, thread,
                   history>>

\* Mutant: the handle is closed as soon as no response is awaited.
ServiceCloses_NothingAwaited ==
    /\ service = "draining" /\ responses = {}
    /\ Serves("closed")
    /\ UNCHANGED <<lists, readEvent, fileVars, taken, count, stopVars, thread,
                   history>>

\* The last request thread has ended: the driver is told, its handle is closed.
ServiceCloses ==
    /\ service = "draining" /\ count <= 0
    /\ Serves("closed")
    /\ UNCHANGED <<lists, readEvent, fileVars, taken, count, stopVars, thread,
                   history>>

Service ==
    \/ ServiceWakes \/ ServiceFetches \/ ServiceFindsEmpty \/ ServiceCannotFetch
    \/ ServiceLists \/ ServiceDrops \/ ServiceRelists \/ ServiceStartsThread
    \/ ServiceCounts \/ ServiceTests \/ ServiceCloses

-----------------------------------------------------------------------------
(* RequestKeyThreadProc, with GingkoPublicKeyResponse in the driver.         *)

\* The user is done with the thread's last dialog, which has sent a password, or
\* not.  The thread waits for each dialog without a timeout; the password of an
\* earlier one was wrong.
DialogEnds(q) ==
    /\ thread[q] = "asking"
    /\ \E place \in {"polling", "running"} : thread' = [thread EXCEPT ![q] = place]
    /\ UNCHANGED <<lists, readEvent, fileVars, serviceVars, stopVars, history>>

\* The password is there.  It may never come; but a thread gives up polling when
\* the service is told to stop.
PollEnds(q) ==
    /\ thread[q] = "polling"
    /\ thread' = [thread EXCEPT ![q] = "running"]
    /\ UNCHANGED <<lists, readEvent, fileVars, serviceVars, stopVars, history>>

\* The entry is looked for under the mutex; there is none if the file is closed.
PutsResponse(q) ==
    /\ thread[q] = "running"
    /\ responses' = responses \ {q}
    /\ thread' = [thread EXCEPT ![q] = "ending"]
    /\ UNCHANGED <<requests, readEvent, fileVars, serviceVars, stopVars,
                   history>>

Ends(q) ==
    /\ thread[q] = "ending"
    /\ thread' = [thread EXCEPT ![q] = "none"]
    /\ count' = count - 1
    /\ UNCHANGED <<lists, readEvent, fileVars, service, taken, stopVars,
                   history>>

RequestThread(q) == DialogEnds(q) \/ PollEnds(q) \/ PutsResponse(q) \/ Ends(q)

-----------------------------------------------------------------------------
(* StopThread, when the service is told to stop.                             *)

\* Mutant: the event is set before the flag.
StopThread_EventFirst ==
    /\ \/ stopper = "idle" /\ stopper' = "between" /\ readEvent' = TRUE /\ UNCHANGED exit
       \/ stopper = "between" /\ stopper' = "done" /\ exit' = TRUE /\ UNCHANGED readEvent
    /\ UNCHANGED <<lists, fileVars, serviceVars, thread, history>>

StopThread ==
    /\ \/ stopper = "idle" /\ stopper' = "between" /\ exit' = TRUE /\ UNCHANGED readEvent
       \/ stopper = "between" /\ stopper' = "done" /\ readEvent' = TRUE /\ UNCHANGED exit
    /\ UNCHANGED <<lists, fileVars, serviceVars, thread, history>>

-----------------------------------------------------------------------------
Next ==
    \/ \E q \in Queues : \/ StartInserts(q) \/ StartSignals(q) \/ StartFails(q)
                         \/ StopBegins(q) \/ Stop(q) \/ RequestThread(q)
    \/ Service \/ StopThread

Spec == Init /\ [][Next]_vars

\* Every thread inside a call keeps running, unless it waits for its user; what else
\* the service's threads wait for, the key server and the helper that they start to
\* enter a process (GingkoServiceThread.cpp:766), is taken to answer.  Nobody has to
\* open or close a file, to answer a dialog, or to stop the service.
FairSpec ==
    /\ Spec
    /\ \A q \in Queues : /\ WF_vars(StartSignals(q) \/ StartFails(q))
                         /\ WF_vars(Stop(q)) /\ WF_vars(PutsResponse(q) \/ Ends(q))
                         /\ WF_vars(PollEnds(q) /\ exit)
    /\ WF_vars(Service) /\ WF_vars(StopThread /\ stopper = "between")

-----------------------------------------------------------------------------
(* Properties.                                                               *)

Listed(q) == \E i \in DOMAIN requests : requests[i] = q
InHand(q) == \E p \in Queues : hand[p] = q
Fetched(q) == taken = q /\ service = "listing"

(* A request is in one place at most, however many Stops turn the list over  *)
(* while the service fetches from it (gingko_ioqueue.c:1071-1086,            *)
(* gingko_interact.c:100-159): on the list once, in one hand, fetched, or    *)
(* awaiting its answer.                                                      *)
RequestOnce ==
    /\ \A i, j \in DOMAIN requests : requests[i] = requests[j] => i = j
    /\ \A p, q \in Queues : hand[p] = hand[q] /\ hand[p] # NoQueue => p = q
    /\ \A q \in Queues : /\ Listed(q) => ~InHand(q) /\ ~Fetched(q) /\ q \notin responses
                         /\ InHand(q) => ~Fetched(q) /\ q \notin responses
                         /\ Fetched(q) => q \notin responses

(* The event is set after the request is listed, and the service empties the *)
(* list after each event: it does not sleep over a request, unless, since it *)
(* woke last, a Stop had one in hand when the service found the list empty,  *)
(* a fetch failed before the list was empty (no memory in the service or in  *)
(* the driver, or an answer that could not be written, whose request goes    *)
(* back to the list), or a Start failed after it had listed its request      *)
(* (gingko_ioqueue.c:1002-1013, gingko_interact.c:108-166,                   *)
(* GingkoCheapman.cpp:104-142, 262-282).                                     *)
ListedIsAnnounced ==
    service \in {"testing", "waiting"} /\ requests # <<>> =>
        readEvent \/ missed \/ \E q \in Queues : phase[q] = "listed"

\* It has not brought its answer yet.
Unanswered(q) == thread[q] \in {"asking", "polling", "running"}

(* The answer to a request finds the response entry of its queue, unless the *)
(* queue has been stopped, however long the user takes                       *)
(* (gingko_interact.c:154-159, 178-218, 237).                                *)
AnswerFindsQueue ==
    \A q \in Queues : Unanswered(q) => q \in responses \/ phase[q] = "stopped"

(* A Stop that no other Stop and no fetch has met leaves no entry of its     *)
(* queue behind (gingko_ioqueue.c:1071-1091).                                *)
LoneStopUnlists ==
    \A q \in Queues : phase[q] = "stopped" /\ alone[q] =>
        ~Listed(q) /\ ~InHand(q) /\ ~Fetched(q) /\ q \notin responses

(* The service closes its handle of the driver only after the last answer:   *)
(* the count, kept by another thread than those it counts, covers them       *)
(* (GingkoCheapman.cpp:276-291, 369-370).                                    *)
ServiceOutlivesThreads ==
    service = "closed" => \A q \in Queues : thread[q] = "none"

(* Such a Stop also ends: it meets again the entry it saw first (under       *)
(* FairSpec).                                                                *)
LoneStopEnds ==
    \A q \in Queues : phase[q] = "rotating" /\ alone[q] ~> phase[q] # "rotating" \/ ~alone[q]

(* A service that is told to stop stops, if no dialog stays open for ever:   *)
(* nothing ends the wait for one but its user.  The other exception is a     *)
(* thread that could not be created but is counted (under FairSpec;          *)
(* GingkoCheapman.cpp:216-231, 276-291, GingkoServiceThread.cpp:469-505).    *)
ServiceEnds ==
    (\A q \in Queues : []<>(thread[q] # "asking")) =>
        (exit ~> service = "closed" \/ lost # {})

-----------------------------------------------------------------------------
(* The inductive invariant behind the safety properties.                     *)

Nowhere(q) == ~Listed(q) /\ ~InHand(q) /\ ~Fetched(q) /\ q \notin responses

NewUnlisted == \A q \in Queues : phase[q] = "new" => Nowhere(q)

\* The service has a thread for it, or is about to start one.
Begun(q) ==
    \/ thread[q] # "none"
    \/ taken = q /\ service \in {"starting", "counting"}

\* No request is begun twice.
BegunOnce ==
    /\ \A q \in Queues : Begun(q) => /\ phase[q] # "new"
                                     /\ ~Listed(q) /\ ~InHand(q) /\ ~Fetched(q)
    /\ service = "starting" => thread[taken] = "none"

\* What ListedIsAnnounced says of the list holds of the hands, too.
Announced ==
    /\ service \in {"testing", "waiting"} /\ ~readEvent /\ ~missed
    /\ \A q \in Queues : phase[q] # "listed"
    => requests = <<>> /\ \A q \in Queues : hand[q] = NoQueue

\* The response entry is there before the thread is started.
ListedFirst == service = "starting" => taken \in responses \/ phase[taken] = "stopped"

LoneStops ==
    \A q \in Queues : Stopping(q) /\ alone[q] =>
        taken = NoQueue /\ \A p \in Queues : Stopping(p) => p = q

\* Everything behind the entry it saw first is another queue's.
Compared(q) ==
    \/ hand[q] = first[q] /\ ~Listed(q)
    \/ \E k \in DOMAIN requests : /\ requests[k] = first[q]
                                  /\ \A j \in DOMAIN requests : j > k => requests[j] # q

LoneWalks ==
    \A q \in Queues : alone[q] =>
        /\ phase[q] = "rotating" /\ first[q] # NoQueue => first[q] # q /\ Compared(q)
        /\ phase[q] = "unlisting" => ~Listed(q) /\ ~InHand(q)

Active == {q \in Queues : thread[q] # "none"}

\* The count is behind by the thread that has just been started, at most.
CountCovers ==
    /\ IsFiniteSet(Active)
    /\ Cardinality(Active) <= count + IF service = "counting" THEN 1 ELSE 0

KInv ==
    /\ TypeOK /\ RequestOnce /\ NewUnlisted /\ Announced
    /\ BegunOnce /\ ListedFirst /\ AnswerFindsQueue
    /\ LoneStops /\ LoneWalks /\ LoneStopUnlists
    /\ CountCovers /\ ServiceOutlivesThreads

-----------------------------------------------------------------------------
(* What a comment of the source says: Stop is to "remove the EncryptedIo-    *)
(* Queue from the list" (gingko_ioqueue.c:1090) before the queue is freed.   *)
StoppedIsUnlisted ==
    \A q \in Queues : phase[q] = "stopped" => ~Listed(q) /\ ~InHand(q)
=============================================================================
