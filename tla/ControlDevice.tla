--------------------------- MODULE ControlDevice ---------------------------
(***************************************************************************)
(* The control device of the driver, and the notification block that a     *)
(* START of the service publishes to the dispatch routines.                *)
(*                                                                         *)
(* Handles are counted in GingkoControlDeviceReferenct, and the last close *)
(* closes the session down, as the STOP ioctl does.  None of it is under a *)
(* lock: the count is an ordinary variable, GingkoCloseControlDevice has   *)
(* its lock commented out, and the dispatch routines read the state, the   *)
(* block and its fields one after the other.                               *)
(*                                                                         *)
(* The clients are the lives of the service, one after the other, and      *)
(* tools (Bootstrap) that open the device at any time.  Each opens the     *)
(* device once.  What RemoveAllFileObjectQueue does in a close-down is in  *)
(* FileObjectList.                                                         *)
(***************************************************************************)
EXTENDS Integers, FiniteSets

CONSTANTS Services,   \* the lives of the service
          Tools,      \* other programs that open the control device
          Gates,      \* threads in GingkoCreate or GingkoRead
          NoBlock     \* the null pointer

Clients == Services \cup Tools

ASSUME ClientAssumption ==
    IsFiniteSet(Clients) /\ Services \cap Tools = {} /\ NoBlock \notin Services

VARIABLES
    refct,     \* GingkoControlDeviceReferenct
    state,     \* gControlDeviceState
    started,   \* gGingkoServerStarted
    block,     \* gGingkoNotification; a block has the name of the life that made it
    heap,      \* what has become of each block
    pc,        \* where each client is, between its calls or in the driver
    closing,   \* where it is in GingkoCloseControlDevice
    read,      \* what it read of the count
    mine,      \* mLocal
    gate,      \* where each dispatch routine is
    snf,       \* the block it holds
    saw,       \* what that block was when it last read a field of it
    wild,      \* history: a null block was written or a block freed twice
    lost,      \* history: a count was written over a newer one
    met,       \* history: a last close met an open or another last close
    refused,   \* history: the lives whose START took nothing over
    shared,    \* history: the lives that opened while a tool had the device open
    newer      \* history: gates that were passed before the latest START

countVars   == <<refct, read>>
sessionVars == <<state, started, block>>
heapVars    == <<heap, mine, wild>>
clientVars  == <<pc, closing>>
gateVars    == <<gate, snf, saw>>
history     == <<lost, met, refused, shared, newer>>
vars == <<countVars, sessionVars, heapVars, clientVars, gateVars, history>>

Places == {"idle", "opening", "counted", "opened", "filling", "filled", "starting", "running",
           "stopping", "stopped", "uncounting", "testing", "closing", "closed", "fault"}

Stages == {"no", "test", "close", "block", "take", "forget", "stop", "free", "forgetAgain",
           "stopAgain", "closeAgain"}

GatePlaces == {"outside", "server", "serverRead", "serverTest", "state", "read", "test",
               "inside", "key", "keyTest", "keySignal"}

BlockStates == {"none", "raw", "ready", "freed"}

SessionTypes ==
    /\ refct \in Int /\ read \in [Clients -> Int]
    /\ state \in {"CLOSED", "OPENED"} /\ started \in BOOLEAN
    /\ block \in Services \cup {NoBlock}

ClientTypes ==
    /\ pc \in [Clients -> Places] /\ closing \in [Clients -> Stages]
    /\ \A c \in Clients : closing[c] # "no" <=> pc[c] \in {"stopping", "closing"}
    /\ mine \in [Clients -> Services \cup {NoBlock}]

HeapTypes ==
    /\ heap \in [Services -> BlockStates]
    /\ gate \in [Gates -> GatePlaces] /\ snf \in [Gates -> Services \cup {NoBlock}]
    /\ saw \in [Gates -> BlockStates \cup {"nothing"}]

HistoryTypes ==
    /\ wild \in BOOLEAN /\ lost \in BOOLEAN /\ met \in BOOLEAN
    /\ refused \subseteq Services /\ shared \subseteq Services /\ newer \subseteq Gates

TypeOK == SessionTypes /\ ClientTypes /\ HeapTypes /\ HistoryTypes

Init ==
    /\ refct = 0 /\ read = [c \in Clients |-> 0]
    /\ state = "CLOSED" /\ started = FALSE /\ block = NoBlock
    /\ heap = [s \in Services |-> "none"]
    /\ pc = [c \in Clients |-> "idle"] /\ closing = [c \in Clients |-> "no"]
    /\ mine = [c \in Clients |-> NoBlock]
    /\ gate = [g \in Gates |-> "outside"] /\ snf = [g \in Gates |-> NoBlock]
    /\ saw = [g \in Gates |-> "nothing"]
    /\ wild = FALSE /\ lost = FALSE /\ met = FALSE /\ refused = {} /\ shared = {}
    /\ newer = {}

Goes(c, from, to) == pc[c] = from /\ pc' = [pc EXCEPT ![c] = to]

-----------------------------------------------------------------------------
(* GingkoCreate and GingkoClose of the control device.  The count is read    *)
(* and written back in two steps.                                            *)

\* The service manager starts a life of the service after the last has ended,
\* and with it the last has closed its handles.
MayOpen(c) == c \in Services => \A s \in Services : pc[s] \in {"idle", "closed"}

Present(c) == pc[c] \notin {"idle", "closed"}

ReadsCount(c) == read' = [read EXCEPT ![c] = refct]

\* The value read is used up.
WritesCount(c, n) ==
    /\ refct' = n /\ read' = [read EXCEPT ![c] = 0]
    /\ lost' = (lost \/ refct # read[c])

LastCloses == {c \in Clients : pc[c] = "closing"}

OpenReads(c) ==
    /\ MayOpen(c) /\ Goes(c, "idle", "opening")
    /\ ReadsCount(c)
    /\ UNCHANGED <<refct, closing, sessionVars, heapVars, gateVars, history>>

OpenWrites(c) ==
    /\ Goes(c, "opening", "counted")
    /\ WritesCount(c, read[c] + 1)
    /\ met' = (met \/ LastCloses # {})
    /\ shared' = shared \cup {s \in Services : s = c /\ \E b \in Tools : Present(b)}
    /\ UNCHANGED <<closing, sessionVars, heapVars, gateVars, refused, newer>>

OpenSets(c) ==
    /\ Goes(c, "counted", "opened")
    /\ state' = "OPENED"
    /\ UNCHANGED <<countVars, closing, started, block, heapVars, gateVars, history>>

\* A handle is closed by its owner, or by the system when its owner dies.
MayClose(c) == pc[c] \in {"opened", "running", "stopped"}

CloseReads(c) ==
    /\ MayClose(c) /\ pc' = [pc EXCEPT ![c] = "uncounting"]
    /\ ReadsCount(c)
    /\ UNCHANGED <<refct, closing, sessionVars, heapVars, gateVars, history>>

CloseWrites(c) ==
    /\ Goes(c, "uncounting", "testing")
    /\ WritesCount(c, read[c] - 1)
    /\ UNCHANGED <<closing, sessionVars, heapVars, gateVars, met, refused, shared, newer>>

\* Mutant: the last but one close is taken for the last.
CloseTestsLast_OffByOne(c) ==
    /\ Goes(c, "testing", "closing") /\ refct <= 1
    /\ closing' = [closing EXCEPT ![c] = "test"]
    /\ met' = (met \/ LastCloses # {})
    /\ UNCHANGED <<countVars, sessionVars, heapVars, gateVars, lost, refused, shared, newer>>

\* Mutant: the session is left to the STOP ioctl.
CloseTestsLast_LeavesSession(c) ==
    /\ Goes(c, "testing", "closed") /\ refct = 0
    /\ UNCHANGED <<countVars, closing, sessionVars, heapVars, gateVars, history>>

\* The count is read again for the test.
CloseTestsLast(c) ==
    /\ Goes(c, "testing", "closing") /\ refct = 0
    /\ closing' = [closing EXCEPT ![c] = "test"]
    /\ met' = (met \/ LastCloses # {})
    /\ UNCHANGED <<countVars, sessionVars, heapVars, gateVars, lost, refused, shared, newer>>

CloseTestsNotLast(c) ==
    /\ Goes(c, "testing", "closed") /\ refct # 0
    /\ UNCHANGED <<countVars, closing, sessionVars, heapVars, gateVars, history>>

-----------------------------------------------------------------------------
(* The START and STOP ioctls of the service.                                 *)

\* The life of the service has a handle, and starts once.
\* A START while a session is up answers STATUS_SUCCESS and does nothing.
StartIgnored(s) ==
    /\ Goes(s, "opened", "running") /\ started
    /\ refused' = refused \cup {s}
    /\ UNCHANGED <<countVars, closing, sessionVars, heapVars, gateVars, lost, met, shared, newer>>

\* The null pointer goes to gGingkoNotification; the ioctl still succeeds.
StartNoMemory(s) ==
    /\ Goes(s, "opened", "running") /\ ~started
    /\ block' = NoBlock
    /\ refused' = refused \cup {s}
    /\ UNCHANGED <<countVars, closing, state, started, heapVars, gateVars, lost, met, shared, newer>>

\* Mutant: the session counts as started before the block is filled.
StartAllocates_StartedFirst(s) ==
    /\ Goes(s, "opened", "filling") /\ ~started
    /\ block' = s /\ heap' = [heap EXCEPT ![s] = "raw"] /\ started' = TRUE
    /\ newer' = newer \cup {g \in Gates : gate[g] \in {"inside", "key", "keyTest", "keySignal"}}
    /\ UNCHANGED <<countVars, closing, state, mine, wild, gateVars, lost, met, refused, shared>>

\* The block is published before it is filled.
StartAllocates(s) ==
    /\ Goes(s, "opened", "filling") /\ ~started
    /\ block' = s /\ heap' = [heap EXCEPT ![s] = "raw"]
    /\ newer' = newer \cup {g \in Gates : gate[g] \in {"inside", "key", "keyTest", "keySignal"}}
    /\ UNCHANGED <<countVars, closing, state, started, mine, wild, gateVars, lost, met, refused, shared>>

\* The copy of the caller's block, then its handles turned into pointers: all
\* of it through gGingkoNotification.
StartFills(s) ==
    /\ \/ block = s /\ Goes(s, "filling", "filled")
          /\ heap' = [heap EXCEPT ![s] = "ready"] /\ UNCHANGED wild
       \/ block # s /\ Goes(s, "filling", "fault")
          /\ wild' = TRUE /\ UNCHANGED heap
    /\ UNCHANGED <<countVars, closing, sessionVars, mine, gateVars, history>>

StartSetsStarted(s) ==
    /\ Goes(s, "filled", "starting")
    /\ started' = TRUE
    /\ UNCHANGED <<countVars, closing, state, block, heapVars, gateVars, history>>

StartSetsState(s) ==
    /\ Goes(s, "starting", "running")
    /\ state' = "OPENED"
    /\ UNCHANGED <<countVars, closing, started, block, heapVars, gateVars, history>>

StopBegins(s) ==
    /\ Goes(s, "running", "stopping")
    /\ closing' = [closing EXCEPT ![s] = "test"]
    /\ UNCHANGED <<countVars, sessionVars, heapVars, gateVars, history>>

Service(s) ==
    \/ StartIgnored(s) \/ StartNoMemory(s) \/ StartAllocates(s) \/ StartFills(s)
    \/ StartSetsStarted(s) \/ StartSetsState(s) \/ StopBegins(s)

-----------------------------------------------------------------------------
(* GingkoCloseControlDevice, called by STOP and by the last close.           *)

At(c, from, to) == closing[c] = from /\ closing' = [closing EXCEPT ![c] = to]

\* Mutant: STOP is taken for the close of the handle.
Returns_AsClosed(c) == closing' = [closing EXCEPT ![c] = "no"] /\ UNCHANGED pc

\* Back to the handler of the close, or to the caller of STOP.
Returns(c) ==
    /\ closing' = [closing EXCEPT ![c] = "no"]
    /\ pc' = [pc EXCEPT ![c] = IF pc[c] = "stopping" THEN "stopped" ELSE "closed"]

\* One of its assignments to the state, the started flag or the block.
Sets(c, from, to, st, on, b) ==
    /\ At(c, from, to)
    /\ state' = st /\ started' = on /\ block' = b
    /\ UNCHANGED <<pc, heapVars>>

TakesBlock(c) ==
    /\ At(c, "take", "forget")
    /\ mine' = [mine EXCEPT ![c] = block]
    /\ UNCHANGED <<pc, sessionVars, heap, wild>>

Allocated == {s \in Services : heap[s] \in {"raw", "ready"}}

\* Mutant: the block is not freed.
FreesBlock_Kept(c) ==
    /\ At(c, "free", "forgetAgain")
    /\ mine' = [mine EXCEPT ![c] = NoBlock]
    /\ UNCHANGED <<pc, sessionVars, heap, wild>>

\* RemoveAllFileObjectQueue, then the block is freed.  Its fields have been
\* read just before.
FreesBlock(c) ==
    /\ At(c, "free", "forgetAgain")
    /\ mine' = [mine EXCEPT ![c] = NoBlock]
    /\ \/ mine[c] \in Allocated
          /\ heap' = [heap EXCEPT ![mine[c]] = "freed"] /\ UNCHANGED wild
       \/ mine[c] \notin Allocated
          /\ wild' = TRUE /\ UNCHANGED heap
    /\ UNCHANGED <<pc, sessionVars>>

FindsItClosed(c) ==
    /\ closing[c] = "test" /\ state = "CLOSED"
    /\ Returns(c)
    /\ UNCHANGED <<sessionVars, heapVars>>

ClosesAgain(c) ==
    /\ closing[c] = "closeAgain" /\ state' = "CLOSED"
    /\ Returns(c)
    /\ UNCHANGED <<started, block, heapVars>>

CloseDown(c) ==
    /\ \/ FindsItClosed(c)
       \/ state # "CLOSED" /\ Sets(c, "test", "close", state, started, block)
       \/ Sets(c, "close", "block", "CLOSED", started, block)
       \/ block # NoBlock /\ Sets(c, "block", "take", state, started, block)
       \/ block = NoBlock /\ Sets(c, "block", "forgetAgain", state, started, block)
       \/ TakesBlock(c)
       \/ Sets(c, "forget", "stop", state, started, NoBlock)
       \/ Sets(c, "stop", "free", state, FALSE, block)
       \/ FreesBlock(c)
       \/ Sets(c, "forgetAgain", "stopAgain", state, started, NoBlock)
       \/ Sets(c, "stopAgain", "closeAgain", state, FALSE, block)
       \/ ClosesAgain(c)
    /\ UNCHANGED <<countVars, gateVars, history>>

Handles(c) ==
    \/ OpenReads(c) \/ OpenWrites(c) \/ OpenSets(c)
    \/ CloseReads(c) \/ CloseWrites(c) \/ CloseTestsLast(c) \/ CloseTestsNotLast(c)
    \/ CloseDown(c)

-----------------------------------------------------------------------------
(* The dispatch routines.  IsGingkoServerProcess reads the block, the gate    *)
(* looks at the pointer only, and EncryptedIoQueueStart, which a create or a  *)
(* read that the gate let in may reach, reads and uses ReadEvent.  The        *)
(* references they count in ___SharedNotificationReference nobody reads, so   *)
(* they are left out.                                                         *)

Steps(g, from, to) == gate[g] = from /\ gate' = [gate EXCEPT ![g] = to]

Condition(b) == IF b = NoBlock THEN "nothing" ELSE heap[b]

Touches(g) == saw' = [saw EXCEPT ![g] = Condition(snf[g])]

\* GingkoReferenceSharedNotification: the state first, then the pointer.
References(g, from, to, next) ==
    \/ /\ Steps(g, from, to) /\ state # "CLOSED"
       /\ UNCHANGED snf
    \/ /\ Steps(g, from, next) /\ state = "CLOSED"
       /\ snf' = [snf EXCEPT ![g] = NoBlock]
    \/ /\ Steps(g, to, next)
       /\ snf' = [snf EXCEPT ![g] = block]

Enters(g) ==
    /\ Steps(g, "outside", "server")
    /\ saw' = [saw EXCEPT ![g] = "nothing"] /\ newer' = newer \ {g}
    /\ UNCHANGED snf

\* The caller is never taken for the service: ServerProcess holds a pointer, and
\* ClientProcess is NULL in the block that the service passes.
ServerTest(g) ==
    /\ Steps(g, "serverTest", "state")
    /\ IF started /\ snf[g] # NoBlock THEN Touches(g) ELSE UNCHANGED saw
    /\ UNCHANGED <<snf, newer>>

GateTest(g) ==
    /\ \/ Steps(g, "test", "inside") /\ started /\ snf[g] # NoBlock
       \/ Steps(g, "test", "outside") /\ (~started \/ snf[g] = NoBlock)
    /\ snf' = [snf EXCEPT ![g] = NoBlock]
    /\ UNCHANGED <<saw, newer>>

\* Start tests ReadEvent through the block, dereferences the block, lists its
\* request and creates its thread, and sets ReadEvent through the block.
KeyTest(g) ==
    /\ \/ Steps(g, "keyTest", "keySignal") /\ snf[g] # NoBlock /\ Touches(g)
       \/ Steps(g, "keyTest", "outside") /\ snf[g] = NoBlock /\ UNCHANGED saw
    /\ UNCHANGED <<snf, newer>>

KeySignals(g) ==
    /\ Steps(g, "keySignal", "outside")
    /\ Touches(g)
    /\ snf' = [snf EXCEPT ![g] = NoBlock]
    /\ UNCHANGED newer

\* The create or the read is done, or its queue did not get a thread.
Leaves(g) ==
    /\ \E from \in {"inside", "keySignal"} : Steps(g, from, "outside")
    /\ snf' = [snf EXCEPT ![g] = NoBlock]
    /\ UNCHANGED <<saw, newer>>

Dispatch(g) ==
    /\ \/ Enters(g)
       \/ References(g, "server", "serverRead", "serverTest") /\ UNCHANGED <<saw, newer>>
       \/ ServerTest(g)
       \/ References(g, "state", "read", "test") /\ UNCHANGED <<saw, newer>>
       \/ GateTest(g)
       \/ References(g, "inside", "key", "keyTest") /\ UNCHANGED <<saw, newer>>
       \/ KeyTest(g) \/ KeySignals(g) \/ Leaves(g)
    /\ UNCHANGED <<countVars, sessionVars, heapVars, clientVars, lost, met, refused, shared>>

Next ==
    \/ \E c \in Clients : Handles(c)
    \/ \E s \in Services : Service(s)
    \/ \E g \in Gates : Dispatch(g)

Spec == Init /\ [][Next]_vars

-----------------------------------------------------------------------------
(* Properties.                                                               *)

\* The count has been kept, and no last close has met an open or another.
Calm == ~lost /\ ~met

(* As long as the count is right and no last close meets an open or another   *)
(* last close, the missing lock does no harm to the block: GingkoClose-       *)
(* ControlDevice frees it once, whether STOP or a close calls it, and START   *)
(* fills the block that it published.                                         *)
BlockSafe == Calm => ~wild

(* A life of the service whose START took the session over is served until it *)
(* stops: the block is its own and the dispatch routines find it.  A tool     *)
(* that opens and closes the device meanwhile does not end the session.       *)
SessionIsServed ==
    Calm => \A s \in Services :
        pc[s] = "running" /\ s \notin refused =>
            block = s /\ heap[s] = "ready" /\ started /\ state = "OPENED"

(* Once nobody has the device open nothing of a session is left, whether the  *)
(* service stopped or crashed: the state is CLOSED, as the unload asserts      *)
(* (gingko_filter.c:676), and every block is freed.                           *)
NothingLeft ==
    Calm /\ (\A c \in Clients : ~Present(c)) =>
        /\ state = "CLOSED" /\ ~started /\ block = NoBlock
        /\ \A s \in Services : heap[s] \in {"none", "freed"}

(* After a crash of the service the next life takes over, for the handle's     *)
(* close has ended the session: a START finds an older session up, and does    *)
(* nothing although it succeeds, only if a tool had the device open when the   *)
(* life opened it.                                                             *)
CrashIsCleanedUp ==
    [][ \A s \in refused' \ refused : Calm /\ started => s \in shared ]_vars

(* A dispatch routine reads a block that is still being filled, where         *)
(* ReadEvent is garbage or a handle of the service, only in a Start whose     *)
(* gate was passed before that block was published: the gate itself cannot,   *)
(* because started is set last.                                               *)
WholeBlockRead ==
    \A g \in Gates : saw[g] = "raw" => g \in newer

-----------------------------------------------------------------------------
(* The inductive invariant.                                                  *)

\* Whoever the count counts, and whoever closes the session down.
Users   == {c \in Clients : pc[c] \in {"counted", "opened", "filling", "filled", "starting",
                                       "running", "stopping", "stopped", "uncounting", "fault"}}
Closers == {c \in Clients : closing[c] # "no"}

Lives ==
    /\ \A s, t \in Services : Present(s) /\ Present(t) => s = t
    /\ \A c \in Clients : pc[c] \in {"filling", "filled", "starting", "running",
                                     "stopping", "stopped", "fault"} => c \in Services

CountKept == ~lost => refct = Cardinality(Users)

AloneCloser ==
    Calm => /\ LastCloses # {} => Users = {}
            /\ \A c, d \in LastCloses : c = d

\* A block is filled before started is set, whatever else goes wrong.
RawUnstarted ==
    /\ \A s \in Services :
        /\ heap[s] # "none" => pc[s] \notin {"idle", "opening", "counted", "opened"}
        /\ pc[s] = "filling" => ~started
        /\ pc[s] = "filled" => heap[s] # "raw"
        /\ heap[s] = "raw" => pc[s] \in {"filling", "fault"} /\ ~started
    /\ \A g \in Gates :
        gate[g] \in {"inside", "key", "keyTest", "keySignal"}
            => g \in newer \/ \A s \in Services : heap[s] # "raw"

\* Where a close-down is tells what it has undone.
CloserPlaces ==
    Calm => \A c \in Clients :
        /\ closing[c] = "take" => block # NoBlock
        /\ closing[c] = "forget" => mine[c] = block
        /\ mine[c] # NoBlock <=> closing[c] \in {"forget", "stop", "free"}
        /\ mine[c] # NoBlock => mine[c] \in Allocated
        /\ closing[c] \in {"stop", "free", "forgetAgain", "stopAgain", "closeAgain"}
            => block = NoBlock
        /\ closing[c] \in {"free", "forgetAgain", "stopAgain", "closeAgain"} => ~started

BlockPlaces ==
    Calm =>
        /\ block # NoBlock => block \in Allocated
        /\ \A s \in Allocated : block = s \/ \E c \in Clients : mine[c] = s
        /\ ~started /\ block # NoBlock => pc[block] \in {"filling", "filled"}
        /\ started => block # NoBlock \/ \E c \in Clients : closing[c] = "stop"

Serving(s) == block = s /\ state = "OPENED"

LifePlaces ==
    Calm => \A s \in Services :
        /\ pc[s] = "opened" => state = "OPENED"
        /\ pc[s] = "filling" => Serving(s) /\ heap[s] = "raw"
        /\ pc[s] \in {"filled", "starting"} => Serving(s) /\ heap[s] = "ready"
        /\ pc[s] = "starting" => started
        /\ pc[s] \in {"counted", "opened"} /\ s \notin shared => ~started

StatePlaces ==
    Calm =>
        /\ state = "CLOSED" /\ (\A c \in Clients : closing[c] \in {"no", "test"})
              => ~started /\ block = NoBlock
        /\ state = "OPENED" =>
              Users # {} \/ Closers # {} \/ \E c \in Clients : pc[c] = "testing"

IInv ==
    /\ TypeOK /\ Lives /\ CountKept /\ AloneCloser /\ RawUnstarted
    /\ CloserPlaces /\ BlockPlaces /\ LifePlaces /\ StatePlaces
    /\ BlockSafe /\ SessionIsServed /\ WholeBlockRead
=============================================================================
