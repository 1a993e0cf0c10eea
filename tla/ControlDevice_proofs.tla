----------------------- MODULE ControlDevice_proofs -----------------------
(***************************************************************************)
(* Proofs about the control device: whatever the number of lives of the    *)
(* service, of tools and of dispatch routines.                             *)
(***************************************************************************)
EXTENDS ControlDevice, FiniteSetTheorems, TLAPS

LEMMA ServicesAreClients == Services \subseteq Clients
  BY DEF Clients

LEMMA NoBlockIsNone == NoBlock \notin Services
  BY ClientAssumption

-----------------------------------------------------------------------------
(* Types.                                                                    *)

LEMMA InitType == Init => TypeOK
<1> SUFFICES ASSUME Init PROVE TypeOK OBVIOUS
<1>1. SessionTypes
  <2>1. refct \in Int /\ read \in [Clients -> Int] BY DEF Init
  <2>2. state \in {"CLOSED", "OPENED"} /\ started \in BOOLEAN /\ block \in Services \cup {NoBlock}
    BY Zenon DEF Init
  <2> QED BY <2>1, <2>2 DEF SessionTypes
<1>2. ClientTypes
  <2>1. "idle" \in Places /\ "no" \in Stages BY DEF Places, Stages
  <2>2. \A c \in Clients : pc[c] = "idle" /\ closing[c] = "no" BY DEF Init
  <2> QED BY <2>1, <2>2 DEF Init, ClientTypes
<1>3. HeapTypes BY DEF Init, HeapTypes, BlockStates, GatePlaces
<1>4. HistoryTypes BY DEF Init, HistoryTypes
<1> QED BY <1>1, <1>2, <1>3, <1>4 DEF TypeOK

LEMMA GoesType ==
    ASSUME ClientTypes, NEW c \in Clients, NEW from, NEW to \in Places, Goes(c, from, to),
           from \notin {"stopping", "closing"}, to \notin {"stopping", "closing"},
           UNCHANGED <<closing, mine>>
    PROVE  ClientTypes'
  BY DEF Goes, ClientTypes

LEMMA AtType ==
    ASSUME ClientTypes, NEW c \in Clients, NEW from, NEW to \in Stages, At(c, from, to),
           from # "no", to # "no", UNCHANGED pc,
           mine' \in [Clients -> Services \cup {NoBlock}]
    PROVE  ClientTypes'
  BY DEF At, ClientTypes

LEMMA BeginsType ==
    ASSUME ClientTypes, NEW c \in Clients, NEW from, NEW to \in {"stopping", "closing"},
           Goes(c, from, to), closing' = [closing EXCEPT ![c] = "test"], UNCHANGED mine
    PROVE  ClientTypes'
<1>1. to \in Places /\ "test" \in Stages /\ "test" # "no" BY DEF Places, Stages
<1> QED BY <1>1 DEF Goes, ClientTypes

LEMMA ReturnsType ==
    ASSUME ClientTypes, NEW c \in Clients, Returns(c), UNCHANGED mine
    PROVE  ClientTypes'
<1>1. {"stopped", "closed"} \subseteq Places /\ "no" \in Stages BY DEF Places, Stages
<1>2. pc' = [pc EXCEPT ![c] = "stopped"] \/ pc' = [pc EXCEPT ![c] = "closed"] BY DEF Returns
<1> QED BY <1>1, <1>2 DEF Returns, ClientTypes

\* The places a client can go to by itself.
LEMMA PlaceNames ==
    /\ {"idle", "opening", "counted", "opened", "filling", "filled", "starting", "running",
        "stopped", "uncounting", "testing", "closed", "fault"} \subseteq Places
    /\ {"close", "block", "take", "forget", "stop", "free", "forgetAgain", "stopAgain",
        "closeAgain"} \subseteq Stages
  BY DEF Places, Stages

LEMMA HandleType ==
    ASSUME TypeOK, NEW c \in Clients, Handles(c)
    PROVE  TypeOK'
<1> USE PlaceNames DEF countVars, sessionVars, heapVars, clientVars, gateVars, history
<1>0. SessionTypes /\ ClientTypes /\ HeapTypes /\ HistoryTypes BY DEF TypeOK
<1>1. SessionTypes'
  <2>1. CASE CloseDown(c)
    BY <1>0, <2>1 DEF CloseDown, FindsItClosed, ClosesAgain, TakesBlock, FreesBlock, Sets, SessionTypes
  <2> QED BY <1>0, <2>1 DEF Handles, OpenReads, OpenWrites, OpenSets, CloseReads, CloseWrites,
             CloseTestsLast, CloseTestsNotLast, ReadsCount, WritesCount, SessionTypes
<1>2. HeapTypes'
  <2>1. CASE CloseDown(c)
    BY <1>0, <2>1 DEF CloseDown, FindsItClosed, ClosesAgain, TakesBlock, FreesBlock, Sets, HeapTypes, BlockStates
  <2> QED BY <1>0, <2>1 DEF Handles, OpenReads, OpenWrites, OpenSets, CloseReads, CloseWrites,
             CloseTestsLast, CloseTestsNotLast, HeapTypes
<1>3. HistoryTypes'
  <2>1. CASE CloseDown(c)
    BY <1>0, <2>1 DEF CloseDown, FindsItClosed, ClosesAgain, TakesBlock, FreesBlock, Sets, HistoryTypes
  <2> QED BY <1>0, <2>1 DEF Handles, OpenReads, OpenWrites, OpenSets, CloseReads, CloseWrites,
             CloseTestsLast, CloseTestsNotLast, ReadsCount, WritesCount, HistoryTypes
<1>4. ClientTypes'
  <2>1. CASE OpenReads(c) BY <1>0, <2>1, GoesType DEF OpenReads
  <2>2. CASE OpenWrites(c) BY <1>0, <2>2, GoesType DEF OpenWrites
  <2>3. CASE OpenSets(c) BY <1>0, <2>3, GoesType DEF OpenSets
  <2>4. CASE CloseReads(c)
    <3>1. Goes(c, pc[c], "uncounting") /\ pc[c] \notin {"stopping", "closing"}
      BY <2>4 DEF CloseReads, MayClose, Goes
    <3> QED BY <1>0, <2>4, <3>1, GoesType DEF CloseReads
  <2>5. CASE CloseWrites(c) BY <1>0, <2>5, GoesType DEF CloseWrites
  <2>6. CASE CloseTestsLast(c) BY <1>0, <2>6, BeginsType DEF CloseTestsLast
  <2>7. CASE CloseTestsNotLast(c) BY <1>0, <2>7, GoesType DEF CloseTestsNotLast
  <2>8. CASE CloseDown(c)
    <3>1. CASE FindsItClosed(c) \/ ClosesAgain(c)
      BY <1>0, <3>1, ReturnsType DEF FindsItClosed, ClosesAgain
    <3>2. CASE TakesBlock(c)
      <4>1. mine' \in [Clients -> Services \cup {NoBlock}]
        BY <1>0, <3>2 DEF TakesBlock, ClientTypes, SessionTypes
      <4> QED BY <1>0, <3>2, <4>1, AtType DEF TakesBlock
    <3>3. CASE FreesBlock(c)
      <4>1. mine' \in [Clients -> Services \cup {NoBlock}]
        BY <1>0, <3>3 DEF FreesBlock, ClientTypes
      <4> QED BY <1>0, <3>3, <4>1, AtType DEF FreesBlock
    <3>4. ASSUME NEW from, NEW to \in Stages, NEW st, NEW on, NEW b, Sets(c, from, to, st, on, b),
                 from # "no", to # "no"
          PROVE  ClientTypes'
      BY <1>0, <3>4, AtType DEF Sets, ClientTypes
    <3> QED BY <2>8, <3>1, <3>2, <3>3, <3>4 DEF CloseDown
  <2> QED BY <2>1, <2>2, <2>3, <2>4, <2>5, <2>6, <2>7, <2>8 DEF Handles
<1> QED BY <1>1, <1>2, <1>3, <1>4 DEF TypeOK

LEMMA ServiceType ==
    ASSUME TypeOK, NEW s \in Services, Service(s)
    PROVE  TypeOK'
<1> USE PlaceNames, ServicesAreClients
    DEF countVars, sessionVars, heapVars, clientVars, gateVars, history
<1>0. SessionTypes /\ ClientTypes /\ HeapTypes /\ HistoryTypes BY DEF TypeOK
<1>1. SessionTypes'
  BY <1>0 DEF Service, StartIgnored, StartNoMemory, StartAllocates, StartFills, StartSetsStarted,
     StartSetsState, StopBegins, SessionTypes
<1>2. HeapTypes'
  BY <1>0 DEF Service, StartIgnored, StartNoMemory, StartAllocates, StartFills, StartSetsStarted,
     StartSetsState, StopBegins, HeapTypes, BlockStates
<1>3. HistoryTypes'
  BY <1>0 DEF Service, StartIgnored, StartNoMemory, StartAllocates, StartFills, StartSetsStarted,
     StartSetsState, StopBegins, HistoryTypes
<1>4. ClientTypes'
  <2>1. CASE StopBegins(s) BY <1>0, <2>1, BeginsType DEF StopBegins
  <2>2. ASSUME NEW from \in Places, NEW to \in Places, Goes(s, from, to),
               from \notin {"stopping", "closing"}, to \notin {"stopping", "closing"},
               UNCHANGED <<closing, mine>>
        PROVE  ClientTypes'
    BY <1>0, <2>2, GoesType
  <2> QED BY <2>1, <2>2 DEF Service, StartIgnored, StartNoMemory, StartAllocates, StartFills,
             StartSetsStarted, StartSetsState
<1> QED BY <1>1, <1>2, <1>3, <1>4 DEF TypeOK

LEMMA DispatchType ==
    ASSUME TypeOK, NEW g \in Gates, Dispatch(g)
    PROVE  TypeOK'
<1> USE DEF countVars, sessionVars, heapVars, clientVars, gateVars, history
<1>0. SessionTypes /\ ClientTypes /\ HeapTypes /\ HistoryTypes BY DEF TypeOK
<1>1. SessionTypes' /\ ClientTypes' BY <1>0 DEF Dispatch, SessionTypes, ClientTypes
<1>2. HistoryTypes'
  BY <1>0 DEF Dispatch, Enters, ServerTest, GateTest, KeyTest, KeySignals, Leaves, HistoryTypes
<1>3. heap' = heap BY DEF Dispatch
<1>4. gate' \in [Gates -> GatePlaces]
  <2>1. \E to \in GatePlaces : gate' = [gate EXCEPT ![g] = to]
    BY DEF Dispatch, Enters, References, ServerTest, GateTest, KeyTest, KeySignals, Leaves, Steps, GatePlaces
  <2> QED BY <1>0, <2>1 DEF HeapTypes
<1>5. snf' \in [Gates -> Services \cup {NoBlock}]
  <2>1. snf' = snf \/ snf' = [snf EXCEPT ![g] = NoBlock] \/ snf' = [snf EXCEPT ![g] = block]
    BY DEF Dispatch, Enters, References, ServerTest, GateTest, KeyTest, KeySignals, Leaves
  <2> QED BY <1>0, <2>1 DEF HeapTypes, SessionTypes
<1>6. saw' \in [Gates -> BlockStates \cup {"nothing"}]
  <2>1. Condition(snf[g]) \in BlockStates \cup {"nothing"}
    BY <1>0 DEF Condition, HeapTypes
  <2>2. saw' = saw \/ saw' = [saw EXCEPT ![g] = "nothing"] \/ Touches(g)
    BY DEF Dispatch, Enters, ServerTest, GateTest, KeyTest, KeySignals, Leaves
  <2> QED BY <1>0, <2>1, <2>2 DEF Touches, HeapTypes
<1> QED BY <1>0, <1>1, <1>2, <1>3, <1>4, <1>5, <1>6 DEF TypeOK, HeapTypes

LEMMA StutterType == TypeOK /\ UNCHANGED vars => TypeOK'
  BY DEF TypeOK, SessionTypes, ClientTypes, HeapTypes, HistoryTypes, vars, countVars,
     sessionVars, heapVars, clientVars, gateVars, history

(* Every reachable state has the declared type, and a client is in            *)
(* GingkoCloseControlDevice only while it closes a handle or stops.           *)
THEOREM ControlTypeCorrect == Spec => []TypeOK
<1>1. TypeOK /\ [Next]_vars => TypeOK'
  BY HandleType, ServiceType, DispatchType, StutterType DEF Next
<1> QED BY InitType, <1>1, PTL DEF Spec

-----------------------------------------------------------------------------
(* What the steps do, said once.                                             *)

\* A step of a client changes its own place only.
OnlyMoves(c) ==
    \A d \in Clients : d # c => pc'[d] = pc[d] /\ closing'[d] = closing[d] /\ mine'[d] = mine[d]

LEMMA HandlesMoves ==
    ASSUME TypeOK, NEW c \in Clients, Handles(c)
    PROVE  OnlyMoves(c)
<1> USE DEF TypeOK, ClientTypes, OnlyMoves
<1>1. CASE CloseDown(c)
  BY <1>1 DEF CloseDown, FindsItClosed, ClosesAgain, TakesBlock, FreesBlock, Sets, At, Returns,
     heapVars
<1>2. CASE ~CloseDown(c)
  BY <1>2 DEF Handles, OpenReads, OpenWrites, OpenSets, CloseReads, CloseWrites, CloseTestsLast,
     CloseTestsNotLast, Goes, heapVars
<1> QED BY <1>1, <1>2

LEMMA ServiceMoves ==
    ASSUME TypeOK, NEW s \in Services, Service(s)
    PROVE  OnlyMoves(s)
  BY ServicesAreClients
  DEF TypeOK, ClientTypes, OnlyMoves, Service, StartIgnored, StartNoMemory, StartAllocates,
      StartFills, StartSetsStarted, StartSetsState, StopBegins, Goes, heapVars

-----------------------------------------------------------------------------
(* One life of the service at a time.                                        *)

LEMMA InitLives == Init => Lives
  BY ServicesAreClients DEF Init, Lives, Present

LEMMA NextLives ==
    ASSUME TypeOK, Lives, [Next]_vars
    PROVE  Lives'
<1> USE ServicesAreClients DEF ClientTypes
<1>0. ClientTypes BY DEF TypeOK
<1>1. ASSUME NEW c \in Clients, Handles(c) PROVE Lives'
  <2>1. \A d \in Clients : d # c => pc'[d] = pc[d] BY <1>1, HandlesMoves DEF OnlyMoves
  <2>2. CASE OpenReads(c)
    <3>1. pc'[c] = "opening" /\ MayOpen(c) BY <2>2, <1>0 DEF OpenReads, Goes
    <3> QED BY <2>1, <3>1 DEF Lives, Present, MayOpen
  <2>3. CASE ~OpenReads(c)
    <3>1. Present(c)
      BY <1>0, <1>1, <2>3 DEF Handles, OpenWrites, OpenSets, CloseReads, CloseWrites, CloseTestsLast,
         CloseTestsNotLast, CloseDown, Goes, MayClose, Present, FindsItClosed, ClosesAgain,
         TakesBlock, FreesBlock, Sets, At
    <3>2. pc'[c] \in {"counted", "opened", "uncounting", "testing", "closing", "closed", "stopping", "stopped"}
          /\ (pc'[c] \in {"stopping", "stopped"} => pc[c] = "stopping")
      BY <1>0, <1>1, <2>3 DEF Handles, OpenWrites, OpenSets, CloseReads, CloseWrites, CloseTestsLast,
         CloseTestsNotLast, CloseDown, Goes, FindsItClosed, ClosesAgain, TakesBlock, FreesBlock,
         Sets, At, Returns
    <3> QED BY <2>1, <3>1, <3>2 DEF Lives, Present
  <2> QED BY <2>2, <2>3
<1>2. ASSUME NEW s \in Services, Service(s) PROVE Lives'
  <2>1. \A d \in Clients : d # s => pc'[d] = pc[d] BY <1>2, ServiceMoves DEF OnlyMoves
  <2>2. Present(s)
    BY <1>2 DEF Service, StartIgnored, StartNoMemory, StartAllocates, StartFills, StartSetsStarted,
       StartSetsState, StopBegins, Goes, Present
  <2> QED BY <2>1, <2>2 DEF Lives, Present
<1>3. ASSUME NEW g \in Gates, Dispatch(g) PROVE Lives'
  BY <1>3 DEF Dispatch, clientVars, Lives, Present
<1>4. CASE UNCHANGED vars BY <1>4 DEF vars, clientVars, Lives, Present
<1> QED BY <1>1, <1>2, <1>3, <1>4 DEF Next

-----------------------------------------------------------------------------
(* Blocks that are being filled.                                             *)

RawInv == RawUnstarted /\ WholeBlockRead

LEMMA InitRaw == Init => RawInv
  BY DEF Init, RawInv, RawUnstarted, WholeBlockRead

LEMMA HandlesRaw ==
    ASSUME TypeOK, Lives, RawInv, NEW c \in Clients, Handles(c)
    PROVE  RawInv'
<1> USE ServicesAreClients DEF TypeOK, ClientTypes, HeapTypes, SessionTypes
<1>1. \A s \in Services : heap'[s] = heap[s] \/ (heap[s] \in {"raw", "ready"} /\ heap'[s] = "freed")
  <2>1. CASE heap' = heap BY <2>1
  <2>2. CASE mine[c] \in Allocated /\ heap' = [heap EXCEPT ![mine[c]] = "freed"]
    BY <2>2 DEF Allocated
  <2> QED BY <2>1, <2>2
    DEF Handles, OpenReads, OpenWrites, OpenSets, CloseReads, CloseWrites, CloseTestsLast,
     CloseTestsNotLast, CloseDown, FindsItClosed, ClosesAgain, TakesBlock, FreesBlock,
     Sets, heapVars
<1>2. (started' => started) /\ UNCHANGED <<gate, saw, newer>>
  BY DEF Handles, OpenReads, OpenWrites, OpenSets, CloseReads, CloseWrites, CloseTestsLast,
     CloseTestsNotLast, CloseDown, FindsItClosed, ClosesAgain, TakesBlock, FreesBlock, Allocated,
     Sets, heapVars, sessionVars, gateVars, history
<1>3. /\ pc'[c] \notin {"filling", "filled", "fault"}
      /\ pc[c] \notin {"filling", "fault"}
      /\ pc'[c] \in {"opening", "counted", "opened"} => pc[c] \in {"idle", "opening", "counted"}
  BY DEF Handles, OpenReads, OpenWrites, OpenSets, CloseReads, CloseWrites, CloseTestsLast,
     CloseTestsNotLast, CloseDown, FindsItClosed, ClosesAgain, TakesBlock, FreesBlock,
     Sets, At, Goes, MayClose, Returns
<1>4. pc'[c] # "idle"
  BY DEF Handles, OpenReads, OpenWrites, OpenSets, CloseReads, CloseWrites, CloseTestsLast,
     CloseTestsNotLast, CloseDown, FindsItClosed, ClosesAgain, TakesBlock, FreesBlock,
     Sets, At, Goes, MayClose, Returns
<1>5. \A d \in Clients : d # c => pc'[d] = pc[d] BY HandlesMoves DEF OnlyMoves
<1>6. started' \in BOOLEAN BY HandleType
<1> HIDE DEF TypeOK, ClientTypes, HeapTypes, SessionTypes
<1>7. WholeBlockRead' BY <1>2 DEF RawInv, WholeBlockRead
<1>8. ASSUME NEW s \in Services
      PROVE  /\ heap'[s] # "none" => pc'[s] \notin {"idle", "opening", "counted", "opened"}
             /\ pc'[s] = "filling" => ~started'
             /\ pc'[s] = "filled" => heap'[s] # "raw"
             /\ heap'[s] = "raw" => pc'[s] \in {"filling", "fault"} /\ ~started'
  BY <1>1, <1>2, <1>3, <1>4, <1>5, <1>6 DEF RawInv, RawUnstarted
<1>9. ASSUME NEW g \in Gates, gate'[g] \in {"inside", "key", "keyTest", "keySignal"}
      PROVE  g \in newer' \/ \A s \in Services : heap'[s] # "raw"
  BY <1>1, <1>2, <1>9 DEF RawInv, RawUnstarted
<1> QED BY <1>7, <1>8, <1>9 DEF RawInv, RawUnstarted

LEMMA ServiceRaw ==
    ASSUME TypeOK, Lives, RawInv, NEW s \in Services, Service(s)
    PROVE  RawInv'
<1> USE ServicesAreClients
<1>0. /\ pc \in [Clients -> Places] /\ heap \in [Services -> BlockStates] /\ started \in BOOLEAN
      /\ started' \in BOOLEAN
  BY ServiceType DEF TypeOK, ClientTypes, HeapTypes, SessionTypes
<1>1. \A d \in Clients : d # s => pc'[d] = pc[d] BY ServiceMoves DEF OnlyMoves
<1>2. saw' = saw /\ gate' = gate /\ newer \subseteq newer'
  BY DEF Service, StartIgnored, StartNoMemory, StartAllocates, StartFills, StartSetsStarted,
     StartSetsState, StopBegins, gateVars, history
<1>3. WholeBlockRead' BY <1>2 DEF RawInv, WholeBlockRead
<1>4. \A t \in Services : t # s /\ Present(s) => ~Present(t) BY DEF Lives
<1>5. RawUnstarted'
  <2>1. CASE StartAllocates(s)
    <3>1. heap' = [heap EXCEPT ![s] = "raw"] /\ started' = started /\ ~started /\ pc'[s] = "filling"
      BY <2>1, <1>0 DEF StartAllocates, Goes
    <3>2. \A g \in Gates : gate[g] \in {"inside", "key", "keyTest", "keySignal"} => g \in newer'
      BY <2>1 DEF StartAllocates
    <3> QED BY <3>1, <3>2, <1>0, <1>1, <1>2 DEF RawInv, RawUnstarted
  <2>2. CASE StartFills(s)
    <3>1. pc[s] = "filling" /\ started' = started
      BY <2>2 DEF StartFills, Goes, sessionVars
    <3>2. \/ heap' = [heap EXCEPT ![s] = "ready"] /\ pc'[s] = "filled"
          \/ heap' = heap /\ pc'[s] = "fault"
      BY <2>2, <1>0 DEF StartFills, Goes
    <3> QED BY <3>1, <3>2, <1>0, <1>1, <1>2 DEF RawInv, RawUnstarted
  <2>3. CASE StartSetsStarted(s)
    <3>1. heap' = heap /\ pc[s] = "filled" /\ pc'[s] = "starting"
      BY <2>3, <1>0 DEF StartSetsStarted, Goes, heapVars
    <3>2. \A t \in Services : t # s => pc[t] \in {"idle", "closed"}
      BY <3>1, <1>4 DEF Present
    <3> QED BY <3>1, <3>2, <1>0, <1>1, <1>2 DEF RawInv, RawUnstarted
  <2>4. CASE StartIgnored(s) \/ StartNoMemory(s) \/ StartSetsState(s) \/ StopBegins(s)
    <3>1. heap' = heap /\ started' = started /\ pc[s] \in {"opened", "starting", "running"}
          /\ pc'[s] \in {"running", "stopping"}
      BY <2>4, <1>0 DEF StartIgnored, StartNoMemory, StartSetsState, StopBegins, Goes, heapVars, sessionVars
    <3> QED BY <3>1, <1>0, <1>1, <1>2 DEF RawInv, RawUnstarted
  <2> QED BY <2>1, <2>2, <2>3, <2>4 DEF Service
<1> QED BY <1>3, <1>5 DEF RawInv

LEMMA DispatchRaw ==
    ASSUME TypeOK, Lives, RawInv, NEW g \in Gates, Dispatch(g)
    PROVE  RawInv'
<1>0. /\ gate \in [Gates -> GatePlaces] /\ snf \in [Gates -> Services \cup {NoBlock}]
      /\ saw \in [Gates -> BlockStates \cup {"nothing"}] /\ heap \in [Services -> BlockStates]
      /\ newer \subseteq Gates
  BY DEF TypeOK, HeapTypes, HistoryTypes
<1>1. UNCHANGED <<heap, pc, started>> BY DEF Dispatch, heapVars, clientVars, sessionVars
<1>2. \A h \in Gates : h # g => gate'[h] = gate[h] /\ saw'[h] = saw[h] /\ (h \in newer' <=> h \in newer)
  <2>1. \E to : gate' = [gate EXCEPT ![g] = to]
    BY DEF Dispatch, Enters, References, ServerTest, GateTest, KeyTest, KeySignals, Leaves, Steps
  <2>2. saw' = saw \/ \E w : saw' = [saw EXCEPT ![g] = w]
    BY DEF Dispatch, Enters, ServerTest, GateTest, KeyTest, KeySignals, Leaves, Touches
  <2>3. newer' = newer \/ newer' = newer \ {g}
    BY DEF Dispatch, Enters, ServerTest, GateTest, KeyTest, KeySignals, Leaves
  <2> QED BY <1>0, <2>1, <2>2, <2>3
<1>3. CASE Enters(g)
  <2>1. gate'[g] = "server" /\ saw'[g] = "nothing" BY <1>0, <1>3 DEF Enters, Steps
  <2> QED BY <1>1, <1>2, <2>1 DEF RawInv, RawUnstarted, WholeBlockRead
<1>4. CASE ServerTest(g)
  <2>1. gate'[g] = "state" /\ newer' = newer BY <1>0, <1>4 DEF ServerTest, Steps
  <2>2. saw'[g] = saw[g] \/ saw'[g] # "raw"
    <3>1. CASE started /\ snf[g] # NoBlock
      BY <3>1, <1>0, <1>4 DEF ServerTest, Touches, Condition, RawInv, RawUnstarted
    <3> QED BY <3>1, <1>4 DEF ServerTest
  <2> QED BY <1>1, <1>2, <2>1, <2>2 DEF RawInv, RawUnstarted, WholeBlockRead
<1>5. CASE GateTest(g)
  <2>1. newer' = newer /\ saw' = saw /\ (gate'[g] = "outside" \/ (gate'[g] = "inside" /\ started))
    BY <1>0, <1>5 DEF GateTest, Steps
  <2> QED BY <1>1, <1>2, <2>1 DEF RawInv, RawUnstarted, WholeBlockRead
<1>6. CASE KeyTest(g) \/ KeySignals(g)
  <2>1. newer' = newer /\ gate[g] \in {"keyTest", "keySignal"} /\ gate'[g] \in {"keySignal", "outside"}
    BY <1>0, <1>6 DEF KeyTest, KeySignals, Steps
  <2>2. saw'[g] = "raw" => saw[g] = "raw" \/ \E s \in Services : heap[s] = "raw"
    BY <1>0, <1>6 DEF KeyTest, KeySignals, Touches, Condition
  <2> QED BY <1>1, <1>2, <2>1, <2>2 DEF RawInv, RawUnstarted, WholeBlockRead
<1>7. CASE \/ References(g, "server", "serverRead", "serverTest") /\ UNCHANGED <<saw, newer>>
           \/ References(g, "state", "read", "test") /\ UNCHANGED <<saw, newer>>
           \/ References(g, "inside", "key", "keyTest") /\ UNCHANGED <<saw, newer>>
           \/ Leaves(g)
  <2>1. /\ newer' = newer /\ saw' = saw
        /\ gate'[g] \in {"inside", "key", "keyTest", "keySignal"} => gate[g] \in {"inside", "key", "keyTest", "keySignal"}
    BY <1>0, <1>7 DEF References, Leaves, Steps
  <2> QED BY <1>1, <1>2, <2>1 DEF RawInv, RawUnstarted, WholeBlockRead
<1> QED BY <1>3, <1>4, <1>5, <1>6, <1>7 DEF Dispatch

LEMMA StutterRaw == RawInv /\ UNCHANGED vars => RawInv'
  BY DEF RawInv, RawUnstarted, WholeBlockRead, vars, sessionVars, heapVars, clientVars, gateVars, history

(* A dispatch routine never reads a block that START is still filling, unless *)
(* it goes on with a request it let in before that START.                     *)
THEOREM WholeBlockReadCorrect == Spec => []WholeBlockRead
<1> DEFINE I == TypeOK /\ Lives /\ RawInv
<1>1. Init => I BY InitType, InitLives, InitRaw
<1>2. I /\ [Next]_vars => I'
  <2> SUFFICES ASSUME I, [Next]_vars PROVE I' OBVIOUS
  <2>1. TypeOK' BY HandleType, ServiceType, DispatchType, StutterType DEF Next
  <2>2. Lives' BY NextLives
  <2>3. RawInv' BY HandlesRaw, ServiceRaw, DispatchRaw, StutterRaw DEF Next
  <2> QED BY <2>1, <2>2, <2>3
<1>3. I => WholeBlockRead BY DEF RawInv
<1> QED BY <1>1, <1>2, <1>3, PTL DEF Spec

-----------------------------------------------------------------------------
(* The count, and who closes the session down.                               *)

UserPlaces == {"counted", "opened", "filling", "filled", "starting", "running", "stopping",
               "stopped", "uncounting", "fault"}

LEMMA UsersFinite == IsFiniteSet(Users)
<1>1. IsFiniteSet(Clients) BY ClientAssumption
<1>2. Users \subseteq Clients BY DEF Users
<1> QED BY <1>1, <1>2, FS_Subset

\* Only the two writes of the count change who is counted.
LEMMA HandlesUsers ==
    ASSUME TypeOK, NEW c \in Clients, Handles(c)
    PROVE  /\ OpenWrites(c) => c \notin Users /\ Users' = Users \cup {c}
           /\ CloseWrites(c) => c \in Users /\ Users' = Users \ {c}
           /\ ~OpenWrites(c) /\ ~CloseWrites(c) => Users' = Users
<1>0. pc \in [Clients -> Places] BY DEF TypeOK, ClientTypes
<1>1. \A d \in Clients : d # c => pc'[d] = pc[d] BY HandlesMoves DEF OnlyMoves
<1>2. CASE OpenWrites(c)
  <2>1. pc[c] = "opening" /\ pc'[c] = "counted" BY <1>0, <1>2 DEF OpenWrites, Goes
  <2> QED BY <1>1, <1>2, <2>1 DEF Users, CloseWrites, Goes
<1>3. CASE CloseWrites(c)
  <2>1. pc[c] = "uncounting" /\ pc'[c] = "testing" BY <1>0, <1>3 DEF CloseWrites, Goes
  <2> QED BY <1>1, <1>3, <2>1 DEF Users, OpenWrites, Goes
<1>4. CASE ~OpenWrites(c) /\ ~CloseWrites(c)
  <2>1. pc[c] \in UserPlaces <=> pc'[c] \in UserPlaces
    <3>1. CASE CloseDown(c)
      <4>0. closing[c] # "no" BY <3>1 DEF CloseDown, FindsItClosed, ClosesAgain, TakesBlock, FreesBlock, Sets, At
      <4>1. pc[c] \in {"stopping", "closing"} BY <4>0 DEF TypeOK, ClientTypes
      <4>2. \/ pc' = pc
            \/ pc[c] = "stopping" /\ pc'[c] = "stopped"
            \/ pc[c] = "closing" /\ pc'[c] = "closed"
        BY <1>0, <3>1, <4>1 DEF CloseDown, FindsItClosed, ClosesAgain, TakesBlock, FreesBlock, Sets, Returns
      <4> QED BY <4>2 DEF UserPlaces
    <3> QED BY <1>0, <1>4, <3>1 DEF Handles, OpenReads, OpenSets, CloseReads, MayClose, CloseTestsLast,
                    CloseTestsNotLast, Goes, UserPlaces
  <2> QED BY <1>1, <1>4, <2>1 DEF Users, UserPlaces
<1> QED BY <1>2, <1>3, <1>4

LEMMA ServiceUsers ==
    ASSUME TypeOK, NEW s \in Services, Service(s)
    PROVE  Users' = Users /\ LastCloses' = LastCloses
<1>0. pc \in [Clients -> Places] BY DEF TypeOK, ClientTypes
<1>1. \A d \in Clients : d # s => pc'[d] = pc[d] BY ServiceMoves DEF OnlyMoves
<1>2. /\ pc[s] \in {"opened", "filling", "filled", "starting", "running"}
      /\ pc'[s] \in {"filling", "filled", "fault", "starting", "running", "stopping"}
  BY <1>0, ServicesAreClients DEF Service, StartIgnored, StartNoMemory, StartAllocates, StartFills,
     StartSetsStarted, StartSetsState, StopBegins, Goes
<1> QED BY <1>1, <1>2 DEF Users, LastCloses

\* The flags of the history are never reset.
LEMMA NextCalm ==
    ASSUME TypeOK, [Next]_vars
    PROVE  (lost => lost') /\ (met => met')
  BY DEF TypeOK, HistoryTypes, Next, Handles, OpenReads, OpenWrites, OpenSets, CloseReads,
     CloseWrites, WritesCount, CloseTestsLast, CloseTestsNotLast, CloseDown, Service,
     StartIgnored, StartNoMemory, StartAllocates, StartFills, StartSetsStarted, StartSetsState,
     StopBegins, Dispatch, history, vars

CountInv == CountKept /\ AloneCloser

LEMMA InitCount == Init => CountInv
<1> SUFFICES ASSUME Init PROVE CountInv OBVIOUS
<1>1. Users = {} /\ LastCloses = {} BY DEF Init, Users, LastCloses
<1> QED BY <1>1, FS_EmptySet DEF Init, CountInv, CountKept, AloneCloser

LEMMA HandlesCount ==
    ASSUME TypeOK, CountInv, NEW c \in Clients, Handles(c)
    PROVE  CountInv'
<1>0. pc \in [Clients -> Places] /\ refct \in Int /\ lost \in BOOLEAN /\ met \in BOOLEAN
  BY DEF TypeOK, ClientTypes, SessionTypes, HistoryTypes
<1>1. IsFiniteSet(Users) /\ Cardinality(Users) \in Nat BY UsersFinite, FS_CardinalityType
<1>2. \A d \in Clients : d # c => pc'[d] = pc[d] BY HandlesMoves DEF OnlyMoves
<1>3. CASE OpenWrites(c)
  <2>1. c \notin Users /\ Users' = Users \cup {c} BY <1>3, HandlesUsers
  <2>2. Cardinality(Users') = Cardinality(Users) + 1 BY <1>1, <2>1, FS_AddElement
  <2>3. refct' = read[c] + 1 /\ lost' = (lost \/ refct # read[c]) /\ met' = (met \/ LastCloses # {})
    BY <1>3 DEF OpenWrites, WritesCount
  <2>4. LastCloses' = LastCloses
    BY <1>0, <1>2, <1>3 DEF LastCloses, OpenWrites, Goes
  <2>5. CountKept' BY <2>2, <2>3 DEF CountInv, CountKept
  <2>6. AloneCloser' BY <2>3, <2>4 DEF CountInv, AloneCloser, Calm
  <2> QED BY <2>5, <2>6 DEF CountInv
<1>4. CASE CloseWrites(c)
  <2>1. c \in Users /\ Users' = Users \ {c} BY <1>4, HandlesUsers
  <2>2. Cardinality(Users') = Cardinality(Users) - 1 BY <1>1, <2>1, FS_RemoveElement
  <2>3. refct' = read[c] - 1 /\ lost' = (lost \/ refct # read[c]) /\ met' = met
    BY <1>4 DEF CloseWrites, WritesCount
  <2>4. LastCloses' = LastCloses
    BY <1>0, <1>2, <1>4 DEF LastCloses, CloseWrites, Goes
  <2>5. CountKept' BY <2>2, <2>3 DEF CountInv, CountKept
  <2>6. AloneCloser' BY <2>1, <2>3, <2>4 DEF CountInv, AloneCloser, Calm
  <2> QED BY <2>5, <2>6 DEF CountInv
<1>5. CASE CloseTestsLast(c)
  <2>0. ~OpenWrites(c) /\ ~CloseWrites(c)
    BY <1>5 DEF CloseTestsLast, OpenWrites, CloseWrites, Goes
  <2>1. Users' = Users BY <2>0, HandlesUsers
  <2>2. refct = 0 /\ refct' = refct /\ lost' = lost /\ met' = (met \/ LastCloses # {})
    BY <1>5 DEF CloseTestsLast, countVars
  <2>3. LastCloses' = LastCloses \cup {c}
    BY <1>0, <1>2, <1>5 DEF LastCloses, CloseTestsLast, Goes
  <2>4. ~lost => Users = {} BY <1>1, <2>2, FS_EmptySet DEF CountInv, CountKept
  <2>5. CountKept' BY <2>1, <2>2 DEF CountInv, CountKept
  <2>6. AloneCloser' BY <2>1, <2>2, <2>3, <2>4 DEF AloneCloser, Calm
  <2> QED BY <2>5, <2>6 DEF CountInv
<1>6. CASE ~OpenWrites(c) /\ ~CloseWrites(c) /\ ~CloseTestsLast(c)
  <2>1. Users' = Users BY <1>6, HandlesUsers
  <2>2. refct' = refct /\ lost' = lost /\ met' = met
    BY <1>6 DEF Handles, OpenReads, ReadsCount, OpenSets, CloseReads, CloseTestsNotLast, CloseDown,
       countVars, history
  <2>3. LastCloses' \subseteq LastCloses
    <3>1. pc'[c] = "closing" => pc[c] = "closing"
      BY <1>0, <1>6 DEF Handles, OpenReads, OpenSets, CloseReads, CloseTestsNotLast, CloseDown,
         Goes, FindsItClosed, ClosesAgain, TakesBlock, FreesBlock, Sets, Returns
    <3> QED BY <1>2, <3>1 DEF LastCloses
  <2> QED BY <2>1, <2>2, <2>3 DEF CountInv, CountKept, AloneCloser, Calm
<1> QED BY <1>3, <1>4, <1>5, <1>6

LEMMA NextCount ==
    ASSUME TypeOK, CountInv, [Next]_vars
    PROVE  CountInv'
<1>1. ASSUME NEW s \in Services, Service(s) PROVE CountInv'
  <2>1. Users' = Users /\ LastCloses' = LastCloses BY <1>1, ServiceUsers
  <2>2. refct' = refct /\ lost' = lost /\ met' = met
    BY <1>1 DEF Service, StartIgnored, StartNoMemory, StartAllocates, StartFills, StartSetsStarted,
       StartSetsState, StopBegins, countVars, history
  <2> QED BY <2>1, <2>2 DEF CountInv, CountKept, AloneCloser, Calm
<1>2. ASSUME UNCHANGED <<countVars, clientVars, lost, met>> PROVE CountInv'
  BY <1>2 DEF CountInv, CountKept, AloneCloser, Calm, Users, LastCloses, countVars, clientVars
<1> QED BY <1>1, <1>2, HandlesCount DEF Next, Dispatch, vars, history

-----------------------------------------------------------------------------
(* The session, as long as the count is right and the last closes meet        *)
(* nobody.                                                                    *)

CalmParts == CloserPlaces /\ BlockPlaces /\ LifePlaces /\ StatePlaces /\ BlockSafe /\ SessionIsServed

Base == TypeOK /\ Lives /\ CountInv

\* One close-down at a time, and none while a life of the service is at work.
LEMMA CalmCloser ==
    ASSUME Base, Calm
    PROVE  /\ \A c, d \in Clients : closing[c] # "no" /\ closing[d] # "no" => c = d
           /\ \A s \in Services, c \in Clients :
                pc[s] \in {"opened", "filling", "filled", "starting", "running"} => closing[c] = "no"
<1>1. \A c \in Clients : closing[c] # "no" => c \in LastCloses \/ (pc[c] = "stopping" /\ c \in Services)
  BY DEF Base, TypeOK, ClientTypes, Lives, LastCloses
<1>2. \A c \in Clients : pc[c] = "stopping" => c \in Users BY DEF Users
<1>3. LastCloses # {} => Users = {} BY DEF Base, CountInv, AloneCloser
<1>4. \A c, d \in LastCloses : c = d BY DEF Base, CountInv, AloneCloser
<1>5. \A s, t \in Services : Present(s) /\ Present(t) => s = t BY DEF Base, Lives
<1>6. \A s \in Services : pc[s] \in {"opened", "filling", "filled", "starting", "running", "stopping"}
                            => Present(s) /\ s \in Users
  BY ServicesAreClients DEF Users, Present
<1>7. ASSUME NEW c \in Clients, NEW d \in Clients, closing[c] # "no", closing[d] # "no" PROVE c = d
  BY <1>1, <1>2, <1>3, <1>4, <1>5, <1>6, <1>7
<1>8. ASSUME NEW s \in Services, NEW c \in Clients,
             pc[s] \in {"opened", "filling", "filled", "starting", "running"}, closing[c] # "no"
      PROVE  FALSE
  BY <1>1, <1>2, <1>3, <1>5, <1>6, <1>8
<1> QED BY <1>7, <1>8

\* With nobody else about, an open finds no session.
LEMMA AloneFindsNothing ==
    ASSUME Base, StatePlaces, Calm, NEW s \in Services, pc[s] = "opening",
           \A b \in Tools : ~Present(b)
    PROVE  ~started
<1>1. \A c \in Clients : c # s => pc[c] \in {"idle", "closed"}
  BY DEF Base, Lives, Present, Clients
<1>2. \A c \in Clients : closing[c] = "no"
  BY <1>1 DEF Base, TypeOK, ClientTypes
<1>3. Users = {} /\ Closers = {} /\ ~(\E c \in Clients : pc[c] = "testing")
  BY <1>1, <1>2 DEF Users, Closers
<1>4. state \in {"OPENED", "CLOSED"} BY DEF Base, TypeOK, SessionTypes
<1> QED BY <1>2, <1>3, <1>4 DEF StatePlaces

\* The handlers of open and close but for the close-down itself.
LEMMA HandlesCalm ==
    ASSUME Base, CalmParts, Calm, NEW c \in Clients, Handles(c), ~CloseDown(c)
    PROVE  CalmParts'
<1>0. /\ pc \in [Clients -> Places] /\ closing \in [Clients -> Stages] /\ refct \in Int
      /\ state \in {"OPENED", "CLOSED"}
  BY DEF Base, TypeOK, ClientTypes, SessionTypes
<1>1. \A d \in Clients : d # c => pc'[d] = pc[d] /\ closing'[d] = closing[d]
  BY HandlesMoves DEF OnlyMoves, Base
<1>2. UNCHANGED <<heap, mine, wild, block, started, refused>> /\ shared \subseteq shared'
  BY DEF Handles, OpenReads, OpenWrites, OpenSets, CloseReads, CloseWrites, CloseTestsLast,
     CloseTestsNotLast, heapVars, sessionVars, history
<1>3. /\ state' = state \/ state' = "OPENED"
      /\ closing'[c] = closing[c] \/ (closing[c] = "no" /\ closing'[c] = "test")
  <2>1. pc[c] = "testing" => closing[c] = "no" BY DEF Base, TypeOK, ClientTypes
  <2> QED BY <1>0, <2>1 DEF Handles, OpenReads, OpenWrites, OpenSets, CloseReads, CloseWrites,
             CloseTestsLast, CloseTestsNotLast, sessionVars, Goes
<1>4. /\ pc'[c] \notin {"idle", "filling", "filled", "starting", "running"}
      /\ pc[c] \notin {"filling", "filled"}
      /\ pc'[c] = "opened" => state' = "OPENED" /\ pc[c] = "counted"
      /\ pc'[c] = "counted" => OpenWrites(c)
  BY <1>0 DEF Handles, OpenReads, OpenWrites, OpenSets, CloseReads, CloseWrites, CloseTestsLast,
     CloseTestsNotLast, Goes, MayClose
<1>5. CloserPlaces'
  BY <1>0, <1>1, <1>2, <1>3 DEF CalmParts, CloserPlaces, Calm, Allocated
<1>6. BlockPlaces'
  <2>1. Allocated' = Allocated BY <1>2 DEF Allocated
  <2>2. \A d \in Clients : closing[d] = "stop" => closing'[d] = "stop" BY <1>1, <1>3
  <2>3. block \in Allocated => (pc[block] \in {"filling", "filled"} => pc'[block] \in {"filling", "filled"})
    BY <1>1, <1>4, ServicesAreClients DEF Allocated
  <2> QED BY <1>2, <2>1, <2>2, <2>3 DEF CalmParts, BlockPlaces
<1>7. LifePlaces'
  <2>1. ASSUME NEW s \in Services, pc'[s] = "counted", s \notin shared' PROVE ~started'
    <3>1. CASE s # c BY <1>1, <1>2, <2>1, <3>1, ServicesAreClients DEF CalmParts, LifePlaces
    <3>2. CASE s = c
      <4>1. OpenWrites(s) BY <2>1, <3>2, <1>4
      <4>2. pc[s] = "opening" /\ \A b \in Tools : ~Present(b)
        BY <2>1, <4>1 DEF OpenWrites, Goes
      <4> QED BY <4>2, <1>2, AloneFindsNothing DEF CalmParts
    <3> QED BY <3>1, <3>2
  <2> QED BY <1>0, <1>1, <1>2, <1>3, <1>4, <2>1, ServicesAreClients
          DEF CalmParts, LifePlaces, Serving
<1>8. SessionIsServed'
  BY <1>0, <1>1, <1>2, <1>3, <1>4, ServicesAreClients DEF CalmParts, SessionIsServed
<1>9. StatePlaces'
  <2>1. state' = "CLOSED" /\ (\A d \in Clients : closing'[d] \in {"no", "test"})
          => ~started' /\ block' = NoBlock
    BY <1>0, <1>1, <1>2, <1>3 DEF CalmParts, StatePlaces
  <2>2. ASSUME state' = "OPENED"
        PROVE  Users' # {} \/ Closers' # {} \/ \E d \in Clients : pc'[d] = "testing"
    <3>1. CASE pc'[c] \in {"counted", "opened", "uncounting"} BY <3>1 DEF Users
    <3>2. CASE pc'[c] = "testing" BY <3>2
    <3>3. CASE closing'[c] # "no" BY <3>3 DEF Closers
    <3>4. CASE CloseTestsNotLast(c)
      <4>1. Users' = Users
        BY <3>4, HandlesUsers DEF CloseTestsNotLast, Goes, OpenWrites, CloseWrites, Base
      <4>2. refct # 0 /\ refct = Cardinality(Users)
        BY <3>4 DEF CloseTestsNotLast, Base, CountInv, CountKept, Calm
      <4> QED BY <4>1, <4>2, FS_EmptySet
    <3>5. CASE OpenReads(c)
      <4>1. pc[c] = "idle" /\ pc'[c] = "opening" /\ UNCHANGED <<closing, state>>
        BY <1>0, <3>5 DEF OpenReads, Goes, sessionVars
      <4>2. Users' = Users
        BY <3>5, <4>1, HandlesUsers DEF OpenWrites, CloseWrites, Goes, Base
      <4>3. Closers' = Closers BY <4>1 DEF Closers
      <4>4. Users # {} \/ Closers # {} \/ \E d \in Clients : pc[d] = "testing"
        BY <2>2, <4>1 DEF CalmParts, StatePlaces
      <4> QED BY <1>1, <4>1, <4>2, <4>3, <4>4
    <3> QED BY <1>0, <3>1, <3>2, <3>3, <3>4, <3>5 DEF Handles, OpenWrites, OpenSets, CloseReads,
               CloseWrites, CloseTestsLast, Goes, Stages
  <2> QED BY <2>1, <2>2 DEF StatePlaces
<1>10. BlockSafe' BY <1>2 DEF CalmParts, BlockSafe, Calm
<1> QED BY <1>5, <1>6, <1>7, <1>8, <1>9, <1>10 DEF CalmParts

\* GingkoCloseControlDevice.
LEMMA CloseDownCalm ==
    ASSUME Base, CalmParts, Calm, NEW c \in Clients, CloseDown(c)
    PROVE  CalmParts'
<1>0. /\ pc \in [Clients -> Places] /\ closing \in [Clients -> Stages]
      /\ mine \in [Clients -> Services \cup {NoBlock}] /\ heap \in [Services -> BlockStates]
      /\ state \in {"OPENED", "CLOSED"} /\ started \in BOOLEAN /\ block \in Services \cup {NoBlock}
  BY DEF Base, TypeOK, ClientTypes, SessionTypes, HeapTypes
<1>1. \A d \in Clients : d # c => pc'[d] = pc[d] /\ closing'[d] = closing[d] /\ mine'[d] = mine[d]
  BY HandlesMoves DEF OnlyMoves, Base, Handles
<1>2. closing[c] # "no"
  BY DEF CloseDown, FindsItClosed, ClosesAgain, TakesBlock, FreesBlock, Sets, At
<1>3. \A d \in Clients : d # c => closing[d] = "no" /\ mine[d] = NoBlock
  BY <1>2, CalmCloser DEF CalmParts, CloserPlaces
<1>4. \A s \in Services : pc[s] \notin {"opened", "filling", "filled", "starting", "running"}
  BY <1>2, CalmCloser
<1>5. (pc' = pc \/ pc'[c] \in {"stopped", "closed"}) /\ (started' => started)
      /\ UNCHANGED <<refused, shared>>
  BY <1>0 DEF CloseDown, FindsItClosed, ClosesAgain, TakesBlock, FreesBlock, Sets, Returns,
     sessionVars, history
<1>6. \A s \in Services :
        /\ pc'[s] \notin {"opened", "filling", "filled", "starting", "running"}
        /\ pc'[s] = "counted" => pc[s] = "counted"
  BY <1>1, <1>4, <1>5, ServicesAreClients
<1>7. LifePlaces' BY <1>5, <1>6 DEF CalmParts, LifePlaces
<1>8. SessionIsServed' BY <1>6 DEF SessionIsServed
<1>9. BlockSafe'
  <2>1. closing[c] = "free" => mine[c] \in Allocated BY DEF CalmParts, CloserPlaces
  <2> QED BY <2>1 DEF CalmParts, BlockSafe, Calm, CloseDown, FindsItClosed, ClosesAgain, TakesBlock,
             FreesBlock, Sets, At, heapVars
<1>10. CloserPlaces' /\ BlockPlaces' /\ StatePlaces'
  <2>0. /\ closing[c] = "take" => block # NoBlock
        /\ closing[c] = "forget" => mine[c] = block
        /\ mine[c] # NoBlock <=> closing[c] \in {"forget", "stop", "free"}
        /\ mine[c] # NoBlock => mine[c] \in Allocated
        /\ closing[c] \in {"stop", "free", "forgetAgain", "stopAgain", "closeAgain"} => block = NoBlock
        /\ closing[c] \in {"free", "forgetAgain", "stopAgain", "closeAgain"} => ~started
    BY DEF CalmParts, CloserPlaces
  <2>1. /\ block # NoBlock => block \in Allocated
        /\ \A s \in Allocated : block = s \/ mine[c] = s
        /\ started => block # NoBlock \/ closing[c] = "stop"
        /\ ~started => block = NoBlock
    <3>1. \A s \in Allocated : s # NoBlock BY NoBlockIsNone DEF Allocated
    <3>2. ~started => block = NoBlock BY <1>4 DEF CalmParts, BlockPlaces, Allocated
    <3> QED BY <1>3, <3>1, <3>2 DEF CalmParts, BlockPlaces
  <2>2. state = "CLOSED" /\ closing[c] = "test" => ~started /\ block = NoBlock
    BY <1>3 DEF CalmParts, StatePlaces
  <2>3. SUFFICES
        /\ closing'[c] = "take" => block' # NoBlock
        /\ closing'[c] = "forget" => mine'[c] = block'
        /\ mine'[c] # NoBlock <=> closing'[c] \in {"forget", "stop", "free"}
        /\ mine'[c] # NoBlock => mine'[c] \in Allocated'
        /\ closing'[c] \in {"stop", "free", "forgetAgain", "stopAgain", "closeAgain"} => block' = NoBlock
        /\ closing'[c] \in {"free", "forgetAgain", "stopAgain", "closeAgain"} => ~started'
        /\ block' # NoBlock => block' \in Allocated'
        /\ \A s \in Allocated' : block' = s \/ mine'[c] = s
        /\ started' => block' # NoBlock \/ closing'[c] = "stop"
        /\ ~started' => block' = NoBlock
        /\ closing'[c] = "no" => ~started' /\ block' = NoBlock /\ state' = "CLOSED"
        /\ closing'[c] # "test"
    <3>1. CloserPlaces'
      BY <1>1, <1>3, <2>3 DEF CloserPlaces
    <3>2. BlockPlaces' BY <2>3 DEF BlockPlaces
    <3>3. StatePlaces'
      <4>1. closing'[c] # "no" => c \in Closers' BY DEF Closers
      <4> QED BY <2>3, <4>1 DEF StatePlaces
    <3> QED BY <3>1, <3>2, <3>3
  <2>4. CASE FindsItClosed(c)
    BY <1>0, <2>0, <2>1, <2>2, <2>4 DEF FindsItClosed, Returns, sessionVars, heapVars, Allocated
  <2>5. CASE ClosesAgain(c)
    BY <1>0, <2>0, <2>1, <2>5 DEF ClosesAgain, Returns, heapVars, Allocated
  <2>6. CASE TakesBlock(c)
    <3>1. /\ closing[c] = "take" /\ closing'[c] = "forget" /\ mine'[c] = block
          /\ UNCHANGED <<state, started, block, heap>>
      BY <1>0, <2>6 DEF TakesBlock, At, sessionVars
    <3>2. Allocated' = Allocated BY <3>1 DEF Allocated
    <3>3. mine[c] = NoBlock /\ block # NoBlock BY <2>0, <3>1
    <3>4. \A s \in Allocated : s # NoBlock BY NoBlockIsNone DEF Allocated
    <3> QED BY <2>1, <3>1, <3>2, <3>3, <3>4
  <2>7. CASE FreesBlock(c)
    <3>1. closing[c] = "free" /\ closing'[c] = "forgetAgain" /\ mine'[c] = NoBlock /\ UNCHANGED <<state, started, block>>
      BY <1>0, <2>7 DEF FreesBlock, At, sessionVars
    <3>2. heap' = [heap EXCEPT ![mine[c]] = "freed"] BY <2>0, <2>7, <3>1 DEF FreesBlock
    <3>3. Allocated' = Allocated \ {mine[c]} BY <1>0, <3>2 DEF Allocated
    <3>4. block = NoBlock /\ ~started BY <2>0, <3>1
    <3>5. Allocated' = {} BY <2>0, <2>1, <3>1, <3>3, <3>4, NoBlockIsNone DEF Allocated
    <3> QED BY <3>1, <3>4, <3>5
  <2>8. ASSUME NEW from, NEW to, NEW st, NEW on, NEW b, Sets(c, from, to, st, on, b)
        PROVE  /\ closing[c] = from /\ closing'[c] = to /\ state' = st /\ started' = on /\ block' = b
               /\ mine' = mine /\ Allocated' = Allocated
    BY <1>0, <2>8 DEF Sets, At, heapVars, Allocated
  <2>9. CASE Sets(c, "test", "close", state, started, block) \/ Sets(c, "close", "block", "CLOSED", started, block)
    BY <2>0, <2>1, <2>8, <2>9
  <2>10. CASE block # NoBlock /\ Sets(c, "block", "take", state, started, block)
    BY <2>0, <2>1, <2>8, <2>10
  <2>11. CASE block = NoBlock /\ Sets(c, "block", "forgetAgain", state, started, block)
    BY <2>0, <2>1, <2>8, <2>11
  <2>12. CASE Sets(c, "forget", "stop", state, started, NoBlock)
    BY <2>0, <2>1, <2>8, <2>12
  <2>13. CASE Sets(c, "stop", "free", state, FALSE, block)
    <3>1. /\ closing[c] = "stop" /\ closing'[c] = "free" /\ UNCHANGED <<state, block, mine, heap>>
      BY <1>0, <2>13 DEF Sets, At, heapVars
    <3>2. ~started' BY <2>13 DEF Sets
    <3>3. Allocated' = Allocated BY <3>1 DEF Allocated
    <3> QED BY <2>0, <2>1, <3>1, <3>2, <3>3
  <2>14. CASE Sets(c, "forgetAgain", "stopAgain", state, started, NoBlock)
    BY <2>0, <2>1, <2>8, <2>14
  <2>15. CASE Sets(c, "stopAgain", "closeAgain", state, FALSE, block)
    <3>1. /\ closing[c] = "stopAgain" /\ closing'[c] = "closeAgain" /\ UNCHANGED <<state, block, mine, heap>>
      BY <1>0, <2>15 DEF Sets, At, heapVars
    <3>2. ~started' BY <2>15 DEF Sets
    <3>3. Allocated' = Allocated BY <3>1 DEF Allocated
    <3> QED BY <2>0, <2>1, <3>1, <3>2, <3>3
  <2> QED BY <2>4, <2>5, <2>6, <2>7, <2>9, <2>10, <2>11, <2>12, <2>13, <2>14, <2>15 DEF CloseDown
<1> QED BY <1>7, <1>8, <1>9, <1>10 DEF CalmParts

\* START and STOP.
LEMMA ServiceCalm ==
    ASSUME Base, CalmParts, Calm, NEW s \in Services, Service(s)
    PROVE  CalmParts'
<1> USE ServicesAreClients
<1>0. /\ pc \in [Clients -> Places] /\ closing \in [Clients -> Stages]
      /\ mine \in [Clients -> Services \cup {NoBlock}] /\ heap \in [Services -> BlockStates]
      /\ state \in {"OPENED", "CLOSED"} /\ started \in BOOLEAN /\ block \in Services \cup {NoBlock}
  BY DEF Base, TypeOK, ClientTypes, SessionTypes, HeapTypes
<1>1. \A d \in Clients : d # s => pc'[d] = pc[d] /\ closing'[d] = closing[d]
  BY ServiceMoves DEF OnlyMoves, Base
<1>2. pc[s] \in {"opened", "filling", "filled", "starting", "running"}
  BY DEF Service, StartIgnored, StartNoMemory, StartAllocates, StartFills, StartSetsStarted,
     StartSetsState, StopBegins, Goes
<1>3. \A d \in Clients : closing[d] = "no" /\ mine[d] = NoBlock
  BY <1>2, CalmCloser DEF CalmParts, CloserPlaces
<1>4. \A t \in Services : t # s => pc[t] \in {"idle", "closed"} /\ pc'[t] = pc[t]
  BY <1>1, <1>2 DEF Base, Lives, Present
<1>5. /\ \A d \in Clients : closing'[d] \in {"no", "test"} /\ mine'[d] = NoBlock
      /\ Users' = Users /\ s \in Users
      /\ UNCHANGED shared /\ refused \subseteq refused'
  <2>1. closing' = closing \/ closing' = [closing EXCEPT ![s] = "test"]
    BY DEF Service, StartIgnored, StartNoMemory, StartAllocates, StartFills, StartSetsStarted,
       StartSetsState, StopBegins
  <2>2. UNCHANGED <<mine, shared>> /\ refused \subseteq refused'
    BY DEF Service, StartIgnored, StartNoMemory, StartAllocates, StartFills, StartSetsStarted,
       StartSetsState, StopBegins, heapVars, history
  <2> QED BY <1>0, <1>2, <1>3, <2>1, <2>2, ServiceUsers DEF Users, Base
<1>6. Allocated \subseteq {block} /\ (block # NoBlock => block \in Allocated)
  BY <1>3, NoBlockIsNone DEF CalmParts, BlockPlaces, Allocated
<1>7. started => block # NoBlock BY <1>3 DEF CalmParts, BlockPlaces
<1>8. ~started /\ block # NoBlock => pc[block] \in {"filling", "filled"}
  BY DEF CalmParts, BlockPlaces
<1>9. state = "CLOSED" => ~started /\ block = NoBlock BY <1>3 DEF CalmParts, StatePlaces
<1>10. /\ pc[s] = "opened" => state = "OPENED"
       /\ pc[s] = "filling" => block = s /\ state = "OPENED" /\ heap[s] = "raw"
       /\ pc[s] \in {"filled", "starting"} => block = s /\ state = "OPENED" /\ heap[s] = "ready"
       /\ pc[s] = "starting" => started
  BY DEF CalmParts, LifePlaces, Serving
<1>11. ~wild BY DEF CalmParts, BlockSafe
<1>12. SUFFICES
       /\ Allocated' \subseteq {block'} /\ (block' # NoBlock => block' \in Allocated')
       /\ started' => block' # NoBlock
       /\ ~started' /\ block' # NoBlock => pc'[block'] \in {"filling", "filled"}
       /\ state' = "CLOSED" => ~started' /\ block' = NoBlock
       /\ pc'[s] \notin {"idle", "opening", "counted", "opened"}
       /\ pc'[s] = "filling" => block' = s /\ state' = "OPENED" /\ heap'[s] = "raw"
       /\ pc'[s] \in {"filled", "starting"} => block' = s /\ state' = "OPENED" /\ heap'[s] = "ready"
       /\ pc'[s] = "starting" => started'
       /\ pc'[s] = "running" /\ s \notin refused' =>
            block' = s /\ heap'[s] = "ready" /\ started' /\ state' = "OPENED"
       /\ ~wild'
  <2>1. CloserPlaces' BY <1>5, <1>12 DEF CloserPlaces
  <2>2. BlockPlaces' BY <1>12 DEF BlockPlaces
  <2>3. LifePlaces' BY <1>4, <1>12 DEF LifePlaces, Serving
  <2>4. StatePlaces' BY <1>5, <1>12 DEF StatePlaces
  <2>5. SessionIsServed' BY <1>4, <1>12 DEF SessionIsServed
  <2>6. BlockSafe' BY <1>12 DEF BlockSafe
  <2> QED BY <2>1, <2>2, <2>3, <2>4, <2>5, <2>6 DEF CalmParts
<1>13. CASE StartIgnored(s)
  <2>1. /\ pc'[s] = "running" /\ s \in refused' /\ started
        /\ UNCHANGED <<started, block, state, heap, wild>>
    BY <1>0, <1>13 DEF StartIgnored, Goes, sessionVars, heapVars
  <2> QED BY <1>6, <1>7, <1>9, <1>11, <2>1 DEF Allocated
<1>14. CASE StartNoMemory(s)
  <2>1. /\ pc[s] = "opened" /\ pc'[s] = "running" /\ s \in refused' /\ ~started /\ block' = NoBlock
        /\ UNCHANGED <<started, state, heap, wild>>
    BY <1>0, <1>14 DEF StartNoMemory, Goes, heapVars
  <2>2. block = NoBlock BY <1>0, <1>4, <1>8, <2>1
  <2> QED BY <1>6, <1>11, <2>1, <2>2 DEF Allocated
<1>15. CASE StartAllocates(s)
  <2>1. /\ pc[s] = "opened" /\ pc'[s] = "filling" /\ ~started /\ block' = s
        /\ heap' = [heap EXCEPT ![s] = "raw"]
        /\ UNCHANGED <<started, state, wild>>
    BY <1>0, <1>15 DEF StartAllocates, Goes
  <2>2. block = NoBlock BY <1>0, <1>4, <1>8, <2>1
  <2>3. Allocated = {} BY <1>6, <2>2, NoBlockIsNone DEF Allocated
  <2>4. Allocated' = {s} BY <1>0, <2>1, <2>3 DEF Allocated
  <2>5. heap'[s] = "raw" /\ state = "OPENED" BY <1>0, <1>10, <2>1
  <2> QED BY <1>11, <2>1, <2>4, <2>5, NoBlockIsNone
<1>16. CASE StartFills(s)
  <2>1. pc[s] = "filling" /\ block = s /\ state = "OPENED" BY <1>10, <1>16 DEF StartFills, Goes
  <2>2. /\ pc'[s] = "filled" /\ heap' = [heap EXCEPT ![s] = "ready"]
        /\ UNCHANGED <<started, block, state, wild>>
    BY <1>0, <1>16, <2>1 DEF StartFills, Goes, sessionVars
  <2>3. heap'[s] = "ready" BY <1>0, <2>2
  <2>4. Allocated' = {s}
    BY <1>0, <1>6, <2>1, <2>2, NoBlockIsNone DEF Allocated
  <2> QED BY <1>11, <2>1, <2>2, <2>3, <2>4, NoBlockIsNone
<1>17. CASE StartSetsStarted(s)
  <2>1. /\ pc[s] = "filled" /\ pc'[s] = "starting" /\ UNCHANGED <<block, state, heap, wild>>
    BY <1>0, <1>17 DEF StartSetsStarted, Goes, heapVars
  <2>2. started' BY <1>17 DEF StartSetsStarted
  <2> QED BY <1>6, <1>10, <1>11, <2>1, <2>2, NoBlockIsNone DEF Allocated
<1>18. CASE StartSetsState(s)
  <2>1. /\ pc[s] = "starting" /\ pc'[s] = "running" /\ state' = "OPENED"
        /\ UNCHANGED <<started, block, heap, wild>>
    BY <1>0, <1>18 DEF StartSetsState, Goes, heapVars
  <2> QED BY <1>6, <1>10, <1>11, <2>1, NoBlockIsNone DEF Allocated
<1>19. CASE StopBegins(s)
  <2>1. /\ pc[s] = "running" /\ pc'[s] = "stopping"
        /\ UNCHANGED <<started, block, state, heap, wild>>
    BY <1>0, <1>19 DEF StopBegins, Goes, sessionVars, heapVars
  <2>2. ~started => block = NoBlock BY <1>0, <1>4, <1>8, <2>1
  <2> QED BY <1>6, <1>7, <1>9, <1>11, <2>1, <2>2 DEF Allocated
<1> QED BY <1>13, <1>14, <1>15, <1>16, <1>17, <1>18, <1>19 DEF Service

-----------------------------------------------------------------------------
(* The inductive invariant, and what it gives.                               *)

LEMMA InitCalm == Init => CalmParts
<1> SUFFICES ASSUME Init PROVE CalmParts OBVIOUS
<1>1. Allocated = {} BY DEF Init, Allocated
<1>2. \A c \in Clients : pc[c] = "idle" /\ closing[c] = "no" /\ mine[c] = NoBlock BY DEF Init
<1>3. state = "CLOSED" /\ ~started /\ block = NoBlock /\ ~wild BY DEF Init
<1>4. \A s \in Services : pc[s] = "idle" BY <1>2, ServicesAreClients
<1>5. CloserPlaces BY <1>2 DEF CloserPlaces
<1>6. BlockPlaces BY <1>1, <1>3 DEF BlockPlaces
<1>7. LifePlaces /\ SessionIsServed BY <1>4 DEF LifePlaces, SessionIsServed
<1>8. StatePlaces BY <1>3 DEF StatePlaces
<1> QED BY <1>3, <1>5, <1>6, <1>7, <1>8 DEF CalmParts, BlockSafe

LEMMA NextCalmParts ==
    ASSUME Base, CalmParts, [Next]_vars
    PROVE  CalmParts'
<1>1. CASE ~Calm
  <2>1. ~Calm' BY <1>1, NextCalm DEF Base, Calm
  <2> QED BY <2>1 DEF CalmParts, CloserPlaces, BlockPlaces, LifePlaces, StatePlaces, BlockSafe,
          SessionIsServed
<1>2. CASE Calm
  <2>1. ASSUME UNCHANGED <<sessionVars, heapVars, clientVars, lost, met, refused, shared>>
        PROVE  CalmParts'
    <3>1. /\ UNCHANGED <<state, started, block, heap, mine, wild, pc, closing, refused, shared>>
          /\ Allocated' = Allocated /\ Users' = Users /\ Closers' = Closers
      BY <2>1 DEF sessionVars, heapVars, clientVars, Allocated, Users, Closers
    <3> QED BY <1>2, <3>1 DEF CalmParts, CloserPlaces, BlockPlaces, LifePlaces, StatePlaces, BlockSafe,
               SessionIsServed, Serving
  <2> QED BY <1>2, <2>1, HandlesCalm, CloseDownCalm, ServiceCalm DEF Next, Dispatch, vars, history
<1> QED BY <1>1, <1>2

(* The inductive invariant holds in every reachable state.  Each part is      *)
(* about one thing: the lives of the service come one after the other, the    *)
(* count is kept, a close-down is alone, a block being filled is not yet      *)
(* started, and the places of the clients tell what the session holds.        *)
THEOREM ControlInvariant == Spec => []IInv
<1>1. Init => TypeOK /\ Lives /\ CountInv /\ RawInv /\ CalmParts
  BY InitType, InitLives, InitCount, InitRaw, InitCalm
<1>2. ASSUME TypeOK, Lives, CountInv, RawInv, CalmParts, [Next]_vars
      PROVE  (TypeOK /\ Lives /\ CountInv /\ RawInv /\ CalmParts)'
  <2>1. TypeOK' BY <1>2, HandleType, ServiceType, DispatchType, StutterType DEF Next
  <2> QED BY <1>2, <2>1, NextLives, NextCount, HandlesRaw, ServiceRaw, DispatchRaw, StutterRaw, NextCalmParts DEF Base, Next
<1>3. TypeOK /\ Lives /\ CountInv /\ RawInv /\ CalmParts => IInv
  BY DEF IInv, CountInv, RawInv, CalmParts
<1> QED BY <1>1, <1>2, <1>3, PTL DEF Spec

(* While the count is right and no last close meets an open or another last   *)
(* close, no null block is written and no block is freed twice.               *)
THEOREM BlockSafeCorrect == Spec => []BlockSafe
<1>1. IInv => BlockSafe BY DEF IInv
<1> QED BY <1>1, ControlInvariant, PTL

(* A life of the service whose START took the session over is served by its   *)
(* own block until it stops.                                                  *)
THEOREM SessionIsServedCorrect == Spec => []SessionIsServed
<1>1. IInv => SessionIsServed BY DEF IInv
<1> QED BY <1>1, ControlInvariant, PTL

(* Once nobody has the device open, nothing of a session is left.             *)
THEOREM NothingLeftCorrect == Spec => []NothingLeft
<1>1. ASSUME IInv, Calm, \A c \in Clients : ~Present(c)
      PROVE  /\ state = "CLOSED" /\ ~started /\ block = NoBlock
             /\ \A s \in Services : heap[s] \in {"none", "freed"}
  <2>1. \A c \in Clients : pc[c] \in {"idle", "closed"} BY <1>1 DEF Present
  <2>2. \A c \in Clients : closing[c] = "no" BY <1>1, <2>1 DEF IInv, TypeOK, ClientTypes
  <2>3. Users = {} /\ Closers = {} /\ ~(\E c \in Clients : pc[c] = "testing")
    BY <2>1, <2>2 DEF Users, Closers
  <2>4. state \in {"CLOSED", "OPENED"} /\ heap \in [Services -> BlockStates]
    BY <1>1 DEF IInv, TypeOK, SessionTypes, HeapTypes
  <2>5. state = "CLOSED" /\ ~started /\ block = NoBlock
    BY <1>1, <2>2, <2>3, <2>4 DEF IInv, StatePlaces
  <2>6. Allocated = {}
    <3>1. \A c \in Clients : mine[c] = NoBlock BY <1>1, <2>2 DEF IInv, CloserPlaces
    <3> QED BY <1>1, <2>5, <3>1, NoBlockIsNone DEF IInv, BlockPlaces, Allocated
  <2>7. \A s \in Services : heap[s] \in {"none", "freed"}
    BY <2>4, <2>6 DEF Allocated, BlockStates
  <2> QED BY <2>5, <2>7
<1>2. IInv => NothingLeft BY <1>1 DEF NothingLeft
<1> QED BY <1>2, ControlInvariant, PTL

(* A START that finds a session up is the START of a life that opened the     *)
(* device while a tool had it open: otherwise a crash has been cleaned up.    *)
THEOREM CrashIsCleanedUpCorrect == Spec => CrashIsCleanedUp
<1>1. ASSUME IInv, [Next]_vars, NEW s \in refused' \ refused, Calm, started
      PROVE  s \in shared
  <2>1. StartIgnored(s) /\ s \in Services
    <3>1. \A c \in Clients : Handles(c) => refused' = refused
      BY DEF Handles, OpenReads, OpenWrites, OpenSets, CloseReads, CloseWrites, CloseTestsLast,
         CloseTestsNotLast, CloseDown, history
    <3>2. ASSUME NEW t \in Services, Service(t) PROVE StartIgnored(t) /\ s = t
      BY <1>1, <3>2 DEF Service, StartIgnored, StartNoMemory, StartAllocates, StartFills,
         StartSetsStarted, StartSetsState, StopBegins, history
    <3> QED BY <1>1, <3>1, <3>2 DEF Next, Dispatch, vars, history
  <2>2. pc[s] = "opened" BY <2>1 DEF StartIgnored, Goes
  <2> QED BY <1>1, <2>1, <2>2 DEF IInv, LifePlaces
<1>2. IInv /\ [Next]_vars => [\A s \in refused' \ refused : Calm /\ started => s \in shared]_vars
  BY <1>1
<1> QED BY <1>2, ControlInvariant, PTL DEF Spec, CrashIsCleanedUp
=============================================================================
