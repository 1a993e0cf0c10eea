----------------------- MODULE EncryptedIoQueue_proofs -----------------------
(***************************************************************************)
(* Proofs about EncryptedIoQueue, for every finite set of IRPs, every set  *)
(* of faults and every HoldLimit.                                          *)
(***************************************************************************)
EXTENDS EncryptedIoQueue, FiniteSetTheorems, TLAPS

-----------------------------------------------------------------------------
(* Type correctness: one lemma per actor, one step per part of TypeOK.       *)

LEMMA TypeInit == Init => TypeOK
<1>. SUFFICES ASSUME Init PROVE TypeOK
  OBVIOUS
<1>1. IrpTypes
  BY DEF Init, IrpTypes, IrpStates, Results
<1>2. CountTypes
  BY HoldAssumption DEF Init, CountTypes
<1>3. FlagTypes
  BY DEF Init, FlagTypes
<1>4. ProgressTypes
  BY DEF Init, ProgressTypes, MainStates, StopStates
<1>. QED  BY <1>1, <1>2, <1>3, <1>4 DEF TypeOK

LEMMA TypeStarter == TypeOK /\ Starter => TypeOK'
<1>. SUFFICES ASSUME TypeOK, Starter PROVE TypeOK'
  OBVIOUS
<1>. USE DEF TypeOK, Starter, StarterFrame, TrackFileObject, StartQueue,
             StartNoMemory, StartNoServer, StartAskKey, StartMainThread
<1>1. IrpTypes'
  BY DEF IrpTypes, irpVars
<1>2. CountTypes'
  BY HoldAssumption DEF CountTypes, eventVars, holdVars
<1>3. FlagTypes'
  BY DEF FlagTypes, eventVars
<1>4. ProgressTypes'
  BY DEF ProgressTypes, MainStates, StopStates, holdVars
<1>. QED  BY <1>1, <1>2, <1>3, <1>4

LEMMA TypeDispatch ==
  ASSUME TypeOK, NEW i \in Irps, Send(i) \/ Dispatcher(i)
  PROVE  TypeOK'
<1>. USE DEF TypeOK, Send, Dispatcher, DispatchFrame
<1>1. IrpTypes'
  <2>. USE DEF IrpTypes, IrpStates, Results
  <2>1. CASE Send(i)
    BY <2>1 DEF DispatchIrp
  <2>2. CASE CountIrp(i) \/ CheckStopPending(i) \/ ReleaseSemaphore(i)
    BY <2>2 DEF CountIrp, CheckStopPending, ReleaseSemaphore
  <2>3. CASE InsertIrp(i)
    BY <2>3 DEF InsertIrp
  <2>4. CASE UncountRefused(i) \/ SignalRefused(i)
    BY <2>4 DEF UncountRefused, SignalRefused, RefuseIrp
  <2>. QED  BY <2>1, <2>2, <2>3, <2>4
<1>. USE DEF DispatchIrp, CountIrp, CheckStopPending, InsertIrp, ReleaseSemaphore,
             UncountRefused, SignalRefused
<1>2. CountTypes'
  BY HoldAssumption DEF CountTypes, holdVars
<1>3. FlagTypes'
  BY DEF FlagTypes, flagVars, modeVars, SignalNoIo, SomebodyWaits
<1>4. ProgressTypes'
  BY DEF ProgressTypes, MainStates, StopStates, keyVars, holdVars
<1>. QED  BY <1>1, <1>2, <1>3, <1>4

LEMMA TypeMain == TypeOK /\ MainThread => TypeOK'
<1>. SUFFICES ASSUME TypeOK, MainThread PROVE TypeOK'
  OBVIOUS
<1>. USE DEF TypeOK, MainThread, MainFrame, queueVars, signalVars
<1>1. IrpTypes'
  <2>. USE DEF IrpTypes, IrpStates, Results
  <2>1. CASE MainPop
    <3>1. Head(queue) \in Irps /\ Tail(queue) \in Seq(Irps)
      BY <2>1 DEF MainPop
    <3>. QED  BY <2>1, <3>1 DEF MainPop
  <2>2. CASE MainServe
    BY <2>2 DEF MainServe, ReadAnswer
  <2>3. CASE MainUncount
    <3>1. irp' \in [Irps -> IrpStates]
      BY <2>3 DEF MainUncount
    <3>2. current' = <<>> /\ result' = result /\ queue' = queue
      BY <2>3 DEF MainUncount
    <3>. QED  BY <3>1, <3>2
  <2>4. CASE UNCHANGED queueVars
    BY <2>4
  <2>. QED
    BY <2>1, <2>2, <2>3, <2>4
    DEF MainLoopTest, MainTestKey, MainQueueEmpty, MainCheckSuspended,
        MainWakeWithKey, MainTakeToken, MainResume, MainSignal
<1>. USE DEF MainLoopTest, MainTestKey, MainWakeWithKey, MainTakeToken, MainPop,
             MainQueueEmpty, MainCheckSuspended, MainResume, MainServe, MainUncount,
             MainSignal
<1>2. CountTypes'
  BY HoldAssumption DEF CountTypes, holdVars
<1>3. FlagTypes'
  BY DEF FlagTypes, flagVars, SignalNoIo, SomebodyWaits
<1>4. ProgressTypes'
  BY DEF ProgressTypes, MainStates, StopStates, keyVars, holdVars
<1>. QED  BY <1>1, <1>2, <1>3, <1>4

LEMMA TypeKey == TypeOK /\ (Retriever \/ Responder) => TypeOK'
<1>. SUFFICES ASSUME TypeOK, Retriever \/ Responder PROVE TypeOK'
  OBVIOUS
<1>. USE DEF TypeOK, Retriever, Responder, KeyFrame, RetrieveRequest, FinishRetrieve,
             FindResponse, ResponderCheck, ResponderPin, ResponderInstall,
             ResponderUncount, ResponderSignalIo, ResponderSetKeyEvent,
             ResponderDangles
<1>1. IrpTypes'
  BY DEF IrpTypes, irpVars
<1>2. CountTypes'
  <2>1. outstanding' \in {outstanding, outstanding + 1, outstanding - 1}
    OBVIOUS
  <2>2. semaphore' = semaphore /\ holds' = holds
    BY DEF holdVars
  <2>. QED  BY <2>1, <2>2 DEF CountTypes
<1>3. FlagTypes'
  <2>. USE DEF FlagTypes, flagVars, SignalNoIo, SomebodyWaits
  <2>1. CASE ResponderInstall
    <3>1. UNCHANGED <<noIoEvent, keyEvent, resumedEvent, flagVars, passthrough>>
      BY <2>1
    <3>2. cryptoInfo' \in BOOLEAN
      BY <2>1
    <3>. QED  BY <3>1, <3>2
  <2>2. CASE ~ResponderInstall
    BY <2>2
  <2>. QED  BY <2>1, <2>2
<1>4. ProgressTypes'
  BY DEF ProgressTypes, MainStates, StopStates, holdVars
<1>. QED  BY <1>1, <1>2, <1>3, <1>4

LEMMA TypeClose == TypeOK /\ (Close \/ Stop) => TypeOK'
<1>. SUFFICES ASSUME TypeOK, Close \/ Stop PROVE TypeOK'
  OBVIOUS
<1>. USE DEF TypeOK, Close, Stop, CloseFrame, CloseFindsObject, StopSetPending,
             StopWithdrawRequest, StopWithdrawResponse, StopReadCount, StopWait,
             StopRequestExit, StopSetKeyEvent, StopRelease, StopJoin
<1>1. IrpTypes'
  BY DEF IrpTypes, irpVars
<1>2. CountTypes'
  BY HoldAssumption DEF CountTypes, holdVars
<1>3. FlagTypes'
  BY DEF FlagTypes, modeVars
<1>4. ProgressTypes'
  BY DEF ProgressTypes, MainStates, StopStates, holdVars
<1>. QED  BY <1>1, <1>2, <1>3, <1>4

LEMMA TypeCtl == TypeOK /\ (ControlClose \/ RemoveAll) => TypeOK'
<1>. SUFFICES ASSUME TypeOK, ControlClose \/ RemoveAll PROVE TypeOK'
  OBVIOUS
<1>. USE DEF TypeOK, ControlClose, RemoveAll, CtlFrame, CtlClose, CtlFetch,
             CtlRequestExit, CtlSetKeyEvent, CtlRelease, CtlJoin
<1>1. IrpTypes'
  BY DEF IrpTypes, irpVars
<1>2. CountTypes'
  BY HoldAssumption DEF CountTypes, holdVars
<1>3. FlagTypes'
  BY DEF FlagTypes, modeVars
<1>4. ProgressTypes'
  BY DEF ProgressTypes, MainStates, StopStates, keyVars, holdVars
<1>. QED  BY <1>1, <1>2, <1>3, <1>4

LEMMA TypeHold == TypeOK /\ (CallHold \/ Hold) => TypeOK'
<1>. SUFFICES ASSUME TypeOK, CallHold \/ Hold PROVE TypeOK'
  OBVIOUS
<1>. USE DEF TypeOK, CallHold, Hold, HoldFrame, HoldBegin, HoldReadCount, HoldWait,
             HoldRecheck, HoldClearResumed, HoldSuspend, HoldVerify, ResumeFromHold
<1>1. IrpTypes'
  BY DEF IrpTypes, irpVars
<1>2. CountTypes'
  BY HoldAssumption DEF CountTypes
<1>3. FlagTypes'
  BY DEF FlagTypes, modeVars
<1>4. ProgressTypes'
  BY DEF ProgressTypes, MainStates, StopStates, keyVars
<1>. QED  BY <1>1, <1>2, <1>3, <1>4

LEMMA TypeStutter == TypeOK /\ UNCHANGED vars => TypeOK'
<1>. SUFFICES ASSUME TypeOK, UNCHANGED vars PROVE TypeOK'
  OBVIOUS
<1>. USE DEF TypeOK, vars, irpVars, eventVars, flagVars, modeVars, keyVars, holdVars
<1>1. IrpTypes'
  BY DEF IrpTypes
<1>2. CountTypes'
  BY DEF CountTypes
<1>3. FlagTypes'
  BY DEF FlagTypes
<1>4. ProgressTypes'
  BY DEF ProgressTypes
<1>. QED  BY <1>1, <1>2, <1>3, <1>4

(* Every variable keeps its type in every reachable state.                   *)
THEOREM TypeCorrect == Spec => []TypeOK
<1>1. TypeOK /\ [Next]_vars => TypeOK'
  BY TypeStarter, TypeDispatch, TypeMain, TypeKey, TypeClose, TypeCtl, TypeHold,
     TypeStutter DEF Next
<1>. QED  BY TypeInit, <1>1, PTL DEF Spec

-----------------------------------------------------------------------------
(* The IRPs: where each one is agrees with the list and the main thread.     *)

\* Only the dispatch routines and the main thread move IRPs.
LEMMA IrpWriters ==
  ASSUME [Next]_vars
  PROVE  \/ \E i \in Irps : Send(i) \/ Dispatcher(i)
         \/ MainThread
         \/ UNCHANGED irpVars /\ (StartMainThread \/ mainPc' = mainPc)
<1>. USE DEF Next, vars
<1>1. CASE Starter
  BY <1>1 DEF Starter, StarterFrame, TrackFileObject, StartQueue
<1>2. CASE Retriever \/ Responder
  BY <1>2 DEF Retriever, Responder, KeyFrame
<1>3. CASE Close \/ Stop
  BY <1>3 DEF Close, Stop, CloseFrame
<1>4. CASE ControlClose \/ RemoveAll
  BY <1>4 DEF ControlClose, RemoveAll, CtlFrame
<1>5. CASE CallHold \/ Hold
  BY <1>5 DEF CallHold, Hold, HoldFrame
<1>. QED  BY <1>1, <1>2, <1>3, <1>4, <1>5

LEMMA QueuePlacesStep == TypeOK /\ IrpPlaces /\ [Next]_vars => QueuePlaces'
<1>. SUFFICES ASSUME TypeOK, IrpPlaces, [Next]_vars PROVE QueuePlaces'
  OBVIOUS
<1>0. /\ irp \in [Irps -> IrpStates] /\ queue \in Seq(Irps)
      /\ QueuePlaces /\ CurrentPlaces
  BY DEF TypeOK, IrpTypes, IrpPlaces
<1>1. ASSUME NEW i \in Irps, InsertIrp(i) PROVE QueuePlaces'
  <2>1. irp[i] = "admitted" /\ irp' = [irp EXCEPT ![i] = "queued"]
        /\ queue' = Append(queue, i)
    BY <1>1 DEF InsertIrp
  <2>2. \A k \in DOMAIN queue : queue[k] # i
    BY <1>0, <2>1 DEF QueuePlaces
  <2>3. /\ DOMAIN queue' = 1..(Len(queue) + 1)
        /\ DOMAIN queue = 1..Len(queue)
        /\ Len(queue) \in Nat
        /\ \A k \in 1..Len(queue) : queue'[k] = queue[k]
        /\ queue'[Len(queue) + 1] = i
    BY <1>0, <2>1
  <2>4. \A j \in Irps : irp'[j] = "queued" <=> \E k \in DOMAIN queue' : queue'[k] = j
    BY <1>0, <2>1, <2>2, <2>3 DEF QueuePlaces
  <2>5. \A k, l \in DOMAIN queue' : queue'[k] = queue'[l] => k = l
    BY <1>0, <2>2, <2>3 DEF QueuePlaces
  <2>. QED  BY <2>4, <2>5 DEF QueuePlaces
<1>2. CASE MainPop
  <2>1. /\ queue # <<>> /\ queue' = Tail(queue)
        /\ irp' = [irp EXCEPT ![Head(queue)] = "current"]
    BY <1>2 DEF MainPop
  <2>2. /\ DOMAIN queue = 1..Len(queue) /\ DOMAIN queue' = 1..(Len(queue) - 1)
        /\ Len(queue) \in Nat /\ Len(queue) > 0
        /\ \A k \in 1..(Len(queue) - 1) : queue'[k] = queue[k + 1]
        /\ Head(queue) = queue[1] /\ Head(queue) \in Irps
    BY <1>0, <2>1
  <2>3. ASSUME NEW j \in Irps
        PROVE  irp'[j] = "queued" <=> \E k \in DOMAIN queue' : queue'[k] = j
    <3>1. CASE j = Head(queue)
      <4>1. irp'[j] = "current"
        BY <1>0, <2>1, <3>1
      <4>2. \A k \in DOMAIN queue' : queue'[k] # j
        BY <1>0, <2>2, <3>1 DEF QueuePlaces
      <4>. QED  BY <4>1, <4>2
    <3>2. CASE j # Head(queue)
      <4>1. irp'[j] = irp[j]
        BY <1>0, <2>1, <3>2
      <4>2. ASSUME NEW k \in DOMAIN queue, queue[k] = j
            PROVE  \E l \in DOMAIN queue' : queue'[l] = j
        <5>1. k - 1 \in DOMAIN queue' /\ queue'[k - 1] = j
          BY <2>2, <3>2, <4>2
        <5>. QED  BY <5>1
      <4>3. ASSUME NEW l \in DOMAIN queue', queue'[l] = j
            PROVE  \E k \in DOMAIN queue : queue[k] = j
        <5>1. l + 1 \in DOMAIN queue /\ queue[l + 1] = j
          BY <2>2, <4>3
        <5>. QED  BY <5>1
      <4>. QED  BY <1>0, <4>1, <4>2, <4>3 DEF QueuePlaces
    <3>. QED  BY <3>1, <3>2
  <2>4. ASSUME NEW k \in DOMAIN queue', NEW l \in DOMAIN queue', queue'[k] = queue'[l]
        PROVE  k = l
    <3>1. /\ k \in Int /\ l \in Int
          /\ k + 1 \in DOMAIN queue /\ l + 1 \in DOMAIN queue
          /\ queue[k + 1] = queue[l + 1]
      BY <2>2, <2>4
    <3>2. k + 1 = l + 1
      BY <1>0, <3>1 DEF QueuePlaces
    <3>. QED  BY <3>1, <3>2
  <2>. QED  BY <2>3, <2>4 DEF QueuePlaces
<1>3. ASSUME queue' = queue,
             \A j \in Irps : irp'[j] = "queued" <=> irp[j] = "queued"
      PROVE  QueuePlaces'
  BY <1>0, <1>3 DEF QueuePlaces
<1>4. ASSUME NEW i \in Irps, Send(i) \/ Dispatcher(i), ~InsertIrp(i)
      PROVE  /\ queue' = queue
             /\ \A j \in Irps : irp'[j] = "queued" <=> irp[j] = "queued"
  BY <1>0, <1>4
  DEF Send, Dispatcher, DispatchIrp, CountIrp, CheckStopPending, ReleaseSemaphore,
      UncountRefused, SignalRefused, RefuseIrp
<1>5. ASSUME MainThread, ~MainPop
      PROVE  /\ queue' = queue
             /\ \A j \in Irps : irp'[j] = "queued" <=> irp[j] = "queued"
  <2>1. CASE UNCHANGED queueVars
    BY <2>1 DEF queueVars
  <2>2. CASE MainServe \/ MainUncount
    <3>1. PICK i \in Irps : current = <<i>> /\ irp[i] \in {"current", "completed"}
      BY <1>0, <2>2 DEF MainServe, MainUncount, CurrentPlaces
    <3>2. current[1] = i
      BY <3>1
    <3>3. /\ queue' = queue
          /\ \E x \in {"completed", "finished"} : irp' = [irp EXCEPT ![i] = x]
      BY <2>2, <3>2 DEF MainServe, MainUncount
    <3>. QED  BY <1>0, <3>1, <3>3
  <2>. QED
    BY <1>5, <2>1, <2>2
    DEF MainThread, MainLoopTest, MainTestKey, MainQueueEmpty, MainCheckSuspended,
        MainWakeWithKey, MainTakeToken, MainResume, MainSignal
<1>. QED
  BY <1>1, <1>2, <1>3, <1>4, <1>5, IrpWriters DEF irpVars

LEMMA CurrentPlacesStep ==
  TypeOK /\ IrpPlaces /\ LifeCycle /\ [Next]_vars => CurrentPlaces'
<1>. SUFFICES ASSUME TypeOK, IrpPlaces, LifeCycle, [Next]_vars PROVE CurrentPlaces'
  OBVIOUS
<1>0. /\ irp \in [Irps -> IrpStates] /\ queue \in Seq(Irps)
      /\ QueuePlaces /\ CurrentPlaces
  BY DEF TypeOK, IrpTypes, IrpPlaces
<1>1. ASSUME NEW i \in Irps, Send(i) \/ Dispatcher(i) PROVE CurrentPlaces'
  <2>1. current' = current /\ mainPc' = mainPc
    BY <1>1 DEF Send, Dispatcher, DispatchFrame
  <2>2. \A j \in Irps : /\ irp'[j] = "current" <=> irp[j] = "current"
                        /\ irp'[j] = "completed" <=> irp[j] = "completed"
    BY <1>0, <1>1
    DEF Send, Dispatcher, DispatchIrp, CountIrp, CheckStopPending, InsertIrp,
        ReleaseSemaphore, UncountRefused, SignalRefused, RefuseIrp
  <2>. QED  BY <1>0, <2>1, <2>2 DEF CurrentPlaces
<1>2. CASE MainPop
  <2>1. Head(queue) \in Irps /\ Head(queue) = queue[1] /\ 1 \in DOMAIN queue
    BY <1>0, <1>2 DEF MainPop
  <2>2. /\ mainPc = "drain" /\ mainPc' = "popped" /\ current' = <<Head(queue)>>
        /\ irp' = [irp EXCEPT ![Head(queue)] = "current"]
    BY <1>2 DEF MainPop
  <2>3. \A j \in Irps : irp[j] # "current" /\ irp[j] # "completed"
    BY <1>0, <2>2 DEF CurrentPlaces
  <2>4. \A j \in Irps : irp'[j] = "current" <=> j = Head(queue)
    BY <1>0, <2>1, <2>2, <2>3
  <2>5. \A j \in Irps : irp'[j] # "completed"
    BY <1>0, <2>1, <2>2, <2>3
  <2>6. \A j \in Irps : current' = <<j>> <=> j = Head(queue)
    BY <2>1, <2>2
  <2>. QED  BY <2>1, <2>2, <2>4, <2>5, <2>6 DEF CurrentPlaces
<1>3. CASE MainServe
  <2>1. PICK i \in Irps : current = <<i>> /\ irp[i] = "current"
    BY <1>0, <1>3 DEF MainServe, CurrentPlaces
  <2>2. /\ mainPc = "serve" /\ mainPc' = "uncount" /\ current' = current
        /\ irp' = [irp EXCEPT ![i] = "completed"]
    BY <1>3, <2>1 DEF MainServe
  <2>3. \A j \in Irps : current = <<j>> <=> j = i
    BY <2>1
  <2>4. \A j \in Irps : irp'[j] # "current"
    BY <1>0, <2>2, <2>3 DEF CurrentPlaces
  <2>5. \A j \in Irps : irp'[j] = "completed" <=> j = i
    BY <1>0, <2>1, <2>2, <2>3 DEF CurrentPlaces
  <2>. QED  BY <2>1, <2>2, <2>3, <2>4, <2>5 DEF CurrentPlaces
<1>4. CASE MainUncount
  <2>1. PICK i \in Irps : current = <<i>> /\ irp[i] = "completed"
    BY <1>0, <1>4 DEF MainUncount, CurrentPlaces
  <2>2. /\ mainPc = "uncount" /\ mainPc' \in {"signal", "drain"} /\ current' = <<>>
        /\ irp' = [irp EXCEPT ![i] = "finished"]
    BY <1>4, <2>1 DEF MainUncount
  <2>3. \A j \in Irps : current = <<j>> <=> j = i
    BY <2>1
  <2>4. \A j \in Irps : irp'[j] # "current" /\ irp'[j] # "completed"
    BY <1>0, <2>2, <2>3 DEF CurrentPlaces
  <2>. QED  BY <2>2, <2>4 DEF CurrentPlaces
<1>5. CASE MainCheckSuspended \/ MainResume
  <2>1. /\ irp' = irp /\ current' = current
        /\ mainPc \in {"popped", "suspended"} /\ mainPc' \in {"suspended", "serve"}
    BY <1>5 DEF MainCheckSuspended, MainResume, queueVars
  <2>. QED  BY <1>0, <2>1 DEF CurrentPlaces
<1>6. CASE MainLoopTest \/ MainTestKey \/ MainWakeWithKey \/ MainTakeToken
           \/ MainQueueEmpty \/ MainSignal
  <2>1. /\ irp' = irp /\ current' = current
        /\ mainPc \notin {"popped", "suspended", "serve", "uncount"}
        /\ mainPc' \notin {"popped", "suspended", "serve", "uncount"}
    BY <1>6 DEF MainLoopTest, MainTestKey, MainWakeWithKey, MainTakeToken,
                MainQueueEmpty, MainSignal, queueVars
  <2>. QED  BY <1>0, <2>1 DEF CurrentPlaces
<1>7. CASE UNCHANGED irpVars /\ StartMainThread
  <2>1. /\ irp' = irp /\ current' = current
        /\ mainPc = "none" /\ mainPc' \in {"none", "top"}
    BY <1>7 DEF StartMainThread, irpVars, LifeCycle
  <2>. QED  BY <1>0, <2>1 DEF CurrentPlaces
<1>8. CASE UNCHANGED irpVars /\ mainPc' = mainPc
  <2>1. irp' = irp /\ current' = current /\ mainPc' = mainPc
    BY <1>8 DEF irpVars
  <2>. QED  BY <1>0, <2>1 DEF CurrentPlaces
<1>. QED
  BY <1>1, <1>2, <1>3, <1>4, <1>5, <1>6, <1>7, <1>8, IrpWriters DEF MainThread

LEMMA ResultPlacesStep ==
  TypeOK /\ IrpPlaces /\ [Next]_vars => ResultPlaces'
<1>. SUFFICES ASSUME TypeOK, IrpPlaces, [Next]_vars PROVE ResultPlaces'
  OBVIOUS
<1>0. /\ irp \in [Irps -> IrpStates] /\ result \in [Irps -> Results]
      /\ queue \in Seq(Irps)
      /\ QueuePlaces /\ CurrentPlaces /\ ResultPlaces
  BY DEF TypeOK, IrpTypes, IrpPlaces
<1>1. ASSUME NEW i \in Irps, Send(i) PROVE ResultPlaces'
  BY <1>0, <1>1 DEF Send, DispatchIrp, ResultPlaces
<1>2. ASSUME NEW i \in Irps, Dispatcher(i) PROVE ResultPlaces'
  <2>1. CASE CountIrp(i) \/ CheckStopPending(i) \/ InsertIrp(i) \/ ReleaseSemaphore(i)
    BY <1>0, <2>1 DEF CountIrp, CheckStopPending, InsertIrp, ReleaseSemaphore, ResultPlaces
  <2>2. CASE UncountRefused(i) \/ SignalRefused(i)
    BY <1>0, <2>2 DEF UncountRefused, SignalRefused, RefuseIrp, ResultPlaces
  <2>. QED  BY <1>2, <2>1, <2>2 DEF Dispatcher
<1>3. CASE MainPop
  <2>1. Head(queue) \in Irps /\ irp[Head(queue)] = "queued"
    BY <1>0, <1>3 DEF MainPop, QueuePlaces
  <2>. QED  BY <1>0, <1>3, <2>1 DEF MainPop, ResultPlaces
<1>4. CASE MainServe
  <2>1. PICK i \in Irps : current[1] = i /\ irp[i] = "current"
    BY <1>0, <1>4 DEF MainServe, CurrentPlaces
  <2>2. PICK r \in {"other", ReadAnswer} : result' = [result EXCEPT ![i] = r]
    BY <1>4, <2>1 DEF MainServe
  <2>3. irp' = [irp EXCEPT ![i] = "completed"] /\ r # "none"
    BY <1>4, <2>1 DEF MainServe, ReadAnswer
  <2>. QED  BY <1>0, <2>2, <2>3 DEF ResultPlaces
<1>5. CASE MainUncount
  <2>1. PICK i \in Irps : current[1] = i /\ irp[i] = "completed"
    BY <1>0, <1>5 DEF MainUncount, CurrentPlaces
  <2>2. irp' = [irp EXCEPT ![i] = "finished"] /\ result' = result
    BY <1>5, <2>1 DEF MainUncount
  <2>. QED  BY <1>0, <2>1, <2>2 DEF ResultPlaces
<1>6. CASE UNCHANGED <<irp, result>>
  BY <1>0, <1>6 DEF ResultPlaces
<1>. QED
  BY <1>1, <1>2, <1>3, <1>4, <1>5, <1>6, IrpWriters
  DEF MainThread, MainLoopTest, MainTestKey, MainWakeWithKey, MainTakeToken,
      MainQueueEmpty, MainCheckSuspended, MainResume, MainSignal, queueVars, irpVars

LEMMA LifeCycleStep ==
  TypeOK /\ IrpPlaces /\ LifeCycle /\ [Next]_vars => LifeCycle'
<1>. SUFFICES ASSUME TypeOK, IrpPlaces, LifeCycle, [Next]_vars PROVE LifeCycle'
  OBVIOUS
<1>0. /\ irp \in [Irps -> IrpStates] /\ queue \in Seq(Irps)
      /\ QueuePlaces /\ CurrentPlaces /\ ResultPlaces /\ LifeCycle
  BY DEF TypeOK, IrpTypes, IrpPlaces
<1>1. CASE Starter
  <2>1. /\ irp' = irp /\ stopPc' = stopPc /\ passthrough' = passthrough
        /\ ~Opened
    BY <1>1 DEF Starter, StarterFrame, irpVars, TrackFileObject, StartQueue,
                StartMainThread, Opened
  <2>2. CASE TrackFileObject
    BY <1>0, <2>1, <2>2 DEF TrackFileObject, LifeCycle, Opened
  <2>3. CASE StartQueue
    BY <1>0, <2>1, <2>3 DEF StartQueue, StartNoMemory, StartNoServer, StartAskKey,
                            LifeCycle, Opened
  <2>4. CASE StartMainThread
    BY <1>0, <2>1, <2>4 DEF StartMainThread, LifeCycle, Opened
  <2>. QED  BY <1>1, <2>2, <2>3, <2>4 DEF Starter
<1>2. ASSUME NEW i \in Irps, Send(i) \/ Dispatcher(i) PROVE LifeCycle'
  <2>1. UNCHANGED <<object, starter, mainPc, stopPc, passthrough>>
    BY <1>2 DEF Send, Dispatcher, DispatchFrame, modeVars
  <2>2. CASE Send(i)
    <3>1. Opened /\ stopPc = "idle"
      BY <2>2 DEF Send, DispatchIrp
    <3>. QED  BY <1>0, <2>1, <3>1 DEF LifeCycle, Opened
  <2>3. CASE ReleaseSemaphore(i)
    <3>1. irp' = irp
      BY <2>3 DEF ReleaseSemaphore
    <3>. QED  BY <1>0, <2>1, <3>1 DEF LifeCycle, Opened
  <2>4. CASE Dispatcher(i) /\ ~ReleaseSemaphore(i)
    <3>1. irp[i] \in {"found", "counted", "admitted", "refused", "refusedZero"}
      BY <2>4 DEF Dispatcher, CountIrp, CheckStopPending, InsertIrp, UncountRefused,
                  SignalRefused
    <3>2. Opened /\ stopPc = "idle"
      BY <1>0, <3>1 DEF LifeCycle
    <3>. QED  BY <1>0, <2>1, <3>2 DEF LifeCycle, Opened
  <2>. QED  BY <1>2, <2>2, <2>3, <2>4
<1>3. CASE MainThread
  <2>1. UNCHANGED <<object, starter, stopPc>>
    BY <1>3 DEF MainThread, MainFrame
  <2>2. mainPc # "none" /\ mainPc # "terminated" /\ mainPc' # "none"
    BY <1>3 DEF MainThread, MainLoopTest, MainTestKey, MainWakeWithKey, MainTakeToken,
                MainPop, MainQueueEmpty, MainCheckSuspended, MainResume, MainServe,
                MainUncount, MainSignal
  <2>3. Opened /\ Opened' /\ object # "freed" /\ object' # "freed"
    BY <1>0, <2>1, <2>2 DEF LifeCycle, Opened
  <2>4. ASSUME stopPc # "idle"
        PROVE  \A j \in Irps : irp'[j] \in {"unsent", "completed", "finished"}
    <3>1. \A j \in Irps : irp[j] \in {"unsent", "completed", "finished"}
      BY <1>0, <2>4 DEF LifeCycle
    <3>2. ~MainPop
      <4>. SUFFICES ASSUME MainPop PROVE FALSE
        OBVIOUS
      <4>1. Head(queue) \in Irps /\ Head(queue) = queue[1] /\ 1 \in DOMAIN queue
        BY <1>0 DEF MainPop
      <4>2. irp[Head(queue)] = "queued"
        BY <1>0, <4>1 DEF QueuePlaces
      <4>. QED  BY <3>1, <4>1, <4>2
    <3>3. ~MainServe
      BY <1>0, <3>1 DEF MainServe, CurrentPlaces
    <3>4. CASE MainUncount
      BY <1>0, <3>1, <3>4 DEF MainUncount
    <3>5. CASE irp' = irp
      BY <3>1, <3>5
    <3>. QED
      BY <1>3, <3>2, <3>3, <3>4, <3>5
      DEF MainThread, MainLoopTest, MainTestKey, MainWakeWithKey, MainTakeToken,
          MainQueueEmpty, MainCheckSuspended, MainResume, MainSignal, queueVars
  <2>. QED  BY <1>0, <2>1, <2>2, <2>3, <2>4 DEF LifeCycle
<1>4. CASE Close
  <2>1. UNCHANGED <<irp, starter, mainPc, passthrough>> /\ Opened /\ Opened'
    BY <1>4 DEF Close, CloseFrame, CloseFindsObject, irpVars, modeVars, Opened
  <2>2. \A j \in Irps : irp[j] \in {"unsent", "completed", "finished"}
    BY <1>0, <1>4 DEF Close, CloseFindsObject, LastReferenceGone, ResultPlaces
  <2>3. /\ stopPc = "idle"
        /\ \/ object = "listed" /\ object' = "unlisted" /\ stopPc' = "flag"
           \/ object' = object /\ stopPc' = "returned"
    BY <1>4 DEF Close, CloseFindsObject
  <2>. QED  BY <1>0, <2>1, <2>2, <2>3 DEF LifeCycle, Opened
<1>5. CASE Stop
  <2>1. UNCHANGED <<irp, starter, mainPc, passthrough>>
    BY <1>5 DEF Stop, CloseFrame, irpVars, modeVars
  <2>2. CASE StopJoin
    BY <1>0, <2>1, <2>2 DEF StopJoin, LifeCycle, Opened
  <2>3. CASE ~StopJoin
    <3>1. /\ stopPc \notin {"idle", "returned"} /\ stopPc' \notin {"idle", "returned"}
          /\ object' = object
      BY <1>5, <2>3
      DEF Stop, StopSetPending, StopWithdrawRequest, StopWithdrawResponse,
          StopReadCount, StopWait, StopRequestExit, StopSetKeyEvent, StopRelease
    <3>. QED  BY <1>0, <2>1, <3>1 DEF LifeCycle, Opened
  <2>. QED  BY <2>2, <2>3
<1>6. CASE ControlClose \/ RemoveAll
  <2>1. UNCHANGED <<irp, starter, mainPc, passthrough, stopPc>>
    BY <1>6 DEF ControlClose, RemoveAll, CtlFrame, irpVars, modeVars
  <2>2. object' = object \/ (object = "listed" /\ object' = "orphaned")
    BY <1>6 DEF ControlClose, RemoveAll, CtlClose, CtlFetch, CtlRequestExit,
                CtlSetKeyEvent, CtlRelease, CtlJoin
  <2>. QED  BY <1>0, <2>1, <2>2 DEF LifeCycle, Opened
<1>7. ASSUME UNCHANGED <<irp, starter, mainPc, passthrough, stopPc, object>>
      PROVE  LifeCycle'
  BY <1>0, <1>7 DEF LifeCycle, Opened
<1>8. CASE Retriever \/ Responder
  BY <1>7, <1>8 DEF Retriever, Responder, KeyFrame, irpVars
<1>9. CASE CallHold \/ Hold
  BY <1>7, <1>9 DEF CallHold, Hold, HoldFrame, irpVars, modeVars
<1>10. CASE UNCHANGED vars
  BY <1>7, <1>10 DEF vars, irpVars, modeVars
<1>. QED
  BY <1>1, <1>2, <1>3, <1>4, <1>5, <1>6, <1>8, <1>9, <1>10 DEF Next

(* Every IRP is exactly where the list, the thread and the result say it is, *)
(* and the object, the create path, the thread and the close agree on how    *)
(* far the life of the queue has gone.                                       *)
THEOREM PlacesCorrect == Spec => [](IrpPlaces /\ LifeCycle)
<1>1. Init => IrpPlaces /\ LifeCycle
  BY DEF Init, IrpPlaces, QueuePlaces, CurrentPlaces, ResultPlaces, LifeCycle, Opened
<1>2. TypeOK /\ IrpPlaces /\ LifeCycle /\ [Next]_vars => (IrpPlaces /\ LifeCycle)'
  BY QueuePlacesStep, CurrentPlacesStep, ResultPlacesStep, LifeCycleStep DEF IrpPlaces
<1>. QED  BY TypeCorrect, <1>1, <1>2, PTL DEF Spec

(* When the close has freed the queue nothing is queued, popped or on its    *)
(* way in, and the thread is gone.                                           *)
THEOREM FreedCorrect == Spec => []FreedIsQuiescent
<1>1. TypeOK /\ IrpPlaces /\ LifeCycle => FreedIsQuiescent
  <2>. SUFFICES ASSUME TypeOK, IrpPlaces, LifeCycle, object = "freed"
                PROVE  /\ mainPc = "terminated"
                       /\ queue = <<>> /\ current = <<>>
                       /\ \A i \in Irps : irp[i] \in {"unsent", "finished"}
    BY DEF FreedIsQuiescent
  <2>1. mainPc = "terminated" /\ stopPc = "returned"
    BY DEF LifeCycle
  <2>2. \A i \in Irps : irp[i] \in {"unsent", "completed", "finished"}
    BY <2>1 DEF LifeCycle
  <2>3. current = <<>> /\ \A i \in Irps : irp[i] # "completed"
    BY <2>1 DEF IrpPlaces, CurrentPlaces
  <2>4. queue = <<>>
    <3>. SUFFICES ASSUME queue # <<>> PROVE FALSE
      OBVIOUS
    <3>1. queue \in Seq(Irps)
      BY DEF TypeOK, IrpTypes
    <3>2. 1 \in DOMAIN queue /\ queue[1] \in Irps
      BY <3>1
    <3>3. irp[queue[1]] = "queued"
      BY <3>2 DEF IrpPlaces, QueuePlaces
    <3>. QED  BY <2>2, <3>2, <3>3
  <2>. QED  BY <2>1, <2>2, <2>3, <2>4
<1>. QED  BY TypeCorrect, PlacesCorrect, <1>1, PTL

-----------------------------------------------------------------------------
(* The flags: what a responder, the close and the holder have done so far.   *)

LEMMA GrantPlacesStep == TypeOK /\ GrantPlaces /\ [Next]_vars => GrantPlaces'
<1>. SUFFICES ASSUME TypeOK, GrantPlaces, [Next]_vars PROVE GrantPlaces'
  OBVIOUS
<1>1. CASE Starter
  BY <1>1 DEF Starter, StarterFrame, TrackFileObject, StartQueue, StartNoMemory,
              StartNoServer, StartAskKey, StartMainThread, GrantPlaces
<1>2. CASE Retriever
  BY <1>2 DEF Retriever, KeyFrame, RetrieveRequest, FinishRetrieve, GrantPlaces
<1>3. CASE Responder
  BY <1>3 DEF Responder, KeyFrame, FindResponse, ResponderCheck, ResponderPin,
              ResponderInstall, ResponderUncount, ResponderSignalIo,
              ResponderSetKeyEvent, ResponderDangles, GrantPlaces
<1>4. CASE Close \/ Stop
  BY <1>4 DEF Close, Stop, CloseFrame, CloseFindsObject, StopSetPending,
              StopWithdrawRequest, StopWithdrawResponse, StopReadCount, StopWait,
              StopRequestExit, StopSetKeyEvent, StopRelease, StopJoin, GrantPlaces
<1>5. CASE UNCHANGED <<keyVars, starter>>
  BY <1>5 DEF keyVars, GrantPlaces
<1>. QED
  BY <1>1, <1>2, <1>3, <1>4, <1>5
  DEF Next, Send, Dispatcher, DispatchFrame, MainThread, MainFrame, ControlClose,
      RemoveAll, CtlFrame, CallHold, Hold, HoldFrame, vars, keyVars

LEMMA StopFlaggedStep ==
  TypeOK /\ LifeCycle /\ StopFlagged /\ [Next]_vars => StopFlagged'
<1>. SUFFICES ASSUME TypeOK, LifeCycle, StopFlagged, [Next]_vars PROVE StopFlagged'
  OBVIOUS
<1>1. CASE Starter
  <2>1. stopPc' = stopPc /\ ~Opened
    BY <1>1 DEF Starter, StarterFrame, TrackFileObject, StartQueue, StartMainThread,
                Opened
  <2>. QED  BY <2>1 DEF LifeCycle, StopFlagged
<1>2. CASE Close \/ Stop
  BY <1>2 DEF Close, Stop, CloseFrame, CloseFindsObject, StopSetPending,
              StopWithdrawRequest, StopWithdrawResponse, StopReadCount, StopWait,
              StopRequestExit, StopSetKeyEvent, StopRelease, StopJoin, StopFlagged
<1>3. CASE UNCHANGED <<stopPending, stopPc>>
  BY <1>3 DEF StopFlagged
<1>. QED
  BY <1>1, <1>2, <1>3
  DEF Next, Send, Dispatcher, DispatchFrame, MainThread, MainFrame, Retriever,
      Responder, KeyFrame, ControlClose, RemoveAll, CtlFrame, CallHold, Hold,
      HoldFrame, vars, flagVars

LEMMA HoldPlacesStep == TypeOK /\ HoldPlaces /\ [Next]_vars => HoldPlaces'
<1>. SUFFICES ASSUME TypeOK, HoldPlaces, [Next]_vars PROVE HoldPlaces'
  OBVIOUS
<1>1. CASE Starter
  BY <1>1 DEF Starter, StarterFrame, TrackFileObject, StartQueue, StartNoMemory,
              StartNoServer, StartAskKey, StartMainThread, HoldPlaces, Opened,
              eventVars, holdVars
<1>2. CASE MainThread
  <2>1. UNCHANGED <<holdPc, suspended, starter>> /\ (resumedEvent' => resumedEvent)
    BY <1>2 DEF MainThread, MainFrame, MainLoopTest, MainTestKey, MainWakeWithKey,
                MainTakeToken, MainPop, MainQueueEmpty, MainCheckSuspended, MainResume,
                MainServe, MainUncount, MainSignal, signalVars, flagVars, holdVars
  <2>. QED  BY <2>1 DEF HoldPlaces, Opened
<1>3. CASE CallHold
  <2>1. 0 < HoldLimit
    BY <1>3, HoldAssumption DEF CallHold, HoldBegin, TypeOK, CountTypes
  <2>. QED  BY <1>3, <2>1 DEF CallHold, HoldFrame, HoldBegin, HoldPlaces, Opened
<1>4. CASE Hold
  BY <1>4 DEF Hold, HoldFrame, HoldReadCount, HoldWait, HoldRecheck, HoldClearResumed,
              HoldSuspend, HoldVerify, ResumeFromHold, HoldPlaces, Opened,
              TypeOK, FlagTypes
<1>5. CASE UNCHANGED <<holdPc, suspended, resumedEvent, starter>>
  BY <1>5 DEF HoldPlaces, Opened
<1>. QED
  BY <1>1, <1>2, <1>3, <1>4, <1>5
  DEF Next, Send, Dispatcher, DispatchFrame, Retriever, Responder, KeyFrame, Close,
      Stop, CloseFrame, ControlClose, RemoveAll, CtlFrame, vars, flagVars, eventVars,
      holdVars

LEMMA ModeDecidedStep ==
  TypeOK /\ LifeCycle /\ GrantPlaces /\ ModeDecided /\ [Next]_vars => ModeDecided'
<1>. SUFFICES ASSUME TypeOK, LifeCycle, GrantPlaces, ModeDecided, [Next]_vars
              PROVE  ModeDecided'
  OBVIOUS
<1>0. keyEvent \in BOOLEAN /\ passthrough \in BOOLEAN /\ cryptoInfo \in BOOLEAN
  BY DEF TypeOK, FlagTypes
<1>1. CASE Starter
  <2>1. /\ passthrough' = passthrough /\ ~passthrough
        /\ mainPc = "none" /\ mainPc' \in {"none", "top"}
        /\ keyEvent' => keyEvent
        /\ UNCHANGED <<responder, ctlPc, stopPc>>
    BY <1>1 DEF Starter, StarterFrame, TrackFileObject, StartQueue, StartMainThread,
                LifeCycle, Opened, eventVars
  <2>. QED  BY <2>1 DEF ModeDecided
<1>2. CASE MainThread
  <2>1. UNCHANGED <<keyEvent, cryptoInfo, responder, ctlPc, stopPc>>
    BY <1>2 DEF MainThread, MainFrame, keyVars
  <2>2. CASE MainTestKey
    BY <1>0, <2>1, <2>2 DEF MainTestKey, ModeDecided
  <2>3. CASE MainWakeWithKey
    BY <1>0, <2>1, <2>3 DEF MainWakeWithKey, ModeDecided
  <2>4. CASE passthrough' = passthrough /\ mainPc' \in {"top", "testKey", "terminated"}
    BY <2>1, <2>4 DEF ModeDecided
  <2>5. CASE /\ passthrough' = passthrough /\ mainPc' # "waitKey"
             /\ mainPc \in {"waitToken", "drain", "popped", "suspended", "serve",
                            "uncount", "signal"}
    BY <2>1, <2>5 DEF ModeDecided
  <2>. QED
    BY <1>2, <2>2, <2>3, <2>4, <2>5
    DEF MainThread, MainLoopTest, MainTakeToken, MainPop, MainQueueEmpty,
        MainCheckSuspended, MainResume, MainServe, MainUncount, MainSignal
<1>3. CASE Responder
  <2>1. /\ UNCHANGED <<passthrough, mainPc, ctlPc, stopPc>>
        /\ cryptoInfo => cryptoInfo'
        /\ keyEvent => keyEvent'
        /\ (keyEvent' => keyEvent) \/ responder' = "done"
        /\ responder # "done"
    BY <1>3 DEF Responder, KeyFrame, FindResponse, ResponderCheck, ResponderPin,
                ResponderInstall, ResponderUncount, ResponderSignalIo,
                ResponderSetKeyEvent, ResponderDangles, GrantPlaces
  <2>. QED  BY <1>0, <2>1 DEF ModeDecided
<1>4. CASE Close \/ Stop
  <2>1. /\ UNCHANGED <<passthrough, cryptoInfo, mainPc, ctlPc, responder>>
        /\ keyEvent' = keyEvent \/ stopPc' # "idle"
        /\ stopPc' # "idle"
    BY <1>4 DEF Close, Stop, CloseFrame, CloseFindsObject, StopSetPending,
                StopWithdrawRequest, StopWithdrawResponse, StopReadCount, StopWait,
                StopRequestExit, StopSetKeyEvent, StopRelease, StopJoin, modeVars
  <2>2. keyEvent => keyEvent'
    BY <1>0, <1>4 DEF Close, Stop, CloseFindsObject, StopSetPending,
                StopWithdrawRequest, StopWithdrawResponse, StopReadCount, StopWait,
                StopRequestExit, StopSetKeyEvent, StopRelease, StopJoin
  <2>. QED  BY <2>1, <2>2 DEF ModeDecided
<1>5. CASE ControlClose \/ RemoveAll
  <2>1. /\ UNCHANGED <<passthrough, cryptoInfo, mainPc, stopPc, responder>>
        /\ ctlPc' # "idle"
        /\ keyEvent => keyEvent'
    BY <1>5 DEF ControlClose, RemoveAll, CtlFrame, CtlClose, CtlFetch, CtlRequestExit,
                CtlSetKeyEvent, CtlRelease, CtlJoin, modeVars, keyVars
  <2>. QED  BY <2>1 DEF ModeDecided
<1>6. CASE UNCHANGED <<passthrough, cryptoInfo, mainPc, stopPc, ctlPc, responder, keyEvent>>
  BY <1>6 DEF ModeDecided
<1>. QED
  BY <1>1, <1>2, <1>3, <1>4, <1>5, <1>6
  DEF Next, Send, Dispatcher, DispatchFrame, Retriever, KeyFrame, RetrieveRequest,
      FinishRetrieve, CallHold, Hold, HoldFrame, vars, modeVars, eventVars, keyVars

(* A responder, the close and the holder have done to the flags and events   *)
(* what their progress says, and the key wait is passed only with a decision.*)
THEOREM FlagsCorrect == Spec => [](GrantPlaces /\ StopFlagged /\ HoldPlaces /\ ModeDecided)
<1>1. Init => GrantPlaces /\ StopFlagged /\ HoldPlaces /\ ModeDecided
  BY DEF Init, GrantPlaces, StopFlagged, HoldPlaces, ModeDecided
<1>2. /\ TypeOK /\ LifeCycle /\ [Next]_vars
      /\ GrantPlaces /\ StopFlagged /\ HoldPlaces /\ ModeDecided
      => (GrantPlaces /\ StopFlagged /\ HoldPlaces /\ ModeDecided)'
  BY GrantPlacesStep, StopFlaggedStep, HoldPlacesStep, ModeDecidedStep
<1>. QED  BY TypeCorrect, PlacesCorrect, <1>1, <1>2, PTL DEF Spec

(* A key that was installed is used, unless a close woke the thread first.   *)
THEOREM GrantedKeyCorrect == Spec => []GrantedKeyIsUsed
<1>1. Init => GrantedKeyIsUsed
  BY DEF Init, GrantedKeyIsUsed
<1>2. TypeOK /\ LifeCycle /\ GrantPlaces /\ ModeDecided /\ GrantedKeyIsUsed /\ [Next]_vars
      => GrantedKeyIsUsed'
  <2>. SUFFICES ASSUME TypeOK, LifeCycle, GrantPlaces, ModeDecided, GrantedKeyIsUsed,
                       [Next]_vars
                PROVE  GrantedKeyIsUsed'
    OBVIOUS
  <2>1. CASE Starter
    <3>1. passthrough' = passthrough /\ ~passthrough
      BY <2>1 DEF Starter, StarterFrame, TrackFileObject, StartQueue, StartMainThread,
                  LifeCycle, Opened
    <3>. QED  BY <3>1 DEF GrantedKeyIsUsed
  <2>2. CASE MainThread
    <3>1. UNCHANGED <<cryptoInfo, ctlPc, stopPc>>
      BY <2>2 DEF MainThread, MainFrame
    <3>2. passthrough' = passthrough \/ passthrough' = ~cryptoInfo
      BY <2>2 DEF MainThread, MainLoopTest, MainTestKey, MainWakeWithKey,
                  MainTakeToken, MainPop, MainQueueEmpty, MainCheckSuspended,
                  MainResume, MainServe, MainUncount, MainSignal
    <3>. QED  BY <3>1, <3>2 DEF GrantedKeyIsUsed
  <2>3. CASE Responder
    <3>. USE DEF Responder, KeyFrame, FindResponse, ResponderCheck, ResponderPin,
                 ResponderInstall, ResponderUncount, ResponderSignalIo,
                 ResponderSetKeyEvent, ResponderDangles
    <3>1. UNCHANGED <<passthrough, ctlPc, stopPc>>
      BY <2>3
    <3>2. responder # "done"
      BY <2>3 DEF GrantPlaces
    <3>3. CASE ResponderInstall
      <4>1. responder = "install"
        BY <3>3
      <4>. QED  BY <3>1, <4>1 DEF ModeDecided, GrantedKeyIsUsed
    <3>4. CASE cryptoInfo' = cryptoInfo
      BY <3>1, <3>4 DEF GrantedKeyIsUsed
    <3>. QED  BY <2>3, <3>3, <3>4
  <2>4. CASE Close \/ Stop
    BY <2>4 DEF Close, Stop, CloseFrame, CloseFindsObject, StopSetPending,
                StopWithdrawRequest, StopWithdrawResponse, StopReadCount, StopWait,
                StopRequestExit, StopSetKeyEvent, StopRelease, StopJoin, modeVars,
                GrantedKeyIsUsed
  <2>5. CASE ControlClose \/ RemoveAll
    BY <2>5 DEF ControlClose, RemoveAll, CtlFrame, CtlClose, CtlFetch, CtlRequestExit,
                CtlSetKeyEvent, CtlRelease, CtlJoin, modeVars, GrantedKeyIsUsed
  <2>6. CASE UNCHANGED <<passthrough, cryptoInfo, stopPc, ctlPc>>
    BY <2>6 DEF GrantedKeyIsUsed
  <2>. QED
    BY <2>1, <2>2, <2>3, <2>4, <2>5, <2>6
    DEF Next, Send, Dispatcher, DispatchFrame, Retriever, KeyFrame, RetrieveRequest,
        FinishRetrieve, CallHold, Hold, HoldFrame, vars, modeVars
<1>. QED  BY TypeCorrect, PlacesCorrect, FlagsCorrect, <1>1, <1>2, PTL DEF Spec

-----------------------------------------------------------------------------
(* OutstandingIoCount.                                                       *)

\* What an actor that is neither a dispatcher, nor the main thread, nor a
\* responder, nor the join of Stop leaves alone of the count.
CountVars == <<object, irp, outstanding, responder, grant>>

LEMMA CountAccountsStep ==
  TypeOK /\ IrpPlaces /\ LifeCycle /\ GrantPlaces /\ CountAccounts /\ [Next]_vars
  => CountAccounts'
<1>. SUFFICES ASSUME TypeOK, IrpPlaces, LifeCycle, GrantPlaces, CountAccounts,
                     [Next]_vars, object' # "freed"
              PROVE  outstanding' = Cardinality(Outstanding') + Pin' - Debt'
  BY DEF CountAccounts
<1>0. /\ irp \in [Irps -> IrpStates] /\ queue \in Seq(Irps)
      /\ outstanding \in Int
      /\ QueuePlaces /\ CurrentPlaces
  BY DEF TypeOK, IrpTypes, CountTypes, IrpPlaces
<1>1. IsFiniteSet(Outstanding) /\ Cardinality(Outstanding) \in Nat
  BY IrpsAssumption, FS_Subset, FS_CardinalityType DEF Outstanding
<1>2. Pin \in {0, 1} /\ Debt \in {0, 1}
  BY DEF Pin, Debt
<1>3. ASSUME object # "freed"
      PROVE  outstanding = Cardinality(Outstanding) + Pin - Debt
  BY <1>3 DEF CountAccounts
<1>4. ASSUME NEW i \in Irps, Send(i) \/ Dispatcher(i)
      PROVE  outstanding' = Cardinality(Outstanding') + Pin' - Debt'
  <2>1. Pin' = Pin /\ Debt' = Debt /\ object # "freed"
    BY <1>4 DEF Send, Dispatcher, DispatchFrame, keyVars, Pin, Debt
  <2>2. CASE CountIrp(i)
    <3>1. irp[i] = "found" /\ irp' = [irp EXCEPT ![i] = "counted"]
          /\ outstanding' = outstanding + 1
      BY <2>2 DEF CountIrp
    <3>2. Outstanding' = Outstanding \cup {i} /\ i \notin Outstanding
      BY <1>0, <3>1 DEF Outstanding
    <3>3. Cardinality(Outstanding') = Cardinality(Outstanding) + 1
      BY <1>1, <3>2, FS_AddElement
    <3>. QED  BY <1>1, <1>2, <1>3, <2>1, <3>1, <3>3
  <2>3. CASE UncountRefused(i)
    <3>1. irp[i] = "refused" /\ outstanding' = outstanding - 1
          /\ \E x \in {"refusedZero", "finished"} : irp' = [irp EXCEPT ![i] = x]
      BY <2>3 DEF UncountRefused, RefuseIrp
    <3>2. Outstanding' = Outstanding \ {i} /\ i \in Outstanding
      BY <1>0, <3>1 DEF Outstanding
    <3>3. Cardinality(Outstanding') = Cardinality(Outstanding) - 1
      BY <1>1, <3>2, FS_RemoveElement
    <3>. QED  BY <1>1, <1>2, <1>3, <2>1, <3>1, <3>3
  <2>4. CASE Send(i) \/ CheckStopPending(i) \/ InsertIrp(i) \/ ReleaseSemaphore(i)
             \/ SignalRefused(i)
    <3>1. outstanding' = outstanding
      BY <2>4 DEF Send, DispatchIrp, CheckStopPending, InsertIrp, ReleaseSemaphore,
                  SignalRefused
    <3>2. Outstanding' = Outstanding
      BY <1>0, <2>4 DEF Send, DispatchIrp, CheckStopPending, InsertIrp,
                        ReleaseSemaphore, SignalRefused, RefuseIrp, Outstanding
    <3>. QED  BY <1>3, <2>1, <3>1, <3>2
  <2>. QED  BY <1>4, <2>2, <2>3, <2>4 DEF Dispatcher
<1>5. CASE MainThread
  <2>1. Pin' = Pin /\ Debt' = Debt /\ object # "freed"
    BY <1>5 DEF MainThread, MainFrame, keyVars, Pin, Debt
  <2>2. CASE MainPop
    <3>1. Head(queue) = queue[1] /\ 1 \in DOMAIN queue /\ Head(queue) \in Irps
      BY <1>0, <2>2 DEF MainPop
    <3>2. irp[Head(queue)] = "queued"
      BY <1>0, <3>1 DEF QueuePlaces
    <3>3. Outstanding' = Outstanding /\ outstanding' = outstanding
      BY <1>0, <2>2, <3>1, <3>2 DEF MainPop, Outstanding
    <3>. QED  BY <1>3, <2>1, <3>3
  <2>3. CASE MainServe
    <3>1. PICK i \in Irps : current[1] = i /\ irp[i] = "current"
      BY <1>0, <2>3 DEF MainServe, CurrentPlaces
    <3>2. irp' = [irp EXCEPT ![i] = "completed"] /\ outstanding' = outstanding
      BY <2>3, <3>1 DEF MainServe
    <3>3. Outstanding' = Outstanding
      BY <1>0, <3>1, <3>2 DEF Outstanding
    <3>. QED  BY <1>3, <2>1, <3>2, <3>3
  <2>4. CASE MainUncount
    <3>1. PICK i \in Irps : current[1] = i /\ irp[i] = "completed"
      BY <1>0, <2>4 DEF MainUncount, CurrentPlaces
    <3>2. irp' = [irp EXCEPT ![i] = "finished"] /\ outstanding' = outstanding - 1
      BY <2>4, <3>1 DEF MainUncount
    <3>3. Outstanding' = Outstanding \ {i} /\ i \in Outstanding
      BY <1>0, <3>1, <3>2 DEF Outstanding
    <3>4. Cardinality(Outstanding') = Cardinality(Outstanding) - 1
      BY <1>1, <3>3, FS_RemoveElement
    <3>. QED  BY <1>1, <1>2, <1>3, <2>1, <3>2, <3>4
  <2>5. CASE UNCHANGED <<irp, outstanding>>
    <3>1. Outstanding' = Outstanding
      BY <2>5 DEF Outstanding
    <3>. QED  BY <1>3, <2>1, <2>5, <3>1
  <2>. QED
    BY <1>5, <2>2, <2>3, <2>4, <2>5
    DEF MainThread, MainLoopTest, MainTestKey, MainWakeWithKey, MainTakeToken,
        MainQueueEmpty, MainCheckSuspended, MainResume, MainSignal, queueVars
<1>6. CASE Responder
  <2>1. Outstanding' = Outstanding /\ object # "freed"
    BY <1>6 DEF Responder, KeyFrame, irpVars, Outstanding
  <2>2. outstanding = Cardinality(Outstanding) + Pin - Debt
    BY <1>3, <2>1
  <2>3. CASE ResponderPin
    <3>1. Pin = 0 /\ Debt = 0 /\ Pin' = 1 /\ Debt' = 0 /\ outstanding' = outstanding + 1
      BY <2>3 DEF ResponderPin, Pin, Debt, GrantPlaces
    <3>. QED  BY <1>0, <1>1, <2>1, <2>2, <3>1
  <2>4. CASE ResponderUncount
    <3>1. outstanding' = outstanding - 1 /\ Debt = 0 /\ Pin' = 0
      BY <2>4 DEF ResponderUncount, Pin, Debt
    <3>2. \/ grant = "granted" /\ Pin = 1 /\ Debt' = 0
          \/ grant = "refused" /\ Pin = 0 /\ Debt' = 1
      BY <2>4 DEF ResponderUncount, Pin, Debt, GrantPlaces, TypeOK, ProgressTypes
    <3>. QED  BY <1>0, <1>1, <2>1, <2>2, <3>1, <3>2
  <2>5. CASE ~ResponderPin /\ ~ResponderUncount
    <3>1. outstanding' = outstanding /\ Pin' = Pin /\ Debt' = Debt
      BY <1>6, <2>1, <2>5
      DEF Responder, FindResponse, ResponderCheck, ResponderInstall, ResponderSignalIo,
          ResponderSetKeyEvent, ResponderDangles, GrantPlaces, Pin, Debt
    <3>. QED  BY <2>1, <2>2, <3>1
  <2>. QED  BY <2>3, <2>4, <2>5
<1>7. CASE UNCHANGED CountVars
  BY <1>3, <1>7 DEF CountVars, Outstanding, Pin, Debt
<1>8. CASE Starter
  <2>1. object # "freed" /\ UNCHANGED <<irp, outstanding, responder, grant>>
    BY <1>8 DEF Starter, StarterFrame, irpVars, TrackFileObject, StartQueue,
                StartMainThread, LifeCycle
  <2>. QED  BY <1>3, <2>1 DEF Outstanding, Pin, Debt
<1>9. CASE Close \/ Stop
  <2>1. object # "freed" /\ UNCHANGED <<irp, outstanding, responder, grant>>
    BY <1>9 DEF Close, Stop, CloseFrame, irpVars, CloseFindsObject, StopSetPending,
                StopWithdrawRequest, StopWithdrawResponse, StopReadCount, StopWait,
                StopRequestExit, StopSetKeyEvent, StopRelease, StopJoin
  <2>. QED  BY <1>3, <2>1 DEF Outstanding, Pin, Debt
<1>10. CASE ControlClose \/ RemoveAll
  <2>1. object # "freed" /\ UNCHANGED <<irp, outstanding, responder, grant>>
    BY <1>10 DEF ControlClose, RemoveAll, CtlFrame, irpVars, keyVars, CtlClose,
                 CtlFetch, CtlRequestExit, CtlSetKeyEvent, CtlRelease, CtlJoin
  <2>. QED  BY <1>3, <2>1 DEF Outstanding, Pin, Debt
<1>. QED
  BY <1>4, <1>5, <1>6, <1>7, <1>8, <1>9, <1>10
  DEF Next, Retriever, KeyFrame, RetrieveRequest, FinishRetrieve, CallHold, Hold,
      HoldFrame, vars, irpVars, keyVars, CountVars

(* While the queue exists, OutstandingIoCount is the number of IRPs in it,   *)
(* plus a responder at work, minus the unmatched decrement of a refusal.     *)
THEOREM CountCorrect == Spec => []CountAccounts
<1>1. Init => CountAccounts
  <2>. SUFFICES ASSUME Init PROVE CountAccounts
    OBVIOUS
  <2>1. Outstanding = {}
    BY DEF Init, Outstanding
  <2>. QED  BY <2>1, FS_EmptySet DEF Init, CountAccounts, Pin, Debt
<1>. QED
  BY TypeCorrect, PlacesCorrect, FlagsCorrect, CountAccountsStep, <1>1, PTL DEF Spec

-----------------------------------------------------------------------------
(* The semaphore covers the list.                                            *)

Asleep == mainPc \in {"none", "top", "testKey", "waitKey", "waitToken"}

\* Queue entries whose dispatcher has released the semaphore.
Covered == \E k \in DOMAIN queue : queue[k] \notin unreleased

LEMMA TokenCoversQueueStep ==
  TypeOK /\ IrpPlaces /\ LifeCycle /\ FreedIsQuiescent /\ TokenCoversQueue /\ [Next]_vars
  => TokenCoversQueue'
<1>. SUFFICES ASSUME TypeOK, IrpPlaces, LifeCycle, FreedIsQuiescent, TokenCoversQueue,
                     [Next]_vars, Asleep', Covered'
              PROVE  semaphore' > 0
  BY DEF TokenCoversQueue, Asleep, Covered
<1>0. /\ irp \in [Irps -> IrpStates] /\ queue \in Seq(Irps)
      /\ semaphore \in Nat /\ QueuePlaces
      /\ Asleep /\ Covered => semaphore > 0
  BY DEF TypeOK, IrpTypes, CountTypes, IrpPlaces, TokenCoversQueue, Asleep, Covered
<1>1. CASE Starter
  <2>1. Asleep /\ queue' = queue /\ unreleased' = unreleased /\ ~Opened
    BY <1>1 DEF Starter, StarterFrame, irpVars, TrackFileObject, StartQueue,
                StartMainThread, Opened, LifeCycle, Asleep
  <2>2. \A k \in DOMAIN queue : irp[queue[k]] = "queued" /\ queue[k] \in Irps
    BY <1>0 DEF QueuePlaces
  <2>3. ~Covered
    BY <2>1, <2>2 DEF LifeCycle, Covered
  <2>. QED  BY <2>1, <2>3 DEF Covered
<1>2. ASSUME NEW i \in Irps, Send(i) \/ Dispatcher(i) PROVE semaphore' > 0
  <2>1. Asleep
    BY <1>2 DEF Send, Dispatcher, DispatchFrame, Asleep
  <2>2. CASE InsertIrp(i)
    <3>1. /\ queue' = Append(queue, i) /\ unreleased' = unreleased \cup {i}
          /\ semaphore' = semaphore
      BY <2>2 DEF InsertIrp
    <3>2. PICK k \in DOMAIN queue' : queue'[k] \notin unreleased'
      BY DEF Covered
    <3>3. k \in DOMAIN queue /\ queue[k] = queue'[k]
      BY <1>0, <3>1, <3>2
    <3>4. Covered
      BY <3>1, <3>2, <3>3 DEF Covered
    <3>. QED  BY <1>0, <2>1, <3>1, <3>4
  <2>3. CASE ReleaseSemaphore(i)
    <3>1. object # "freed"
      BY <2>3 DEF ReleaseSemaphore, FreedIsQuiescent, Covered
    <3>. QED  BY <1>0, <2>3, <3>1 DEF ReleaseSemaphore
  <2>4. CASE UNCHANGED <<queue, unreleased, semaphore>>
    BY <1>0, <2>1, <2>4 DEF Covered
  <2>. QED
    BY <1>2, <2>2, <2>3, <2>4 DEF Send, Dispatcher, DispatchIrp, CountIrp,
       CheckStopPending, UncountRefused, SignalRefused
<1>3. CASE MainThread
  <2>1. unreleased' = unreleased
    BY <1>3 DEF MainThread, MainFrame
  <2>2. CASE MainQueueEmpty
    BY <2>2 DEF MainQueueEmpty, queueVars, Covered
  <2>3. CASE MainLoopTest \/ MainTestKey \/ MainWakeWithKey
    BY <1>0, <2>1, <2>3 DEF MainLoopTest, MainTestKey, MainWakeWithKey, queueVars,
                            signalVars, Asleep, Covered
  <2>. QED
    BY <1>3, <2>2, <2>3 DEF MainThread, MainTakeToken, MainPop, MainCheckSuspended,
       MainResume, MainServe, MainUncount, MainSignal, Asleep
<1>4. CASE Close \/ Stop
  <2>1. UNCHANGED <<queue, unreleased, mainPc>> /\ semaphore' \in {semaphore, semaphore + 1}
    BY <1>4 DEF Close, Stop, CloseFrame, irpVars, CloseFindsObject, StopSetPending,
                StopWithdrawRequest, StopWithdrawResponse, StopReadCount, StopWait,
                StopRequestExit, StopSetKeyEvent, StopRelease, StopJoin
  <2>. QED  BY <1>0, <2>1 DEF Asleep, Covered
<1>5. CASE ControlClose \/ RemoveAll
  <2>1. UNCHANGED <<queue, unreleased, mainPc>> /\ semaphore' \in {semaphore, semaphore + 1}
    BY <1>5 DEF ControlClose, RemoveAll, CtlFrame, irpVars, CtlClose, CtlFetch,
                CtlRequestExit, CtlSetKeyEvent, CtlRelease, CtlJoin
  <2>. QED  BY <1>0, <2>1 DEF Asleep, Covered
<1>6. CASE UNCHANGED <<queue, unreleased, mainPc, semaphore>>
  BY <1>0, <1>6 DEF Asleep, Covered
<1>. QED
  BY <1>1, <1>2, <1>3, <1>4, <1>5, <1>6
  DEF Next, Retriever, Responder, KeyFrame, CallHold, Hold, HoldFrame, vars, irpVars,
      eventVars

(* The main thread cannot go to sleep over an IRP whose dispatcher has left  *)
(* EncryptedIoQueueAddIrp.                                                   *)
THEOREM TokensCorrect == Spec => []TokenCoversQueue
<1>1. Init => TokenCoversQueue
  BY DEF Init, TokenCoversQueue
<1>. QED
  BY TypeCorrect, PlacesCorrect, FreedCorrect, TokenCoversQueueStep, <1>1, PTL DEF Spec

-----------------------------------------------------------------------------
(* Stop's wait on NoOutstandingIoEvent.                                      *)

LEMMA StopIsWokenStep ==
  /\ TypeOK /\ IrpPlaces /\ LifeCycle /\ GrantPlaces /\ StopFlagged /\ HoldPlaces
  /\ StopIsWoken /\ [Next]_vars
  => StopIsWoken'
<1>. SUFFICES ASSUME TypeOK, IrpPlaces, LifeCycle, GrantPlaces, StopFlagged, HoldPlaces,
                     StopIsWoken, [Next]_vars, stopPc' = "wait", HoldLimit = 0
              PROVE  noIoEvent' \/ outstanding' > 0 \/ Signalling'
  BY DEF StopIsWoken
<1>0. /\ irp \in [Irps -> IrpStates] /\ outstanding \in Int
      /\ noIoEvent \in BOOLEAN /\ stopPending \in BOOLEAN
      /\ CurrentPlaces
  BY DEF TypeOK, IrpTypes, CountTypes, FlagTypes, IrpPlaces
<1>1. ASSUME stopPc = "wait"
      PROVE  /\ stopPending /\ object # "freed" /\ Opened /\ holdPc = "idle"
             /\ noIoEvent \/ outstanding > 0 \/ Signalling
  BY <1>1 DEF StopIsWoken, StopFlagged, LifeCycle, HoldPlaces
<1>2. CASE Close \/ Stop
  <2>1. CASE StopReadCount
    BY <1>2, <2>1 DEF Close, Stop, CloseFrame, StopReadCount
  <2>2. CASE ~StopReadCount
    BY <1>2, <2>2 DEF Close, Stop, CloseFindsObject, StopSetPending,
       StopWithdrawRequest, StopWithdrawResponse, StopWait, StopRequestExit,
       StopSetKeyEvent, StopRelease, StopJoin
  <2>. QED  BY <2>1, <2>2
<1>3. ASSUME NEW i \in Irps, Send(i) \/ Dispatcher(i)
      PROVE  noIoEvent' \/ outstanding' > 0 \/ Signalling'
  <2>1. stopPc = "wait" /\ UNCHANGED <<mainPc, responder, flagVars>>
    BY <1>3 DEF Send, Dispatcher, DispatchFrame, keyVars
  <2>2. CASE UncountRefused(i)
    <3>1. CASE outstanding = 1
      <4>1. irp'[i] = "refusedZero"
        BY <1>0, <2>2, <3>1 DEF UncountRefused
      <4>. QED  BY <4>1 DEF Signalling
    <3>2. CASE outstanding # 1
      <4>1. \A j \in Irps : irp[j] = "refusedZero" => irp'[j] = "refusedZero"
        BY <1>0, <2>2, <3>2 DEF UncountRefused, RefuseIrp
      <4>. QED  BY <1>0, <1>1, <2>1, <2>2, <3>2, <4>1 DEF UncountRefused, Signalling
    <3>. QED  BY <3>1, <3>2
  <2>3. CASE SignalRefused(i)
    BY <1>1, <2>1, <2>3 DEF SignalRefused, SignalNoIo, SomebodyWaits
  <2>4. CASE Send(i) \/ CountIrp(i) \/ CheckStopPending(i) \/ InsertIrp(i)
             \/ ReleaseSemaphore(i)
    <3>1. /\ noIoEvent' = noIoEvent /\ outstanding' \in {outstanding, outstanding + 1}
      BY <2>4 DEF Send, DispatchIrp, CountIrp, CheckStopPending, InsertIrp,
                  ReleaseSemaphore
    <3>2. \A j \in Irps : irp[j] = "refusedZero" => irp'[j] = "refusedZero"
      BY <1>0, <2>4 DEF Send, DispatchIrp, CountIrp, CheckStopPending, InsertIrp,
                        ReleaseSemaphore
    <3>. QED  BY <1>0, <1>1, <2>1, <3>1, <3>2 DEF Signalling
  <2>. QED  BY <1>3, <2>2, <2>3, <2>4 DEF Dispatcher
<1>4. CASE MainThread
  <2>1. stopPc = "wait" /\ UNCHANGED <<responder, flagVars>>
    BY <1>4 DEF MainThread, MainFrame, keyVars
  <2>2. CASE MainSignal
    BY <1>1, <2>1, <2>2 DEF MainSignal, SignalNoIo, SomebodyWaits
  <2>3. CASE MainUncount
    <3>1. CASE outstanding = 1
      BY <2>3, <3>1 DEF MainUncount, Signalling
    <3>2. CASE outstanding # 1
      <4>1. PICK k \in Irps : current[1] = k /\ irp[k] = "completed"
        BY <1>0, <2>3 DEF MainUncount, CurrentPlaces
      <4>2. /\ irp' = [irp EXCEPT ![k] = "finished"] /\ mainPc # "signal"
            /\ outstanding' = outstanding - 1 /\ noIoEvent' = noIoEvent
        BY <2>3, <4>1 DEF MainUncount, signalVars
      <4>3. \A j \in Irps : irp[j] = "refusedZero" => irp'[j] = "refusedZero"
        BY <1>0, <4>1, <4>2
      <4>. QED  BY <1>0, <1>1, <2>1, <3>2, <4>2, <4>3 DEF Signalling
    <3>. QED  BY <3>1, <3>2
  <2>4. CASE UNCHANGED <<outstanding, noIoEvent>> /\ ~MainSignal /\ ~MainUncount
    <3>1. mainPc # "signal"
      BY <1>4, <2>4 DEF MainThread, MainLoopTest, MainTestKey, MainWakeWithKey,
         MainTakeToken, MainPop, MainQueueEmpty, MainCheckSuspended, MainResume, MainServe
    <3>2. \A j \in Irps : irp[j] = "refusedZero" => irp'[j] = "refusedZero"
      <4>1. CASE MainPop
        <5>1. Head(queue) \in Irps /\ irp[Head(queue)] = "queued"
          <6>1. /\ queue \in Seq(Irps) /\ QueuePlaces
            BY DEF TypeOK, IrpTypes, IrpPlaces
          <6>2. 1 \in DOMAIN queue /\ Head(queue) = queue[1] /\ Head(queue) \in Irps
            BY <4>1, <6>1 DEF MainPop
          <6>. QED  BY <6>1, <6>2 DEF QueuePlaces
        <5>. QED  BY <1>0, <4>1, <5>1 DEF MainPop
      <4>2. CASE MainServe
        <5>1. PICK k \in Irps : current[1] = k /\ irp[k] = "current"
          BY <1>0, <4>2 DEF MainServe, CurrentPlaces
        <5>. QED  BY <1>0, <4>2, <5>1 DEF MainServe
      <4>3. CASE irp' = irp
        BY <4>3
      <4>. QED
        BY <1>4, <2>4, <4>1, <4>2, <4>3 DEF MainThread, MainLoopTest, MainTestKey,
           MainWakeWithKey, MainTakeToken, MainQueueEmpty, MainCheckSuspended,
           MainResume, queueVars
    <3>. QED  BY <1>1, <2>1, <2>4, <3>1, <3>2 DEF Signalling
  <2>. QED
    BY <1>4, <2>2, <2>3, <2>4
    DEF MainThread, MainLoopTest, MainTestKey, MainWakeWithKey, MainTakeToken, MainPop,
        MainQueueEmpty, MainCheckSuspended, MainResume, MainServe, queueVars, signalVars
<1>5. CASE Responder
  <2>1. stopPc = "wait" /\ UNCHANGED <<irp, mainPc, flagVars>>
    BY <1>5 DEF Responder, KeyFrame, irpVars
  <2>2. CASE ResponderSignalIo
    BY <1>1, <2>1, <2>2 DEF ResponderSignalIo, SignalNoIo, SomebodyWaits
  <2>3. CASE ResponderUncount
    BY <1>0, <1>1, <2>1, <2>3 DEF ResponderUncount, Signalling
  <2>4. CASE ~ResponderSignalIo /\ ~ResponderUncount
    <3>1. /\ noIoEvent' = noIoEvent /\ outstanding' \in {outstanding, outstanding + 1}
          /\ responder = "zero" => object = "freed"
      BY <1>5, <2>4 DEF Responder, FindResponse, ResponderCheck, ResponderPin,
         ResponderInstall, ResponderSetKeyEvent, ResponderDangles, GrantPlaces
    <3>. QED  BY <1>0, <1>1, <2>1, <3>1 DEF Signalling
  <2>. QED  BY <2>2, <2>3, <2>4
<1>6. CASE Starter
  BY <1>1, <1>6 DEF Starter, StarterFrame, TrackFileObject, StartQueue,
                    StartMainThread, Opened
<1>7. CASE CallHold \/ Hold
  <2>1. stopPc = "wait" /\ UNCHANGED <<outstanding, irp, mainPc, responder>>
    BY <1>7 DEF CallHold, Hold, HoldFrame, irpVars, keyVars
  <2>2. noIoEvent' = noIoEvent
    BY <1>1, <1>7, <2>1
    DEF CallHold, Hold, HoldBegin, HoldReadCount, HoldWait, HoldRecheck,
        HoldClearResumed, HoldSuspend, HoldVerify, ResumeFromHold
  <2>. QED  BY <1>1, <2>1, <2>2 DEF Signalling
<1>8. CASE UNCHANGED <<stopPc, noIoEvent, outstanding, irp, mainPc, responder>>
  BY <1>1, <1>8 DEF Signalling
<1>. QED
  BY <1>2, <1>3, <1>4, <1>5, <1>6, <1>7, <1>8
  DEF Next, Retriever, KeyFrame, RetrieveRequest, FinishRetrieve, ControlClose,
      RemoveAll, CtlFrame, vars, irpVars, keyVars, eventVars

(* EncryptedIoQueueStop never waits for an event that nobody will set.       *)
THEOREM StopWokenCorrect == Spec => []StopIsWoken
<1>1. Init => StopIsWoken
  BY DEF Init, StopIsWoken
<1>. QED
  BY TypeCorrect, PlacesCorrect, FlagsCorrect, StopIsWokenStep, <1>1, PTL DEF Spec

-----------------------------------------------------------------------------
(* HoldWhenIdle.                                                             *)

LEMMA HoldIsQuietStep ==
  /\ TypeOK /\ IrpPlaces /\ LifeCycle /\ GrantPlaces /\ HoldPlaces /\ CountAccounts
  /\ HoldIsQuiet /\ [Next]_vars
  => HoldIsQuiet'
<1>. SUFFICES ASSUME TypeOK, IrpPlaces, LifeCycle, GrantPlaces, HoldPlaces,
                     CountAccounts, HoldIsQuiet, [Next]_vars,
                     holdPc' = "held", grant' # "refused"
              PROVE  mainPc' \notin {"serve", "uncount"}
  BY DEF HoldIsQuiet
<1>1. ASSUME holdPc = "held"
      PROVE  /\ suspended /\ ~resumedEvent /\ Opened
             /\ grant # "refused" => mainPc \notin {"serve", "uncount"}
  BY <1>1 DEF HoldPlaces, HoldIsQuiet
<1>2. CASE Hold
  <2>1. HoldVerify /\ outstanding = 0 /\ mainPc' = mainPc /\ grant' = grant
    BY <1>2 DEF Hold, HoldFrame, keyVars, HoldReadCount, HoldWait, HoldRecheck,
                HoldClearResumed, HoldSuspend, HoldVerify, ResumeFromHold
  <2>2. ASSUME mainPc \in {"serve", "uncount"} PROVE FALSE
    <3>1. object # "freed"
      BY <2>2 DEF LifeCycle
    <3>2. PICK i \in Irps : current = <<i>>
      BY <2>2 DEF IrpPlaces, CurrentPlaces
    <3>3. i \in Outstanding
      BY <2>2, <3>2 DEF IrpPlaces, CurrentPlaces, Outstanding
    <3>4. IsFiniteSet(Outstanding)
      BY IrpsAssumption, FS_Subset DEF Outstanding
    <3>5. Cardinality(Outstanding) \in Nat /\ Cardinality(Outstanding) # 0
      BY <3>3, <3>4, FS_CardinalityType, FS_EmptySet
    <3>6. Debt = 0 /\ Pin \in {0, 1}
      BY <2>1 DEF Debt, Pin
    <3>. QED  BY <2>1, <3>1, <3>5, <3>6 DEF CountAccounts
  <2>. QED  BY <2>1, <2>2
<1>3. CASE MainThread
  <2>1. UNCHANGED <<holdPc, grant>>
    BY <1>3 DEF MainThread, MainFrame, holdVars, keyVars
  <2>. QED
    BY <1>1, <1>3, <2>1
    DEF MainThread, MainLoopTest, MainTestKey, MainWakeWithKey, MainTakeToken, MainPop,
        MainQueueEmpty, MainCheckSuspended, MainResume, MainServe, MainUncount,
        MainSignal
<1>4. CASE Responder
  <2>1. UNCHANGED <<holdPc, mainPc>>
    BY <1>4 DEF Responder, KeyFrame, holdVars
  <2>2. grant # "refused"
    BY <1>4 DEF Responder, FindResponse, ResponderCheck, ResponderPin, ResponderInstall,
                ResponderUncount, ResponderSignalIo, ResponderSetKeyEvent,
                ResponderDangles, GrantPlaces
  <2>. QED  BY <1>1, <2>1, <2>2
<1>5. CASE CallHold
  BY <1>5 DEF CallHold, HoldBegin
<1>6. CASE Starter
  <2>1. UNCHANGED holdPc /\ ~Opened
    BY <1>6 DEF Starter, StarterFrame, holdVars, TrackFileObject, StartQueue,
                StartMainThread, Opened
  <2>. QED  BY <1>1, <2>1
<1>7. CASE UNCHANGED <<holdPc, grant, mainPc>>
  BY <1>1, <1>7
<1>. QED
  BY <1>2, <1>3, <1>4, <1>5, <1>6, <1>7
  DEF Next, Send, Dispatcher, DispatchFrame, Retriever, KeyFrame, RetrieveRequest,
      FinishRetrieve, Close, Stop, CloseFrame, ControlClose, RemoveAll, CtlFrame, vars,
      keyVars, holdVars

(* While the queue is held the main thread serves nothing, unless a refused  *)
(* response has falsified the count.                                         *)
THEOREM HoldCorrect == Spec => []HoldIsQuiet
<1>1. Init => HoldIsQuiet
  BY DEF Init, HoldIsQuiet
<1>. QED
  BY TypeCorrect, PlacesCorrect, FlagsCorrect, CountCorrect, HoldIsQuietStep, <1>1, PTL
  DEF Spec

(* The inductive invariant as a whole, as the runs and this file use it.     *)
THEOREM InvariantCorrect == Spec => []IInv
  BY TypeCorrect, PlacesCorrect, FlagsCorrect, CountCorrect, TokensCorrect,
     StopWokenCorrect, HoldCorrect, GrantedKeyCorrect, PTL DEF IInv

-----------------------------------------------------------------------------
(* Nobody is left waiting: what the liveness properties rest on.             *)

\* A thread inside a call is at a step whose guard holds, by thread.
DispatcherMoves ==
    \/ unreleased # {}
    \/ \E i \in Irps : irp[i] \in {"found", "counted", "admitted", "refused", "refusedZero"}

MainThreadMoves ==
    \/ mainPc \in {"top", "testKey", "drain", "popped", "serve", "uncount", "signal"}
    \/ mainPc = "waitKey" /\ keyEvent
    \/ mainPc = "waitToken" /\ semaphore > 0
    \/ mainPc = "suspended" /\ resumedEvent

KeyMoves ==
    \/ keyPlace \in {"requested", "popped", "response"}
    \/ responder \in {"found", "pin", "install", "release", "zero", "signal"}

StopMoves ==
    \/ stopPc \in {"flag", "request", "response", "count", "exit", "key", "release"}
    \/ stopPc = "wait" /\ noIoEvent
    \/ stopPc = "join" /\ mainPc = "terminated"

HoldMoves == holdPc # "idle"

SomeoneMoves == DispatcherMoves \/ MainThreadMoves \/ KeyMoves \/ StopMoves \/ HoldMoves

\* The waits of the main thread: for its key ...
KeyAwaited ==
    /\ starter \in {"prepared", "started"} /\ keyPlace = "none" => cryptoInfo
    /\ mainPc = "waitKey" => keyPlace # "none"
    /\ stopPc \in {"idle", "flag", "request"} => keyPlace # "withdrawn"
    /\ keyPlace = "taken" => responder # "idle"
    /\ responder = "done" => keyEvent
    /\ responder = "dangling" => object = "freed"

\* ... for the end of a hold ...
HoldAwaited ==
    mainPc = "suspended" => resumedEvent \/ holdPc \in {"suspend", "verify", "held"}

\* ... and the wait of a close for the main thread.
Joining == {"release", "join", "noThread"}

ExitAwaited ==
    /\ ctlPc \in {"exit", "key"} \cup Joining => object = "orphaned"
    /\ exitRequested => stopPc \in {"key", "returned"} \cup Joining \/ object = "orphaned"
    /\ mainPc = "terminated" => exitRequested
    /\ stopPc \in {"key"} \cup Joining => exitRequested
    /\ stopPc \in Joining => keyEvent
    /\ stopPc = "join" /\ mainPc \in {"testKey", "waitKey", "waitToken"} => semaphore > 0
    /\ stopPc = "noThread" => starter = "failed"

WaitInv == KeyAwaited /\ HoldAwaited /\ ExitAwaited

LEMMA KeyAwaitedStep ==
  ASSUME IInv, KeyAwaited, [Next]_vars
  PROVE  KeyAwaited'
<1>0. LifeCycle /\ GrantPlaces
  BY DEF IInv
<1>1. CASE Starter
  BY <1>0, <1>1 DEF Starter, StarterFrame, TrackFileObject, StartQueue, StartNoMemory,
                    StartNoServer, StartAskKey, StartMainThread, KeyAwaited, LifeCycle,
                    GrantPlaces, Opened, eventVars
<1>2. CASE Retriever
  BY <1>2 DEF Retriever, KeyFrame, RetrieveRequest, FinishRetrieve, KeyAwaited
<1>3. CASE Responder
  BY <1>3 DEF Responder, KeyFrame, FindResponse, ResponderCheck, ResponderPin,
              ResponderInstall, ResponderUncount, ResponderSignalIo, ResponderSetKeyEvent,
              ResponderDangles, KeyAwaited
<1>4. CASE Close \/ Stop
  BY <1>0, <1>4 DEF Close, Stop, CloseFrame, CloseFindsObject, StopSetPending,
                    StopWithdrawRequest, StopWithdrawResponse, StopReadCount, StopWait,
                    StopRequestExit, StopSetKeyEvent, StopRelease, StopJoin, KeyAwaited,
                    LifeCycle, modeVars
<1>5. CASE MainThread
  <2>1. UNCHANGED <<object, starter, keyEvent, cryptoInfo, keyVars, stopPc>>
    BY <1>5 DEF MainThread, MainFrame
  <2>2. mainPc' = "waitKey" => mainPc = "waitKey" \/ (mainPc = "testKey" /\ ~cryptoInfo)
    BY <1>5 DEF MainThread, MainLoopTest, MainTestKey, MainWakeWithKey, MainTakeToken,
                MainPop, MainQueueEmpty, MainCheckSuspended, MainResume, MainServe,
                MainUncount, MainSignal
  <2>3. mainPc = "testKey" => starter = "started"
    BY <1>0 DEF LifeCycle
  <2> QED BY <2>1, <2>2, <2>3 DEF KeyAwaited, keyVars
<1>6. CASE ControlClose \/ RemoveAll
  BY <1>0, <1>6 DEF ControlClose, RemoveAll, CtlFrame, CtlClose, CtlFetch, CtlRequestExit,
                    CtlSetKeyEvent, CtlRelease, CtlJoin, KeyAwaited, keyVars, modeVars
<1>7. CASE UNCHANGED <<object, starter, mainPc, keyEvent, cryptoInfo, keyVars, stopPc>>
  BY <1>7 DEF KeyAwaited, keyVars
<1> QED
  BY <1>1, <1>2, <1>3, <1>4, <1>5, <1>6, <1>7 DEF Next, Send, Dispatcher, DispatchFrame,
                                                  CallHold, Hold, HoldFrame, vars,
                                                  eventVars, modeVars

LEMMA HoldAwaitedStep ==
  ASSUME IInv, HoldAwaited, [Next]_vars
  PROVE  HoldAwaited'
<1>0. HoldPlaces /\ LifeCycle
  BY DEF IInv
<1>1. CASE MainThread
  BY <1>0, <1>1 DEF MainThread, MainFrame, MainLoopTest, MainTestKey, MainWakeWithKey,
                    MainTakeToken, MainPop, MainQueueEmpty, MainCheckSuspended, MainResume,
                    MainServe, MainUncount, MainSignal, signalVars, flagVars, holdVars,
                    HoldAwaited, HoldPlaces
<1>2. CASE Hold
  BY <1>0, <1>2 DEF Hold, HoldFrame, HoldReadCount, HoldWait, HoldRecheck, HoldClearResumed,
                    HoldSuspend, HoldVerify, ResumeFromHold, HoldAwaited
<1>3. CASE CallHold
  BY <1>3 DEF CallHold, HoldFrame, HoldBegin, HoldAwaited
<1>4. CASE Starter
  BY <1>0, <1>4 DEF Starter, StarterFrame, TrackFileObject, StartQueue, StartNoMemory,
                    StartNoServer, StartAskKey, StartMainThread, HoldAwaited, LifeCycle,
                    eventVars, holdVars
<1>5. CASE UNCHANGED <<mainPc, resumedEvent, holdPc>>
  BY <1>5 DEF HoldAwaited
<1> QED
  BY <1>1, <1>2, <1>3, <1>4, <1>5 DEF Next, Send, Dispatcher, DispatchFrame, Retriever,
                                      Responder, KeyFrame, Close, Stop, CloseFrame,
                                      ControlClose, RemoveAll, CtlFrame, vars, eventVars,
                                      holdVars

LEMMA ExitAwaitedStep ==
  ASSUME IInv, ExitAwaited, [Next]_vars
  PROVE  ExitAwaited'
<1>0. LifeCycle /\ semaphore \in Nat
  BY DEF IInv, TypeOK, CountTypes
<1>1. CASE Starter
  BY <1>0, <1>1 DEF Starter, StarterFrame, TrackFileObject, StartQueue, StartNoMemory,
                    StartNoServer, StartAskKey, StartMainThread, ExitAwaited, Joining,
                    LifeCycle, Opened
<1>2. CASE Close \/ Stop
  BY <1>0, <1>2 DEF Close, Stop, CloseFrame, CloseFindsObject, StopSetPending,
                    StopWithdrawRequest, StopWithdrawResponse, StopReadCount, StopWait,
                    StopRequestExit, StopSetKeyEvent, StopRelease, StopJoin, ExitAwaited,
                    Joining, LifeCycle, Opened
<1>3. CASE ControlClose \/ RemoveAll
  BY <1>0, <1>3 DEF ControlClose, RemoveAll, CtlFrame, CtlClose, CtlFetch, CtlRequestExit,
                    CtlSetKeyEvent, CtlRelease, CtlJoin, ExitAwaited, Joining, LifeCycle
<1>4. CASE MainThread
  BY <1>0, <1>4 DEF MainThread, MainFrame, MainLoopTest, MainTestKey, MainWakeWithKey,
                    MainTakeToken, MainPop, MainQueueEmpty, MainCheckSuspended, MainResume,
                    MainServe, MainUncount, MainSignal, signalVars, flagVars, ExitAwaited,
                    Joining
<1>5. CASE Retriever \/ Responder
  BY <1>5 DEF Retriever, Responder, KeyFrame, RetrieveRequest, FinishRetrieve, FindResponse,
              ResponderCheck, ResponderPin, ResponderInstall, ResponderUncount,
              ResponderSignalIo, ResponderSetKeyEvent, ResponderDangles, flagVars,
              ExitAwaited, Joining
<1>6. ASSUME NEW i \in Irps, Send(i) \/ Dispatcher(i) PROVE ExitAwaited'
  <2>1. UNCHANGED <<object, starter, keyEvent, flagVars, mainPc, stopPc, ctlPc>>
    BY <1>6 DEF Send, Dispatcher, DispatchFrame
  <2>2. semaphore > 0 => semaphore' > 0
    BY <1>0, <1>6 DEF Send, Dispatcher, DispatchIrp, CountIrp, CheckStopPending, InsertIrp,
                      ReleaseSemaphore, UncountRefused, SignalRefused
  <2> QED BY <2>1, <2>2 DEF ExitAwaited, flagVars
<1>7. CASE UNCHANGED <<object, starter, semaphore, keyEvent, exitRequested, mainPc, stopPc, ctlPc>>
  BY <1>7 DEF ExitAwaited
<1> QED
  BY <1>1, <1>2, <1>3, <1>4, <1>5, <1>6, <1>7 DEF Next, CallHold, Hold, HoldFrame, vars,
                                                  eventVars, flagVars

LEMMA WaitInit == Init => WaitInv
  BY DEF Init, WaitInv, KeyAwaited, HoldAwaited, ExitAwaited, Joining

(* Every wait has somebody who will end it: of the main thread for its key,  *)
(* for the end of a hold and for a token, and of a close for its thread      *)
(* (gingko_ioqueue.c:588, 599, 690, 1109).                                   *)
THEOREM WaitsCorrect == Spec => []WaitInv
<1>1. IInv /\ WaitInv /\ [Next]_vars => WaitInv'
  BY KeyAwaitedStep, HoldAwaitedStep, ExitAwaitedStep DEF WaitInv
<1> QED BY WaitInit, <1>1, InvariantCorrect, PTL DEF Spec

\* An IRP that has been sent to the queue and has no answer yet.
Pended(i) == irp[i] # "unsent" /\ result[i] = "none"

NoIrpIsStranded ==
    (\E i \in Irps : Pended(i)) =>
        SomeoneMoves \/ starter = "failed" \/ keyPlace = "lost" \/ object = "orphaned"

NoCloseIsStranded ==
    HoldLimit = 0 /\ stopPc \notin {"idle", "returned"} => SomeoneMoves \/ starter = "failed"

(* As long as an IRP is pended, somebody can go on: the main thread does not *)
(* sleep over it, nor do they all wait for each other.  The exceptions are   *)
(* failures after which the code leaves the IRP as it is: a Start that       *)
(* failed, a request that was lost, the close of the control device          *)
(* (gingko_ioqueue.c:580-612, :820-831).                                     *)
THEOREM NoIrpIsStrandedCorrect == Spec => []NoIrpIsStranded
<1>1. ASSUME IInv, WaitInv, NEW i \in Irps, Pended(i),
             starter # "failed", keyPlace # "lost", object # "orphaned"
      PROVE  SomeoneMoves
  <2>0. /\ TypeOK /\ IrpPlaces /\ LifeCycle /\ GrantPlaces /\ TokenCoversQueue
        /\ KeyAwaited /\ HoldAwaited /\ ExitAwaited
    BY <1>1 DEF IInv, WaitInv
  <2>1. SUFFICES ASSUME ~DispatcherMoves, ~MainThreadMoves, ~KeyMoves, ~HoldMoves PROVE FALSE
    BY DEF SomeoneMoves
  <2>2. irp[i] \in {"queued", "current"}
    BY <1>1, <2>0, <2>1 DEF Pended, TypeOK, IrpTypes, IrpStates, IrpPlaces, ResultPlaces,
                            DispatcherMoves
  <2>3. stopPc = "idle" /\ starter = "started" /\ mainPc # "none"
    <3>1. stopPc = "idle" /\ Opened
      BY <2>0, <2>2 DEF LifeCycle
    <3> QED BY <1>1, <2>0, <3>1 DEF Opened, LifeCycle
  <2>4. mainPc # "terminated"
    BY <1>1, <2>0, <2>3 DEF ExitAwaited, Joining
  <2>5. mainPc # "suspended"
    BY <2>0, <2>1 DEF HoldAwaited, HoldMoves, MainThreadMoves
  <2>6. ASSUME mainPc = "waitKey" PROVE FALSE
    <3>1. ~keyEvent /\ keyPlace \notin {"none", "withdrawn", "lost"}
      BY <1>1, <2>0, <2>1, <2>3, <2>6 DEF KeyAwaited, MainThreadMoves
    <3>2. keyPlace = "taken"
      BY <2>0, <2>1, <3>1 DEF KeyMoves, TypeOK, ProgressTypes
    <3>3. responder \in {"done", "dangling"}
      BY <2>0, <2>1, <3>2 DEF KeyMoves, KeyAwaited, TypeOK, ProgressTypes
    <3>4. object # "freed"
      BY <2>0, <2>3 DEF LifeCycle
    <3> QED BY <2>0, <3>1, <3>3, <3>4 DEF KeyAwaited
  <2>7. mainPc = "waitToken" /\ ~(semaphore > 0)
    BY <2>0, <2>1, <2>3, <2>4, <2>5, <2>6 DEF MainThreadMoves, TypeOK, ProgressTypes,
                                              MainStates
  <2>8. irp[i] = "queued"
    BY <2>0, <2>2, <2>7 DEF IrpPlaces, CurrentPlaces
  <2>9. PICK k \in DOMAIN queue : queue[k] = i
    BY <2>0, <2>8 DEF IrpPlaces, QueuePlaces
  <2> QED BY <2>0, <2>1, <2>7, <2>9 DEF TokenCoversQueue, DispatcherMoves
<1>2. IInv /\ WaitInv => NoIrpIsStranded
  BY <1>1 DEF NoIrpIsStranded
<1> QED BY <1>2, InvariantCorrect, WaitsCorrect, PTL

(* As long as a close has not returned, somebody can go on, unless the queue *)
(* was never started and the close waits for a thread that does not exist    *)
(* (gingko_ioqueue.c:1095-1110).                                             *)
THEOREM NoCloseIsStrandedCorrect == Spec => []NoCloseIsStranded
<1>1. ASSUME IInv, WaitInv, HoldLimit = 0, stopPc \notin {"idle", "returned"}, starter # "failed"
      PROVE  SomeoneMoves
  <2>0. /\ TypeOK /\ IrpPlaces /\ LifeCycle /\ GrantPlaces /\ CountAccounts /\ StopIsWoken /\ ExitAwaited
        /\ HoldAwaited
    BY <1>1 DEF IInv, WaitInv
  <2>1. SUFFICES ASSUME ~DispatcherMoves, ~MainThreadMoves, ~KeyMoves, ~StopMoves, ~HoldMoves PROVE FALSE
    BY DEF SomeoneMoves
  <2>2. CASE stopPc = "wait"
    <3>1. object # "freed"
      BY <2>0, <2>2 DEF LifeCycle
    <3>2. ~Signalling /\ ~noIoEvent
      BY <2>1, <2>2 DEF Signalling, MainThreadMoves, KeyMoves, DispatcherMoves, StopMoves
    <3>3. outstanding > 0
      BY <1>1, <2>0, <2>2, <3>2 DEF StopIsWoken
    <3>4. Pin = 0 /\ Debt \in {0, 1}
      BY <2>1 DEF Pin, Debt, KeyMoves
    <3>5. \A i \in Irps : i \notin Outstanding
      BY <2>0, <2>1, <2>2 DEF Outstanding, LifeCycle, IrpPlaces, CurrentPlaces,
                              MainThreadMoves
    <3>6. Outstanding = {}
      BY <3>5 DEF Outstanding
    <3>7. outstanding = 0 - Debt
      BY <2>0, <3>1, <3>4, <3>6, FS_EmptySet DEF CountAccounts
    <3> QED BY <3>3, <3>4, <3>7
  <2>3. CASE stopPc = "join"
    <3>1. starter = "started" /\ mainPc # "none"
      BY <1>1, <2>0, <2>3 DEF LifeCycle, Opened
    <3>2. mainPc \notin {"waitKey", "waitToken", "terminated"}
      BY <2>0, <2>1, <2>3 DEF ExitAwaited, Joining, MainThreadMoves, StopMoves
    <3>3. mainPc # "suspended"
      BY <2>0, <2>1 DEF HoldAwaited, HoldMoves, MainThreadMoves
    <3> QED BY <2>0, <2>1, <3>1, <3>2, <3>3 DEF MainThreadMoves, TypeOK, ProgressTypes,
                                                MainStates
  <2>4. CASE stopPc = "noThread"
    BY <1>1, <2>0, <2>4 DEF ExitAwaited
  <2> QED BY <1>1, <2>0, <2>1, <2>2, <2>3, <2>4 DEF StopMoves, TypeOK, ProgressTypes,
                                                    StopStates
<1>2. IInv /\ WaitInv => NoCloseIsStranded
  BY <1>1 DEF NoCloseIsStranded
<1> QED BY <1>2, InvariantCorrect, WaitsCorrect, PTL
-----------------------------------------------------------------------------
(* Nobody runs in circles: the other half of what they rest on.              *)

\* How far each has come.
IrpRank == [unsent |-> 0, found |-> 1, counted |-> 2, admitted |-> 3, refused |-> 3, queued |-> 4,
            refusedZero |-> 4, current |-> 5, completed |-> 6, finished |-> 7]
StarterRank == [idle |-> 0, inserted |-> 1, prepared |-> 2, started |-> 3, failed |-> 3]
KeyRank == [none |-> 0, requested |-> 1, popped |-> 2, response |-> 3, taken |-> 4, withdrawn |-> 4,
            lost |-> 4]
ResponderRank == [idle |-> 0, found |-> 1, pin |-> 2, install |-> 3, release |-> 4, zero |-> 5,
                  signal |-> 6, done |-> 7, dangling |-> 7]
StopRank == [idle |-> 0, flag |-> 1, request |-> 2, response |-> 3, count |-> 4, wait |-> 4, exit |-> 5,
             key |-> 6, release |-> 7, join |-> 8, noThread |-> 8, returned |-> 9]
CtlRank == [idle |-> 0, closed |-> 1, exit |-> 2, key |-> 3, release |-> 4, join |-> 5, noThread |-> 5,
            returned |-> 6]

IrpForward ==
    irp' # irp /\ \A i \in Irps : irp'[i] # irp[i] => IrpRank[irp'[i]] > IrpRank[irp[i]]

\* The threads that run through once: none goes back, and one goes on.
Calls == <<StarterRank[starter], KeyRank[keyPlace], ResponderRank[responder],
           StopRank[stopPc], CtlRank[ctlPc]>>

CallForward == Calls' # Calls /\ \A k \in 1..5 : Calls'[k] >= Calls[k]

\* The close's loop over the count and the event, with who sets it.
Signals == (IF mainPc = "signal" THEN 4 ELSE 0) + (IF noIoEvent THEN 2 ELSE 0)
             + (IF stopPc = "count" THEN 1 ELSE 0)

\* The main thread's loop over the tokens.
MainRank == [popped |-> 7, suspended |-> 6, serve |-> 5, uncount |-> 5, signal |-> 5, drain |-> 4, top |-> 3,
             testKey |-> 2, waitKey |-> 1, waitToken |-> 0, none |-> 0, terminated |-> 0]
Rounds == 5 * semaphore + MainRank[mainPc]

GoesOn ==
    \/ IrpForward
    \/ /\ irp' = irp
       /\ \/ unreleased' \subseteq unreleased /\ unreleased' # unreleased
          \/ /\ unreleased' = unreleased
             /\ \/ CallForward
                \/ Calls' = Calls /\ Signals' < Signals
                \/ Calls' = Calls /\ Signals' = Signals /\ Rounds' < Rounds

RequestRelisted == keyPlace = "popped" /\ keyPlace' = "requested"

NoStepIsIdle == GoesOn \/ RequestRelisted \/ holdPc' # holdPc

LEMMA RankTypes ==
  /\ \A x \in {"idle", "inserted", "prepared", "started", "failed"} : StarterRank[x] \in 0..3
  /\ \A x \in {"none", "requested", "popped", "response", "taken", "withdrawn", "lost"} :
        KeyRank[x] \in 0..4
  /\ \A x \in {"idle", "found", "pin", "install", "release", "zero", "signal", "done", "dangling"} :
        ResponderRank[x] \in 0..7
  /\ \A x \in StopStates : StopRank[x] \in 0..9
  /\ \A x \in {"idle", "closed", "exit", "key", "release", "join", "returned", "noThread"} :
        CtlRank[x] \in 0..6
  /\ \A x \in MainStates : MainRank[x] \in 0..7
  BY DEF StopStates, MainStates, StarterRank, KeyRank, ResponderRank, StopRank, CtlRank,
         MainRank

(* The measures that a step may raise are bounded, those it may lower are    *)
(* numbers.                                                                  *)
LEMMA MeasureTypes ==
  ASSUME TypeOK
  PROVE  /\ Calls \in (0..3) \X (0..4) \X (0..7) \X (0..9) \X (0..6)
         /\ Signals \in 0..7 /\ Rounds \in Nat
<1>1. Calls \in (0..3) \X (0..4) \X (0..7) \X (0..9) \X (0..6)
  BY RankTypes DEF Calls, TypeOK, ProgressTypes
<1>2. Signals \in 0..7
  BY DEF Signals
<1>3. Rounds \in Nat
  <2>1. semaphore \in Nat /\ MainRank[mainPc] \in 0..7
    BY RankTypes DEF TypeOK, CountTypes, ProgressTypes
  <2> QED BY <2>1 DEF Rounds
<1> QED BY <1>1, <1>2, <1>3

LEMMA CallGoesOn ==
  ASSUME UNCHANGED <<irp, unreleased>>, Calls' # Calls,
         StarterRank[starter'] >= StarterRank[starter], KeyRank[keyPlace'] >= KeyRank[keyPlace],
         ResponderRank[responder'] >= ResponderRank[responder],
         StopRank[stopPc'] >= StopRank[stopPc], CtlRank[ctlPc'] >= CtlRank[ctlPc]
  PROVE  GoesOn
<1>1. \A k \in 1..5 : Calls'[k] >= Calls[k]
  BY DEF Calls
<1> QED BY <1>1 DEF GoesOn, CallForward

\* What does not move has the rank it had.
LEMMA RanksStay ==
  ASSUME TypeOK
  PROVE  /\ starter' = starter => StarterRank[starter'] >= StarterRank[starter]
         /\ keyPlace' = keyPlace => KeyRank[keyPlace'] >= KeyRank[keyPlace]
         /\ responder' = responder => ResponderRank[responder'] >= ResponderRank[responder]
         /\ stopPc' = stopPc => StopRank[stopPc'] >= StopRank[stopPc]
         /\ ctlPc' = ctlPc => CtlRank[ctlPc'] >= CtlRank[ctlPc]
<1>1. /\ StarterRank[starter] \in 0..3 /\ KeyRank[keyPlace] \in 0..4
      /\ ResponderRank[responder] \in 0..7 /\ StopRank[stopPc] \in 0..9
      /\ CtlRank[ctlPc] \in 0..6
  BY RankTypes DEF TypeOK, ProgressTypes
<1> QED BY <1>1

LEMMA StarterGoesOn == ASSUME TypeOK, GrantPlaces, Starter PROVE GoesOn
<1>1. UNCHANGED <<irp, unreleased, responder, stopPc, ctlPc>>
  BY DEF Starter, StarterFrame, irpVars
<1>2. StarterRank[starter'] > StarterRank[starter]
  BY DEF Starter, TrackFileObject, StartQueue, StartNoMemory, StartNoServer, StartAskKey,
         StartMainThread, StarterRank
<1>3. keyPlace' = keyPlace \/ (keyPlace = "none" /\ keyPlace' = "requested")
  <2>1. CASE TrackFileObject \/ StartMainThread
    BY <2>1 DEF TrackFileObject, StartMainThread
  <2>2. CASE StartQueue
    BY <2>2 DEF StartQueue, StartNoMemory, StartNoServer, StartAskKey, GrantPlaces
  <2> QED BY <2>1, <2>2 DEF Starter
<1>4. KeyRank[keyPlace'] >= KeyRank[keyPlace]
  BY <1>3, RanksStay DEF KeyRank
<1>5. Calls' # Calls /\ StarterRank[starter'] >= StarterRank[starter]
  <2>1. \A x \in {"idle", "inserted", "prepared", "started", "failed"} : StarterRank[x] \in 0..3
    BY RankTypes
  <2>2. starter \in {"idle", "inserted", "prepared", "started", "failed"}
    BY DEF TypeOK, ProgressTypes
  <2>3. starter' \in {"idle", "inserted", "prepared", "started", "failed"}
    BY <2>2 DEF Starter, TrackFileObject, StartQueue, StartNoMemory, StartNoServer,
                StartAskKey, StartMainThread
  <2> QED BY <1>2, <2>1, <2>2, <2>3 DEF Calls
<1> QED BY <1>1, <1>4, <1>5, RanksStay, CallGoesOn

LEMMA KeyGoesOn ==
  ASSUME TypeOK, GrantPlaces, Retriever \/ Responder
  PROVE  GoesOn \/ RequestRelisted
<1>1. UNCHANGED <<irp, unreleased, starter, stopPc, ctlPc>>
  BY DEF Retriever, Responder, KeyFrame, irpVars
<1>2. CASE Retriever
  <2>1. responder' = responder
    BY <1>2 DEF Retriever, RetrieveRequest, FinishRetrieve
  <2>2. RequestRelisted \/ KeyRank[keyPlace'] > KeyRank[keyPlace]
    BY <1>2 DEF Retriever, RetrieveRequest, FinishRetrieve, KeyRank, RequestRelisted
  <2>3. KeyRank[keyPlace] \in 0..4
    BY RankTypes DEF TypeOK, ProgressTypes
  <2>4. keyPlace' \in {"requested", "popped", "response", "lost"}
    BY <1>2 DEF Retriever, RetrieveRequest, FinishRetrieve
  <2>5. KeyRank[keyPlace'] \in 0..4
    BY <2>4, RankTypes
  <2>6. RequestRelisted \/ (KeyRank[keyPlace'] >= KeyRank[keyPlace] /\ Calls' # Calls)
    BY <2>2, <2>3, <2>5 DEF Calls
  <2> QED BY <1>1, <2>1, <2>6, RanksStay, CallGoesOn
<1>3. CASE Responder
  <2>1. /\ keyPlace' = keyPlace \/ (keyPlace = "response" /\ keyPlace' = "taken")
        /\ keyPlace = "response" => responder = "idle"
    BY <1>3 DEF Responder, FindResponse, ResponderCheck, ResponderPin, ResponderInstall,
                ResponderUncount, ResponderSignalIo, ResponderSetKeyEvent, ResponderDangles,
                GrantPlaces
  <2>2. KeyRank[keyPlace'] >= KeyRank[keyPlace]
    BY <2>1, RanksStay DEF KeyRank
  <2>3. ResponderRank[responder'] > ResponderRank[responder]
    BY <1>3 DEF Responder, FindResponse, ResponderCheck, ResponderPin, ResponderInstall,
                ResponderUncount, ResponderSignalIo, ResponderSetKeyEvent, ResponderDangles,
                GrantPlaces, ResponderRank, TypeOK, ProgressTypes
  <2>4. /\ ResponderRank[responder] \in 0..7
        /\ responder' \in {"found", "pin", "install", "release", "zero", "signal", "done", "dangling"}
    BY <1>3, RankTypes DEF Responder, FindResponse, ResponderCheck, ResponderPin,
                           ResponderInstall, ResponderUncount, ResponderSignalIo,
                           ResponderSetKeyEvent, ResponderDangles, TypeOK, ProgressTypes
  <2>5. ResponderRank[responder'] \in 0..7
    BY <2>4, RankTypes
  <2>6. ResponderRank[responder'] >= ResponderRank[responder] /\ Calls' # Calls
    BY <2>3, <2>4, <2>5 DEF Calls
  <2> QED BY <1>1, <2>2, <2>6, RanksStay, CallGoesOn
<1> QED BY <1>2, <1>3

LEMMA CtlGoesOn == ASSUME TypeOK, ControlClose \/ RemoveAll PROVE GoesOn
<1>1. UNCHANGED <<irp, unreleased, starter, keyPlace, responder, stopPc>>
  BY DEF ControlClose, RemoveAll, CtlFrame, irpVars, keyVars
<1>2. CtlRank[ctlPc'] > CtlRank[ctlPc]
  BY DEF ControlClose, RemoveAll, CtlClose, CtlFetch, CtlRequestExit, CtlSetKeyEvent,
         CtlRelease, CtlJoin, CtlRank
<1>3. /\ CtlRank[ctlPc] \in 0..6
      /\ ctlPc' \in {"closed", "exit", "key", "release", "join", "returned", "noThread"}
  BY RankTypes DEF TypeOK, ProgressTypes, ControlClose, RemoveAll, CtlClose, CtlFetch,
                   CtlRequestExit, CtlSetKeyEvent, CtlRelease, CtlJoin
<1>4. CtlRank[ctlPc'] \in 0..6
  BY <1>3, RankTypes
<1>5. CtlRank[ctlPc'] >= CtlRank[ctlPc] /\ Calls' # Calls
  BY <1>2, <1>3, <1>4 DEF Calls
<1> QED BY <1>1, <1>5, RanksStay, CallGoesOn

LEMMA StopGoesOn == ASSUME TypeOK, Close \/ Stop PROVE GoesOn
<1>1. UNCHANGED <<irp, unreleased, starter, responder, ctlPc, mainPc>>
  BY DEF Close, Stop, CloseFrame, irpVars
<1>2. CASE StopReadCount /\ stopPc' = "wait"
  <2>1. UNCHANGED <<keyPlace, noIoEvent>> /\ stopPc = "count" /\ stopPc' = "wait"
    BY <1>2 DEF StopReadCount
  <2>2. Calls' = Calls
    BY <1>1, <2>1 DEF Calls, StopRank
  <2>3. Signals' < Signals
    BY <1>1, <2>1 DEF Signals
  <2> QED BY <1>1, <2>2, <2>3 DEF GoesOn
<1>3. CASE StopWait
  <2>1. UNCHANGED keyPlace /\ stopPc = "wait" /\ stopPc' = "count" /\ noIoEvent /\ ~noIoEvent'
    BY <1>3 DEF StopWait
  <2>2. Calls' = Calls
    BY <1>1, <2>1 DEF Calls, StopRank
  <2>3. Signals' < Signals
    BY <1>1, <2>1 DEF Signals
  <2> QED BY <1>1, <2>2, <2>3 DEF GoesOn
<1>4. CASE ~StopWait /\ ~(StopReadCount /\ stopPc' = "wait")
  <2>1. keyPlace' = keyPlace \/ (keyPlace \in {"requested", "response"} /\ keyPlace' = "withdrawn")
    BY <1>4 DEF Close, Stop, CloseFindsObject, StopSetPending, StopWithdrawRequest,
                StopWithdrawResponse, StopReadCount, StopRequestExit, StopSetKeyEvent,
                StopRelease, StopJoin
  <2>2. KeyRank[keyPlace'] >= KeyRank[keyPlace]
    BY <2>1, RanksStay DEF KeyRank
  <2>3. StopRank[stopPc'] > StopRank[stopPc]
    BY <1>4 DEF Close, Stop, CloseFindsObject, StopSetPending, StopWithdrawRequest,
                StopWithdrawResponse, StopReadCount, StopRequestExit, StopSetKeyEvent,
                StopRelease, StopJoin, StopRank
  <2>4. stopPc \in StopStates /\ stopPc' \in StopStates
    BY <1>4 DEF Close, Stop, CloseFindsObject, StopSetPending, StopWithdrawRequest,
                StopWithdrawResponse, StopReadCount, StopRequestExit, StopSetKeyEvent,
                StopRelease, StopJoin, TypeOK, ProgressTypes, StopStates
  <2>5. StopRank[stopPc] \in 0..9 /\ StopRank[stopPc'] \in 0..9
    BY <2>4, RankTypes
  <2>6. StopRank[stopPc'] >= StopRank[stopPc] /\ Calls' # Calls
    BY <2>3, <2>5 DEF Calls
  <2> QED BY <1>1, <2>2, <2>6, RanksStay, CallGoesOn
<1> QED BY <1>2, <1>3, <1>4

LEMMA IrpGoesOn ==
  ASSUME TypeOK, NEW i \in Irps, NEW s \in IrpStates,
         irp' = [irp EXCEPT ![i] = s], IrpRank[s] > IrpRank[irp[i]]
  PROVE  GoesOn
<1>1. irp \in [Irps -> IrpStates]
  BY DEF TypeOK, IrpTypes
<1>2. irp'[i] = s /\ \A j \in Irps : j # i => irp'[j] = irp[j]
  BY <1>1
<1>3. IrpRank[irp[i]] \in 0..7
  BY <1>1 DEF IrpStates, IrpRank
<1>4. irp' # irp
  BY <1>2, <1>3
<1> QED BY <1>2, <1>4 DEF GoesOn, IrpForward

LEMMA DispatchGoesOn ==
  ASSUME TypeOK, NEW i \in Irps, Send(i) \/ Dispatcher(i)
  PROVE  GoesOn
<1>2. CASE ReleaseSemaphore(i)
  BY <1>2 DEF ReleaseSemaphore, GoesOn
<1>3. ASSUME NEW s \in IrpStates, irp' = [irp EXCEPT ![i] = s], IrpRank[s] > IrpRank[irp[i]]
      PROVE  GoesOn
  BY <1>3, IrpGoesOn
<1>4. CASE DispatchIrp(i)
  BY <1>3, <1>4 DEF DispatchIrp, IrpStates, IrpRank
<1>5. CASE CountIrp(i)
  BY <1>3, <1>5 DEF CountIrp, IrpStates, IrpRank
<1>6. CASE CheckStopPending(i)
  <2>1. irp[i] = "counted" /\ irp' = [irp EXCEPT ![i] = IF stopPending THEN "refused" ELSE "admitted"]
    BY <1>6 DEF CheckStopPending
  <2>2. CASE stopPending
    BY <1>3, <2>1, <2>2 DEF IrpStates, IrpRank
  <2>3. CASE ~stopPending
    BY <1>3, <2>1, <2>3 DEF IrpStates, IrpRank
  <2> QED BY <2>2, <2>3
<1>7. CASE InsertIrp(i)
  BY <1>3, <1>7 DEF InsertIrp, IrpStates, IrpRank
<1>8. CASE UncountRefused(i)
  BY <1>3, <1>8 DEF UncountRefused, RefuseIrp, IrpStates, IrpRank
<1>9. CASE SignalRefused(i)
  BY <1>3, <1>9 DEF SignalRefused, RefuseIrp, IrpStates, IrpRank
<1> QED BY <1>2, <1>4, <1>5, <1>6, <1>7, <1>8, <1>9 DEF Send, Dispatcher

LEMMA MainGoesOn ==
  ASSUME TypeOK, IrpPlaces, MainThread
  PROVE  GoesOn
<1>1. /\ UNCHANGED <<starter, unreleased, keyPlace, responder, stopPc, ctlPc>>
      /\ irp \in [Irps -> IrpStates] /\ semaphore \in Nat /\ queue \in Seq(Irps)
  BY DEF MainThread, MainFrame, TypeOK, IrpTypes, CountTypes, keyVars
<1>2. Calls' = Calls
  BY <1>1 DEF Calls
<1>3. ASSUME NEW i \in Irps, NEW s \in IrpStates,
             irp' = [irp EXCEPT ![i] = s], IrpRank[s] > IrpRank[irp[i]]
      PROVE  GoesOn
  BY <1>3, IrpGoesOn
<1>4. CASE MainPop
  <2>1. Head(queue) \in Irps /\ 1 \in DOMAIN queue /\ queue[1] = Head(queue)
    BY <1>1, <1>4 DEF MainPop
  <2>2. PICK i \in Irps : i = Head(queue)
    BY <2>1
  <2>3. irp[i] = "queued" /\ irp' = [irp EXCEPT ![i] = "current"]
    BY <1>4, <2>1, <2>2 DEF MainPop, IrpPlaces, QueuePlaces
  <2>4. "current" \in IrpStates /\ IrpRank["current"] > IrpRank[irp[i]]
    BY <2>3 DEF IrpStates, IrpRank
  <2> QED BY <1>3, <2>3, <2>4
<1>5. CASE MainServe \/ MainUncount
  <2>1. PICK i \in Irps : current = <<i>>
    BY <1>5 DEF MainServe, MainUncount, IrpPlaces, CurrentPlaces
  <2>2. current[1] = i
    BY <2>1
  <2>3. irp[i] = IF mainPc = "serve" THEN "current" ELSE "completed"
    BY <1>5, <2>1 DEF MainServe, MainUncount, IrpPlaces, CurrentPlaces
  <2> QED BY <1>3, <1>5, <2>2, <2>3 DEF MainServe, MainUncount, IrpStates, IrpRank
<1>6. CASE MainSignal
  <2>1. irp' = irp /\ mainPc = "signal" /\ mainPc' = "drain" /\ stopPc' = stopPc
    BY <1>1, <1>6 DEF MainSignal, queueVars
  <2>2. Signals' < Signals
    BY <2>1 DEF Signals
  <2> QED BY <1>1, <1>2, <2>1, <2>2 DEF GoesOn
<1>7. CASE MainTakeToken
  <2>1. /\ irp' = irp /\ mainPc = "waitToken" /\ mainPc' = "drain" /\ semaphore' = semaphore - 1
        /\ noIoEvent' = noIoEvent
    BY <1>7 DEF MainTakeToken, queueVars
  <2>2. Signals' = Signals
    BY <1>1, <2>1 DEF Signals
  <2>3. Rounds' < Rounds
    BY <1>1, <2>1 DEF Rounds, MainRank
  <2> QED BY <1>1, <1>2, <2>1, <2>2, <2>3 DEF GoesOn
<1>8. ASSUME \/ MainLoopTest \/ MainTestKey \/ MainWakeWithKey \/ MainQueueEmpty \/ MainCheckSuspended
             \/ MainResume
      PROVE  GoesOn
  <2>1. /\ irp' = irp /\ semaphore' = semaphore /\ noIoEvent' = noIoEvent
        /\ mainPc # "signal" /\ mainPc' # "signal"
    BY <1>8 DEF MainLoopTest, MainTestKey, MainWakeWithKey, MainQueueEmpty,
                MainCheckSuspended, MainResume, queueVars, signalVars
  <2>2. Signals' = Signals
    BY <1>1, <2>1 DEF Signals
  <2>3. /\ mainPc \in MainStates /\ mainPc' \in MainStates
        /\ MainRank[mainPc'] < MainRank[mainPc]
    BY <1>8 DEF MainLoopTest, MainTestKey, MainWakeWithKey, MainQueueEmpty,
                MainCheckSuspended, MainResume, MainStates, MainRank
  <2>4. MainRank[mainPc] \in 0..7 /\ MainRank[mainPc'] \in 0..7
    BY <2>3, RankTypes
  <2>5. Rounds' < Rounds
    BY <1>1, <2>1, <2>3, <2>4 DEF Rounds
  <2> QED BY <1>1, <1>2, <2>1, <2>2, <2>5 DEF GoesOn
<1> QED BY <1>4, <1>5, <1>6, <1>7, <1>8 DEF MainThread

(* Each step, whoever takes it, brings the queue nearer to rest, in this     *)
(* order: an IRP goes on; a dispatcher is done with its release; a thread    *)
(* that runs through once goes on; the close's loop, or the main thread's,   *)
(* uses up an event or a token.  So no two of them can keep each other busy  *)
(* for ever (gingko_ioqueue.c:580-790, 1095-1101).  The exceptions are a     *)
(* request that is listed again because its answer could not be written, and *)
(* the steps of a holder, which may try for ever.                            *)
THEOREM NoStepIsIdleCorrect == Spec => [][NoStepIsIdle]_vars
<1>1. ASSUME IInv, Next PROVE NoStepIsIdle
  <2>1. TypeOK /\ IrpPlaces /\ GrantPlaces
    BY <1>1 DEF IInv
  <2>2. CASE CallHold \/ Hold
    BY <2>2 DEF CallHold, Hold, HoldBegin, HoldReadCount, HoldWait, HoldRecheck,
                HoldClearResumed, HoldSuspend, HoldVerify, ResumeFromHold, NoStepIsIdle
  <2> QED BY <1>1, <2>1, <2>2, StarterGoesOn, DispatchGoesOn, MainGoesOn, KeyGoesOn,
             StopGoesOn, CtlGoesOn DEF Next, NoStepIsIdle
<1> QED BY <1>1, InvariantCorrect, PTL DEF Spec
=============================================================================
