------------------ MODULE EncryptedIoQueueRefinement_proofs ------------------
(***************************************************************************)
(* EncryptedIoQueue implements PendedIrpService: every step of the queue   *)
(* is a step of the service or leaves pending, result and mode alone.      *)
(***************************************************************************)
EXTENDS EncryptedIoQueue_proofs, SequenceTheorems

-----------------------------------------------------------------------------
(* The abstract state.                                                       *)

Serving == mainPc \in {"popped", "suspended", "serve"}

\* What the steps below know of the state they start in.
Reachable == TypeOK /\ IrpPlaces /\ LifeCycle /\ ModeDecided

\* Nothing the service sees of the queue changes.
Stutter == UNCHANGED <<Unanswered, result, ReadMode>>

LEMMA UnansweredElements ==
  ASSUME Reachable
  PROVE  /\ queue \in Seq(Irps) /\ current \in Seq(Irps)
         /\ Unanswered = (IF Serving THEN current \o queue ELSE queue)
         /\ Unanswered \in Seq(Irps)
         /\ \A k \in DOMAIN Unanswered : irp[Unanswered[k]] \in {"queued", "current"}
<1>1. queue \in Seq(Irps) /\ current \in Seq(Irps) /\ QueuePlaces /\ CurrentPlaces
  BY DEF Reachable, TypeOK, IrpTypes, IrpPlaces
<1>2. \A k \in DOMAIN queue : queue[k] \in Irps /\ irp[queue[k]] = "queued"
  BY <1>1 DEF QueuePlaces
<1>3. CASE Serving
  <2>1. PICK i \in Irps : current = <<i>> /\ irp[i] = "current"
    BY <1>1, <1>3 DEF Serving, CurrentPlaces
  <2>2. Unanswered = current \o queue
    BY <1>3 DEF Serving, Unanswered
  <2>3. Unanswered \in Seq(Irps) /\ Len(Unanswered) = Len(current) + Len(queue)
        /\ \A k \in 1 .. (Len(current) + Len(queue)) :
              Unanswered[k] = IF k <= Len(current) THEN current[k] ELSE queue[k - Len(current)]
    BY <1>1, <2>2, ConcatProperties
  <2>4. ASSUME NEW k \in DOMAIN Unanswered
        PROVE  irp[Unanswered[k]] \in {"queued", "current"}
    <3>1. /\ Len(current) = 1 /\ current[1] = i /\ Len(queue) \in Nat
          /\ k \in 1 .. (1 + Len(queue))
      BY <1>1, <2>1, <2>3
    <3>2. CASE k = 1
      BY <2>1, <2>3, <3>1, <3>2
    <3>3. CASE k # 1
      <4>1. k - 1 \in DOMAIN queue /\ Unanswered[k] = queue[k - 1]
        BY <1>1, <2>3, <3>1, <3>3
      <4>. QED  BY <1>2, <4>1
    <3>. QED  BY <3>2, <3>3
  <2>. QED  BY <1>1, <1>3, <2>2, <2>3, <2>4
<1>4. CASE ~Serving
  <2>1. Unanswered = queue
    BY <1>1, <1>4, ConcatEmptySeq DEF Serving, Unanswered
  <2>. QED  BY <1>1, <1>2, <1>4, <2>1
<1>. QED  BY <1>3, <1>4

\* An IRP that is neither queued nor being served is not pended.
LEMMA NotPended ==
  ASSUME Reachable, NEW i \in Irps,
         irp[i] \notin {"queued", "current", "completed", "finished"}
  PROVE  Service!Unpended(i)
<1>1. result[i] = "none"
  BY DEF Reachable, IrpPlaces, ResultPlaces
<1>2. \A k \in DOMAIN Unanswered : Unanswered[k] # i
  BY UnansweredElements
<1>. QED  BY <1>1, <1>2 DEF Service!Unpended

-----------------------------------------------------------------------------
(* The steps.                                                                *)

LEMMA DispatchRefines ==
  ASSUME Reachable, Reachable', NEW i \in Irps, Send(i) \/ Dispatcher(i)
  PROVE  [Service!Next]_(Service!vars)
<1>1. UNCHANGED <<current, mainPc, passthrough, cryptoInfo>>
  BY DEF Send, Dispatcher, DispatchFrame, modeVars
<1>2. ReadMode' = ReadMode
  BY <1>1 DEF ReadMode
<1>3. CASE InsertIrp(i)
  <2>1. queue' = Append(queue, i) /\ irp[i] = "admitted" /\ result' = result
    BY <1>3 DEF InsertIrp
  <2>2. queue \in Seq(Irps) /\ current \in Seq(Irps)
    BY UnansweredElements
  <2>3. Unanswered' = Append(Unanswered, i)
    <3>1. CASE Serving
      <4>1. Unanswered = current \o queue /\ Unanswered' = current \o Append(queue, i)
        BY <1>1, <2>1, <3>1 DEF Serving, Unanswered
      <4>2. Append(queue, i) = queue \o <<i>>
        BY <2>2, AppendIsConcat
      <4>3. <<i>> \in Seq(Irps)
        OBVIOUS
      <4>4. current \o (queue \o <<i>>) = (current \o queue) \o <<i>>
        BY <2>2, <4>3, ConcatAssociative
      <4>5. Append(current \o queue, i) = (current \o queue) \o <<i>>
        <5>1. current \o queue \in Seq(Irps)
          BY <2>2, ConcatProperties
        <5>. QED  BY <5>1, AppendIsConcat
      <4>. QED  BY <4>1, <4>2, <4>4, <4>5
    <3>2. CASE ~Serving
      <4>1. Unanswered = queue
        BY <3>2, UnansweredElements
      <4>2. Unanswered' = queue'
        <5>1. ~Serving'
          BY <1>1, <3>2 DEF Serving
        <5>2. Append(queue, i) \in Seq(Irps)
          BY <2>2
        <5>. QED  BY <2>1, <5>1, <5>2, ConcatEmptySeq DEF Unanswered, Serving
      <4>. QED  BY <2>1, <4>1, <4>2
    <3>. QED  BY <3>1, <3>2
  <2>4. Service!Pend(i)
    <3>1. Service!Unpended(i)
      BY <2>1, NotPended
    <3>. QED  BY <1>2, <2>1, <2>3, <3>1 DEF Service!Pend
  <2>. QED  BY <2>4 DEF Service!Next
<1>4. CASE ~InsertIrp(i)
  <2>1. queue' = queue
    BY <1>4 DEF Send, Dispatcher, DispatchIrp, CountIrp, CheckStopPending,
                ReleaseSemaphore, UncountRefused, SignalRefused
  <2>2. Unanswered' = Unanswered
    BY <1>1, <2>1 DEF Unanswered
  <2>3. \/ result' = result
        \/ /\ irp[i] \in {"unsent", "refused", "refusedZero"}
           /\ \E r \in {"notReady", "passed"} : result' = [result EXCEPT ![i] = r]
    BY <1>4 DEF Send, Dispatcher, DispatchIrp, CountIrp, CheckStopPending,
                ReleaseSemaphore, UncountRefused, SignalRefused, RefuseIrp
  <2>4. CASE result' = result
    BY <1>2, <2>2, <2>4 DEF Service!vars
  <2>5. CASE result' # result
    <3>1. Service!Unpended(i)
      BY <2>3, <2>5, NotPended
    <3>2. Service!AnswerAtOnce(i)
      BY <1>2, <2>2, <2>3, <2>5, <3>1 DEF Service!AnswerAtOnce
    <3>. QED  BY <3>2 DEF Service!Next
  <2>. QED  BY <2>4, <2>5
<1>. QED  BY <1>3, <1>4

LEMMA MainRefines ==
  ASSUME Reachable, Reachable', MainThread
  PROVE  [Service!Next]_(Service!vars)
<1>0. /\ queue \in Seq(Irps) /\ current \in Seq(Irps)
      /\ Unanswered = (IF Serving THEN current \o queue ELSE queue)
      /\ Unanswered' = (IF Serving' THEN current' \o queue' ELSE queue')
  <2>1. queue' \in Seq(Irps)
    BY DEF Reachable, TypeOK, IrpTypes
  <2>2. <<>> \o queue' = queue'
    BY <2>1, ConcatEmptySeq
  <2>. QED  BY <2>2, UnansweredElements DEF Unanswered, Serving
<1>1. cryptoInfo' = cryptoInfo
  BY DEF MainThread, MainFrame
<1>2. CASE MainWakeWithKey
  <2>1. /\ mainPc = "waitKey" /\ mainPc' = "waitToken" /\ queue' = queue
        /\ result' = result /\ ~passthrough /\ (passthrough' <=> ~cryptoInfo)
    BY <1>2 DEF MainWakeWithKey, queueVars, Reachable, ModeDecided
  <2>2. Unanswered' = Unanswered
    BY <1>0, <2>1 DEF Serving
  <2>3. CASE cryptoInfo
    <3>1. ReadMode' = ReadMode
      BY <1>1, <2>1, <2>3 DEF ReadMode
    <3>. QED  BY <2>1, <2>2, <3>1 DEF Service!vars
  <2>4. CASE ~cryptoInfo
    <3>1. ReadMode = "undecided" /\ ReadMode' = "raw"
      BY <1>1, <2>1, <2>4 DEF ReadMode
    <3>2. Service!Decide
      BY <2>1, <2>2, <3>1 DEF Service!Decide
    <3>. QED  BY <3>2 DEF Service!Next
  <2>. QED  BY <2>3, <2>4
<1>3. CASE MainPop
  <2>1. /\ ~Serving /\ Serving' /\ current' = <<Head(queue)>> /\ queue' = Tail(queue)
        /\ queue # <<>> /\ result' = result /\ passthrough' = passthrough
    BY <1>3 DEF MainPop, Serving
  <2>2. <<Head(queue)>> \o Tail(queue) = queue
    BY <1>0, <2>1
  <2>3. Unanswered' = Unanswered /\ ReadMode' = ReadMode
    BY <1>0, <1>1, <2>1, <2>2 DEF ReadMode
  <2>. QED  BY <2>1, <2>3 DEF Service!vars
<1>4. CASE MainServe
  <2>1. PICK i \in Irps : current = <<i>>
    BY <1>4 DEF MainServe, Reachable, IrpPlaces, CurrentPlaces
  <2>2. PICK r \in {"other", ReadAnswer} : result' = [result EXCEPT ![current[1]] = r]
    BY <1>4 DEF MainServe
  <2>3. /\ Serving /\ ~Serving' /\ queue' = queue /\ passthrough' = passthrough
    BY <1>4 DEF MainServe, Serving
  <2>4. Unanswered = <<i>> \o queue /\ Unanswered' = queue
    BY <1>0, <2>1, <2>3
  <2>5. Unanswered # <<>> /\ Head(Unanswered) = i /\ Tail(Unanswered) = queue
    BY <1>0, <2>4
  <2>6. ReadMode = ReadAnswer /\ ReadMode' = ReadMode
    BY <1>1, <1>4, <2>3 DEF MainServe, ReadMode, ReadAnswer, Reachable, ModeDecided
  <2>7. r \in Service!Answers /\ r \in {"other", ReadMode}
    BY <2>6 DEF ReadAnswer, Service!Answers, Service!Modes
  <2>8. result' = [result EXCEPT ![Head(Unanswered)] = r]
    BY <2>1, <2>2, <2>5
  <2>9. Service!AnswerOldest
    BY <2>4, <2>5, <2>6, <2>7, <2>8 DEF Service!AnswerOldest
  <2>. QED  BY <2>9 DEF Service!Next
<1>5. CASE ~MainWakeWithKey /\ ~MainPop /\ ~MainServe
  <2>1. UNCHANGED <<queue, result, passthrough>>
    BY <1>5 DEF MainThread, MainLoopTest, MainTestKey, MainTakeToken, MainQueueEmpty,
                MainCheckSuspended, MainResume, MainUncount, MainSignal, queueVars
  <2>2. /\ Serving' <=> Serving
        /\ Serving => current' = current
    BY <1>5 DEF MainThread, MainLoopTest, MainTestKey, MainTakeToken, MainQueueEmpty,
                MainCheckSuspended, MainResume, MainUncount, MainSignal, queueVars,
                Serving
  <2>3. Unanswered' = Unanswered /\ ReadMode' = ReadMode
    BY <1>0, <1>1, <2>1, <2>2 DEF ReadMode
  <2>. QED  BY <2>1, <2>3 DEF Service!vars
<1>. QED  BY <1>2, <1>3, <1>4, <1>5

LEMMA OthersRefine ==
  ASSUME Reachable, Reachable', UNCHANGED <<irpVars, passthrough>>,
         Serving' <=> Serving,
         cryptoInfo' = cryptoInfo \/ cryptoInfo' = TRUE
  PROVE  [Service!Next]_(Service!vars)
<1>1. Unanswered' = Unanswered /\ result' = result
  BY DEF irpVars, Unanswered, Serving
<1>2. CASE ReadMode' = ReadMode
  BY <1>1, <1>2 DEF Service!vars
<1>3. CASE ReadMode' # ReadMode
  <2>1. ReadMode = "undecided" /\ ReadMode' \in {"raw", "plain"}
    BY <1>3 DEF ReadMode
  <2>2. Service!Decide
    BY <1>1, <2>1 DEF Service!Decide
  <2>. QED  BY <2>2 DEF Service!Next
<1>. QED  BY <1>2, <1>3

LEMMA StepRefines ==
  ASSUME Reachable, Reachable', [Next]_vars
  PROVE  [Service!Next]_(Service!vars)
<1>1. ASSUME NEW i \in Irps, Send(i) \/ Dispatcher(i)
      PROVE  [Service!Next]_(Service!vars)
  BY <1>1, DispatchRefines
<1>2. CASE MainThread
  BY <1>2, MainRefines
<1>3. CASE Starter
  <2>1. UNCHANGED <<irpVars, passthrough>>
    BY <1>3 DEF Starter, StarterFrame
  <2>2. ~Serving /\ ~Serving'
    BY <1>3 DEF Starter, TrackFileObject, StartQueue, StartMainThread, Reachable,
                LifeCycle, Serving
  <2>3. cryptoInfo' = cryptoInfo \/ cryptoInfo' = TRUE
    BY <1>3 DEF Starter, TrackFileObject, StartQueue, StartNoMemory, StartNoServer,
                StartAskKey, StartMainThread
  <2>. QED  BY <2>1, <2>2, <2>3, OthersRefine
<1>4. CASE Responder
  <2>1. UNCHANGED <<irpVars, passthrough, mainPc>>
    BY <1>4 DEF Responder, KeyFrame
  <2>2. cryptoInfo' = cryptoInfo \/ cryptoInfo' = TRUE
    BY <1>4 DEF Responder, FindResponse, ResponderCheck, ResponderPin, ResponderInstall,
                ResponderUncount, ResponderSignalIo, ResponderSetKeyEvent,
                ResponderDangles
  <2>. QED  BY <2>1, <2>2, OthersRefine DEF Serving
<1>5. CASE UNCHANGED <<irpVars, passthrough, cryptoInfo, mainPc>>
  BY <1>5, OthersRefine DEF Serving
<1>. QED
  BY <1>1, <1>2, <1>3, <1>4, <1>5
  DEF Next, Retriever, KeyFrame, RetrieveRequest, FinishRetrieve, Close, Stop,
      CloseFrame, ControlClose, RemoveAll, CtlFrame, CallHold, Hold, HoldFrame, vars,
      modeVars

(* Pended IRPs are answered exactly once, in order, and every read of a file *)
(* object in the same mode: the queue implements the service.                *)
THEOREM QueueImplementsService == Spec => ImplementsService
<1>1. Init => Service!Init
  <2>. SUFFICES ASSUME Init PROVE Service!Init
    OBVIOUS
  <2>1. Unanswered = <<>>
    BY ConcatEmptySeq DEF Init, Unanswered
  <2>. QED  BY <2>1 DEF Init, ReadMode, Service!Init
<1>2. Spec => []Reachable
  BY TypeCorrect, PlacesCorrect, FlagsCorrect, PTL DEF Reachable
<1>3. Reachable /\ Reachable' /\ [Next]_vars => [Service!Next]_(Service!vars)
  BY StepRefines
<1>. QED  BY <1>1, <1>2, <1>3, PTL DEF Spec, ImplementsService, Service!Spec
=============================================================================
