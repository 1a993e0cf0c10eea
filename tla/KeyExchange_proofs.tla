------------------------- MODULE KeyExchange_proofs -------------------------
(***************************************************************************)
(* Proofs about KeyExchange, for every set of queues and of faults.        *)
(***************************************************************************)
EXTENDS KeyExchange, FiniteSetTheorems, TLAPS

-----------------------------------------------------------------------------
(* Sequences without repetition.                                             *)

In(s, e) == \E i \in DOMAIN s : s[i] = e

Distinct(s) == \A i, j \in DOMAIN s : s[i] = s[j] => i = j

LEMMA TailOf ==
  ASSUME NEW S, NEW s \in Seq(S), s # <<>>, Distinct(s)
  PROVE  /\ Head(s) \in S /\ In(s, Head(s))
         /\ Tail(s) \in Seq(S) /\ Distinct(Tail(s))
         /\ \A e : In(Tail(s), e) <=> In(s, e) /\ e # Head(s)
<1>1. /\ Len(s) \in Nat /\ Len(s) > 0
      /\ Head(s) = s[1] /\ s[1] \in S
      /\ DOMAIN s = 1..Len(s)
      /\ DOMAIN Tail(s) = 1..(Len(s) - 1)
      /\ \A k \in 1..(Len(s) - 1) : Tail(s)[k] = s[k + 1]
      /\ Tail(s) \in Seq(S)
  OBVIOUS
<1>2. 1 \in DOMAIN s
  BY <1>1
<1>3. \A k \in DOMAIN Tail(s) : k + 1 \in DOMAIN s /\ k + 1 # 1 /\ Tail(s)[k] = s[k + 1]
  BY <1>1
<1>4. \A k \in DOMAIN s : k # 1 => k - 1 \in DOMAIN Tail(s) /\ s[k] = Tail(s)[k - 1]
  BY <1>1
<1>5. \A k \in DOMAIN Tail(s) : s[k + 1] # s[1]
  BY <1>2, <1>3 DEF Distinct
<1>6. Distinct(Tail(s))
  BY <1>1, <1>3 DEF Distinct
<1>7. \A e : In(Tail(s), e) <=> In(s, e) /\ e # s[1]
  BY <1>3, <1>4, <1>5 DEF In
<1>. QED  BY <1>1, <1>2, <1>6, <1>7 DEF In

LEMMA AppendOf ==
  ASSUME NEW S, NEW s \in Seq(S), NEW e \in S, Distinct(s), ~In(s, e)
  PROVE  /\ Append(s, e) \in Seq(S) /\ Distinct(Append(s, e))
         /\ \A x : In(Append(s, e), x) <=> In(s, x) \/ x = e
<1>1. /\ Len(s) \in Nat
      /\ DOMAIN s = 1..Len(s)
      /\ DOMAIN Append(s, e) = 1..(Len(s) + 1)
      /\ Append(s, e)[Len(s) + 1] = e
      /\ \A k \in 1..Len(s) : Append(s, e)[k] = s[k]
      /\ Append(s, e) \in Seq(S)
  OBVIOUS
<1>2. /\ \A k \in DOMAIN s : k \in DOMAIN Append(s, e) /\ Append(s, e)[k] = s[k]
      /\ \A k \in DOMAIN Append(s, e) : k = Len(s) + 1 \/ k \in DOMAIN s
      /\ Len(s) + 1 \in DOMAIN Append(s, e)
  BY <1>1
<1>3. Distinct(Append(s, e))
  BY <1>1, <1>2 DEF Distinct, In
<1>4. \A x : In(Append(s, e), x) <=> In(s, x) \/ x = e
  BY <1>1, <1>2 DEF In
<1>. QED  BY <1>1, <1>3, <1>4

LEMMA EmptyOf == \A e : ~In(<<>>, e)
  BY DEF In

-----------------------------------------------------------------------------
(* Type correctness.                                                         *)

LEMMA TypeInit == Init => TypeOK
<1>. SUFFICES ASSUME Init PROVE TypeOK
  OBVIOUS
<1>1. alone \in [Queues -> BOOLEAN]
  BY Zenon DEF Init
<1>2. requests \in Seq(Queues)
  BY DEF Init
<1>3. /\ readEvent \in BOOLEAN /\ exit \in BOOLEAN /\ missed \in BOOLEAN
  BY Zenon DEF Init
<1>4. /\ \A q \in Queues : hand[q] = NoQueue
      /\ taken # NoQueue <=> service \in {"listing", "starting", "counting"}
  BY DEF Init
<1>5. /\ phase \in [Queues -> {"new", "listed", "open", "rotating", "unlisting", "stopped"}]
      /\ hand \in [Queues -> Queues \cup {NoQueue}]
      /\ first \in [Queues -> Queues \cup {NoQueue}]
      /\ thread \in [Queues -> {"none", "asking", "polling", "running", "ending"}]
  BY DEF Init
<1>. QED  BY <1>1, <1>2, <1>3, <1>4, <1>5 DEF Init, TypeOK

LEMMA FileTypeStep ==
  ASSUME TypeOK, NEW q \in Queues,
         StartInserts(q) \/ StartSignals(q) \/ StartFails(q) \/ StopBegins(q) \/ Stop(q)
  PROVE  TypeOK'
<1>. USE DEF TypeOK, Becomes, lists, serviceSide, serviceVars, stopVars, history
<1>1. CASE StartInserts(q)
  <2>1. requests' \in Seq(Queues) /\ hand[q] = NoQueue
    BY <1>1 DEF StartInserts
  <2>. QED  BY <1>1, <2>1 DEF StartInserts
<1>2. CASE StartSignals(q) \/ StartFails(q)
  BY <1>2 DEF StartSignals, StartFails
<1>3. CASE StopBegins(q)
  <2>1. alone' \in [Queues -> BOOLEAN]
    BY <1>3, Zenon DEF StopBegins
  <2>. QED  BY <1>3, <2>1 DEF StopBegins
<1>4. CASE StopTakes(q)
  <2>1. Head(requests) \in Queues /\ Tail(requests) \in Seq(Queues)
    BY <1>4 DEF StopTakes
  <2>. QED  BY <1>4, <2>1 DEF StopTakes
<1>5. CASE StopFindsEmpty(q) \/ StopFindsRequest(q) \/ StopUnlists(q)
  BY <1>5, NoQueueAssumption DEF StopFindsEmpty, StopFindsRequest, StopUnlists
<1>6. CASE StopPutsBack(q) \/ StopComesRound(q)
  <2>1. hand[q] \in Queues /\ Append(requests, hand[q]) \in Seq(Queues)
    BY <1>6 DEF StopPutsBack, StopComesRound, PutBack
  <2>. QED  BY <1>6, <2>1 DEF StopPutsBack, StopComesRound, PutBack
<1>. QED  BY <1>1, <1>2, <1>3, <1>4, <1>5, <1>6 DEF Stop

LEMMA ServiceTypeStep ==
  ASSUME TypeOK,
         Service \/ StopThread \/ \E q \in Queues : RequestThread(q)
  PROVE  TypeOK'
<1>. USE DEF TypeOK, Serves, lists, fileVars, serviceVars, stopVars, history
<1>1. CASE ServiceFetches
  <2>1. /\ Head(requests) \in Queues /\ Head(requests) # NoQueue
        /\ Tail(requests) \in Seq(Queues)
    BY <1>1, NoQueueAssumption DEF ServiceFetches
  <2>2. alone' \in [Queues -> BOOLEAN]
    BY <1>1, Zenon DEF ServiceFetches
  <2>. QED  BY <1>1, <2>1, <2>2 DEF ServiceFetches
<1>2. CASE ServiceFindsEmpty \/ ServiceCannotFetch
  <2>1. missed' \in BOOLEAN
    BY <1>2, Zenon DEF ServiceFindsEmpty, ServiceCannotFetch, LeavesLoop
  <2>. QED  BY <1>2, <2>1 DEF ServiceFindsEmpty, ServiceCannotFetch, LeavesLoop
<1>3. CASE ServiceWakes
  <2>1. readEvent' \in BOOLEAN /\ missed' \in BOOLEAN
    BY <1>3, Zenon DEF ServiceWakes
  <2>. QED  BY <1>3, <2>1 DEF ServiceWakes
<1>4. CASE ServiceTests
  <2>1. service' \in {"draining", "waiting"}
    BY <1>4, Zenon DEF ServiceTests
  <2>. QED  BY <1>4, <2>1 DEF ServiceTests
<1>5. CASE ServiceCloses \/ ServiceCounts
  BY <1>5 DEF ServiceCloses, ServiceCounts
<1>6. CASE ServiceLists \/ ServiceStartsThread
  BY <1>6 DEF ServiceLists, ServiceStartsThread
<1>7. CASE ServiceDrops \/ ServiceRelists
  <2>1. missed' \in BOOLEAN
    BY <1>7, Zenon DEF ServiceDrops, ServiceRelists, LeavesLoop
  <2>2. requests' \in Seq(Queues) /\ taken' = NoQueue /\ service' = "testing"
    BY <1>7 DEF ServiceDrops, ServiceRelists, LeavesLoop
  <2>. QED  BY <1>7, <2>1, <2>2 DEF ServiceDrops, ServiceRelists
<1>8. CASE StopThread
  BY <1>8 DEF StopThread
<1>9. CASE \E q \in Queues : RequestThread(q)
  BY <1>9 DEF RequestThread, DialogEnds, PollEnds, PutsResponse, Ends
<1>. QED  BY <1>1, <1>2, <1>3, <1>4, <1>5, <1>6, <1>7, <1>8, <1>9 DEF Service

LEMMA TypeStep == TypeOK /\ [Next]_vars => TypeOK'
<1>1. CASE UNCHANGED vars
  BY <1>1
  DEF TypeOK, vars, lists, fileVars, serviceSide, serviceVars, stopVars, history
<1>. QED  BY <1>1, FileTypeStep, ServiceTypeStep DEF Next

(* Every variable keeps its type; a Stop has an entry in hand only while it  *)
(* turns the list, and the service one exactly while it deals with it.       *)
THEOREM KeyTypeCorrect == Spec => []TypeOK
  BY TypeInit, TypeStep, PTL DEF Spec

-----------------------------------------------------------------------------
(* Where a request is: on the list, in a hand, fetched, or awaiting its      *)
(* answer.                                                                   *)

Waits(q) == Listed(q) \/ InHand(q) \/ Fetched(q)

\* What the steps below know of the state they start in.
Placed == TypeOK /\ RequestOnce /\ NewUnlisted

\* What every step but q's own insertion leaves alone.
Stays(q) ==
    /\ ~Waits(q) => ~Waits(q)'
    /\ Nowhere(q) => Nowhere(q)'

LEMMA PlacedParts ==
  ASSUME Placed
  PROVE  /\ requests \in Seq(Queues) /\ Distinct(requests)
         /\ \A q : Listed(q) <=> In(requests, q)
         /\ \A q \in Queues : InHand(q) => ~Listed(q) /\ ~Fetched(q) /\ q \notin responses
         /\ \A q \in Queues : Listed(q) => ~Fetched(q) /\ q \notin responses
         /\ \A q \in Queues : Fetched(q) => q \notin responses
         /\ \A p, q \in Queues : hand[p] = hand[q] /\ hand[p] # NoQueue => p = q
  BY DEF Placed, TypeOK, RequestOnce, Distinct, In, Listed

LEMMA InsertPlaces ==
  ASSUME Placed, NEW q \in Queues, StartInserts(q)
  PROVE  RequestOnce' /\ \A p \in Queues : p # q => Stays(p)
<1>1. /\ phase[q] = "new" /\ UNCHANGED <<responses, hand, service, taken>>
      /\ requests' = Append(requests, q) \/ requests' = requests
  BY DEF StartInserts, serviceSide, serviceVars
<1>2. ~In(requests, q) /\ ~InHand(q) /\ ~Fetched(q) /\ q \notin responses
  BY <1>1, PlacedParts DEF Placed, NewUnlisted, Nowhere
<1>3. /\ Distinct(requests')
      /\ \A p : In(requests', p) => In(requests, p) \/ p = q
  <2>1. CASE requests' = Append(requests, q)
    BY <1>2, <2>1, AppendOf, PlacedParts
  <2>2. CASE requests' = requests
    BY <2>2, PlacedParts
  <2>. QED  BY <1>1, <2>1, <2>2
<1>4. /\ \A p : Listed(p)' <=> In(requests', p)
      /\ \A p : InHand(p)' <=> InHand(p)
      /\ \A p : Fetched(p)' <=> Fetched(p)
  BY <1>1 DEF Listed, In, InHand, Fetched
<1>5. RequestOnce'
  BY <1>1, <1>2, <1>3, <1>4, PlacedParts DEF RequestOnce, Distinct
<1>. QED  BY <1>1, <1>3, <1>4, <1>5, PlacedParts DEF Stays, Waits, Nowhere

LEMMA TakePlaces ==
  ASSUME Placed, NEW q \in Queues, StopTakes(q)
  PROVE  RequestOnce' /\ \A p \in Queues : Stays(p)
<1>1. /\ requests # <<>> /\ requests' = Tail(requests)
      /\ hand[q] = NoQueue /\ hand' = [hand EXCEPT ![q] = Head(requests)]
      /\ UNCHANGED <<responses, service, taken>>
  BY DEF StopTakes, serviceSide, serviceVars
<1>2. /\ Head(requests) \in Queues /\ In(requests, Head(requests))
      /\ Distinct(requests')
      /\ \A p : In(requests', p) <=> In(requests, p) /\ p # Head(requests)
  BY <1>1, TailOf, PlacedParts
<1>3. /\ hand'[q] = Head(requests)
      /\ \A p \in Queues : p # q => hand'[p] = hand[p]
  BY <1>1 DEF Placed, TypeOK
<1>4. ~InHand(Head(requests))
  BY <1>2, PlacedParts
<1>5. /\ \A p : Listed(p)' <=> In(requests', p)
      /\ \A p : Fetched(p)' <=> Fetched(p)
  BY <1>1 DEF Listed, In, Fetched
<1>6. \A p \in Queues : InHand(p)' <=> InHand(p) \/ p = Head(requests)
  BY <1>1, <1>2, <1>3, NoQueueAssumption DEF InHand
<1>7. \A p, r \in Queues : hand'[p] = hand'[r] /\ hand'[p] # NoQueue => p = r
  BY <1>3, <1>4, PlacedParts DEF InHand
<1>8. RequestOnce'
  BY <1>1, <1>2, <1>5, <1>6, <1>7, PlacedParts DEF RequestOnce, Distinct
<1>. QED  BY <1>1, <1>2, <1>5, <1>6, <1>8, PlacedParts DEF Stays, Waits, Nowhere

LEMMA PutPlaces ==
  ASSUME Placed, NEW q \in Queues, PutBack(q)
  PROVE  RequestOnce' /\ \A p \in Queues : Stays(p)
<1>1. /\ hand[q] # NoQueue /\ hand' = [hand EXCEPT ![q] = NoQueue]
      /\ requests' = Append(requests, hand[q])
      /\ UNCHANGED <<responses, service, taken>>
  BY DEF PutBack, serviceSide, serviceVars
<1>2. hand[q] \in Queues /\ InHand(hand[q]) /\ ~In(requests, hand[q])
  <2>1. hand[q] \in Queues
    BY <1>1 DEF Placed, TypeOK
  <2>2. InHand(hand[q])
    BY DEF InHand
  <2>. QED  BY <2>1, <2>2, PlacedParts
<1>3. /\ Distinct(requests')
      /\ \A p : In(requests', p) <=> In(requests, p) \/ p = hand[q]
  BY <1>1, <1>2, AppendOf, PlacedParts
<1>4. /\ hand'[q] = NoQueue
      /\ \A p \in Queues : p # q => hand'[p] = hand[p]
  BY <1>1 DEF Placed, TypeOK
<1>5. /\ \A p : Listed(p)' <=> In(requests', p)
      /\ \A p : Fetched(p)' <=> Fetched(p)
  BY <1>1 DEF Listed, In, Fetched
<1>6. \A p \in Queues : InHand(p)' <=> InHand(p) /\ p # hand[q]
  BY <1>1, <1>4, PlacedParts, NoQueueAssumption DEF InHand
<1>7. \A p, r \in Queues : hand'[p] = hand'[r] /\ hand'[p] # NoQueue => p = r
  BY <1>4, PlacedParts
<1>8. RequestOnce'
  BY <1>1, <1>2, <1>3, <1>5, <1>6, <1>7, PlacedParts DEF RequestOnce, Distinct
<1>. QED  BY <1>1, <1>2, <1>3, <1>5, <1>6, <1>8, PlacedParts DEF Stays, Waits, Nowhere

LEMMA FindPlaces ==
  ASSUME Placed, NEW q \in Queues, StopFindsRequest(q)
  PROVE  RequestOnce' /\ \A p \in Queues : Stays(p)
<1>1. /\ hand' = [hand EXCEPT ![q] = NoQueue]
      /\ UNCHANGED <<requests, responses, service, taken>>
  BY DEF StopFindsRequest, lists, serviceSide, serviceVars
<1>2. /\ hand'[q] = NoQueue
      /\ \A p \in Queues : p # q => hand'[p] = hand[p]
  BY <1>1 DEF Placed, TypeOK
<1>3. /\ \A p : Listed(p)' <=> In(requests, p)
      /\ \A p : Fetched(p)' <=> Fetched(p)
  BY <1>1 DEF Listed, In, Fetched
<1>4. \A p \in Queues : InHand(p)' => InHand(p)
  BY <1>2, NoQueueAssumption DEF InHand
<1>5. \A p, r \in Queues : hand'[p] = hand'[r] /\ hand'[p] # NoQueue => p = r
  BY <1>2, PlacedParts
<1>6. RequestOnce'
  BY <1>1, <1>3, <1>4, <1>5, PlacedParts DEF RequestOnce, Distinct
<1>. QED  BY <1>1, <1>3, <1>4, <1>6, PlacedParts DEF Stays, Waits, Nowhere

LEMMA FetchPlaces ==
  ASSUME Placed, ServiceFetches
  PROVE  RequestOnce' /\ \A p \in Queues : Stays(p)
<1>1. /\ requests # <<>> /\ requests' = Tail(requests)
      /\ taken' = Head(requests) /\ service' = "listing"
      /\ UNCHANGED <<responses, hand>>
      /\ service = "fetching"
  BY DEF ServiceFetches, Serves, fileVars
<1>2. /\ Head(requests) \in Queues /\ In(requests, Head(requests))
      /\ Distinct(requests')
      /\ \A p : In(requests', p) <=> In(requests, p) /\ p # Head(requests)
  BY <1>1, TailOf, PlacedParts
<1>3. /\ \A p : Listed(p)' <=> In(requests', p)
      /\ \A p : InHand(p)' <=> InHand(p)
      /\ \A p : Fetched(p)' <=> p = Head(requests)
  BY <1>1 DEF Listed, In, InHand, Fetched
<1>4. RequestOnce'
  BY <1>1, <1>2, <1>3, PlacedParts DEF RequestOnce, Distinct
<1>. QED  BY <1>1, <1>2, <1>3, <1>4, PlacedParts DEF Stays, Waits, Nowhere

\* The rest leaves the list and the hands alone.
Quiet == UNCHANGED <<requests, hand>>

LEMMA ListPlaces ==
  ASSUME Placed, ServiceLists
  PROVE  RequestOnce' /\ \A p \in Queues : Stays(p)
<1>1. /\ Quiet /\ responses' = responses \cup {taken} /\ service' = "starting"
      /\ service = "listing"
  BY DEF ServiceLists, Serves, Quiet, fileVars
<1>2. Fetched(taken) /\ taken \in Queues
  BY <1>1, NoQueueAssumption DEF Fetched, Placed, TypeOK
<1>3. /\ \A p : Listed(p)' <=> Listed(p)
      /\ \A p : InHand(p)' <=> InHand(p)
      /\ \A p : ~Fetched(p)'
  BY <1>1 DEF Quiet, Listed, InHand, Fetched
<1>4. RequestOnce'
  BY <1>1, <1>2, <1>3, PlacedParts DEF Quiet, RequestOnce, Distinct
<1>. QED  BY <1>1, <1>2, <1>3, <1>4, PlacedParts DEF Stays, Waits, Nowhere

LEMMA RelistPlaces ==
  ASSUME Placed, ServiceRelists
  PROVE  RequestOnce' /\ \A p \in Queues : Stays(p)
<1>1. /\ requests' = Append(requests, taken) /\ UNCHANGED <<responses, hand>>
      /\ service = "listing" /\ service' = "testing"
  BY DEF ServiceRelists, LeavesLoop, Serves, fileVars
<1>2. Fetched(taken) /\ taken \in Queues
  BY <1>1, NoQueueAssumption DEF Fetched, Placed, TypeOK
<1>3. ~In(requests, taken) /\ ~InHand(taken) /\ taken \notin responses
  BY <1>2, PlacedParts
<1>4. /\ Distinct(requests')
      /\ \A p : In(requests', p) <=> In(requests, p) \/ p = taken
  BY <1>1, <1>2, <1>3, AppendOf, PlacedParts
<1>5. /\ \A p : Listed(p)' <=> In(requests', p)
      /\ \A p : InHand(p)' <=> InHand(p)
      /\ \A p : ~Fetched(p)'
  BY <1>1 DEF Listed, In, InHand, Fetched
<1>6. RequestOnce'
  BY <1>1, <1>3, <1>4, <1>5, PlacedParts DEF RequestOnce, Distinct
<1>. QED  BY <1>1, <1>2, <1>4, <1>5, <1>6, PlacedParts DEF Stays, Waits, Nowhere

LEMMA QuietPlaces ==
  ASSUME Placed, Quiet, responses' \subseteq responses,
         \A p : Fetched(p)' => Fetched(p)
  PROVE  RequestOnce' /\ \A p \in Queues : Stays(p)
<1>1. /\ \A p : Listed(p)' <=> Listed(p)
      /\ \A p : InHand(p)' <=> InHand(p)
  BY DEF Quiet, Listed, InHand
<1>2. RequestOnce'
  BY <1>1, PlacedParts DEF Quiet, RequestOnce, Distinct
<1>. QED  BY <1>1, <1>2 DEF Stays, Waits, Nowhere

LEMMA PlacesStep ==
  ASSUME Placed, [Next]_vars
  PROVE  RequestOnce' /\ \A p \in Queues : Stays(p) \/ StartInserts(p)
<1>. USE DEF lists, fileVars, serviceSide, serviceVars, stopVars
<1>1. ASSUME NEW q \in Queues,
             \/ StartSignals(q) \/ StartFails(q) \/ StopBegins(q)
             \/ StopFindsEmpty(q) \/ StopUnlists(q) \/ RequestThread(q)
      PROVE  /\ Quiet /\ responses' \subseteq responses
             /\ UNCHANGED <<service, taken>>
  BY <1>1
  DEF StartSignals, StartFails, StopBegins, StopFindsEmpty, StopUnlists, RequestThread,
      DialogEnds, PollEnds, PutsResponse, Ends, Quiet
<1>2. ASSUME \/ ServiceWakes \/ ServiceFindsEmpty \/ ServiceCannotFetch
             \/ ServiceDrops \/ ServiceStartsThread \/ ServiceCounts \/ ServiceTests \/ ServiceCloses
      PROVE  Quiet /\ UNCHANGED responses /\ service' # "listing"
  BY <1>2
  DEF ServiceWakes, ServiceFindsEmpty, ServiceCannotFetch, ServiceDrops,
      ServiceStartsThread, ServiceCounts, ServiceTests, ServiceCloses, LeavesLoop,
      Serves, Quiet
<1>3. ASSUME StopThread \/ UNCHANGED vars
      PROVE  Quiet /\ UNCHANGED <<responses, service, taken>>
  BY <1>3 DEF StopThread, vars, Quiet
<1>4. ASSUME Quiet, responses' \subseteq responses,
             service' # "listing" \/ UNCHANGED <<service, taken>>
      PROVE  RequestOnce' /\ \A p \in Queues : Stays(p)
  BY <1>4, QuietPlaces DEF Fetched
<1>5. ASSUME NEW q \in Queues, StopPutsBack(q) \/ StopComesRound(q)
      PROVE  RequestOnce' /\ \A p \in Queues : Stays(p)
  BY <1>5, PutPlaces DEF StopPutsBack, StopComesRound
<1>6. ASSUME NEW q \in Queues, StartInserts(q)
      PROVE  RequestOnce' /\ \A p \in Queues : Stays(p) \/ StartInserts(p)
  BY <1>6, InsertPlaces
<1>. QED
  BY <1>1, <1>2, <1>3, <1>4, <1>5, <1>6, TakePlaces, FindPlaces, FetchPlaces, ListPlaces,
     RelistPlaces
  DEF Next, Stop, Service

\* The way of a file: each of its places is entered from the one before.
PhaseMoves(q) ==
    \/ phase'[q] = phase[q]
    \/ phase[q] = "new" /\ phase'[q] = "listed" /\ StartInserts(q)
    \/ phase[q] = "listed" /\ phase'[q] = "open"
    \/ phase[q] = "open" /\ phase'[q] = "rotating" /\ StopBegins(q)
    \/ /\ phase[q] = "rotating" /\ phase'[q] = "unlisting"
       /\ StopFindsEmpty(q) \/ StopComesRound(q) \/ StopFindsRequest(q)
    \/ phase[q] = "unlisting" /\ phase'[q] = "stopped" /\ StopUnlists(q)

LEMMA PhaseStep ==
  ASSUME TypeOK, [Next]_vars
  PROVE  \A p \in Queues : PhaseMoves(p)
<1>. USE DEF TypeOK, PhaseMoves
<1>1. ASSUME NEW q \in Queues, NEW place,
             phase' = [phase EXCEPT ![q] = place], phase'[q] = place => PhaseMoves(q)
      PROVE  \A p \in Queues : PhaseMoves(p)
  BY <1>1
<1>2. ASSUME NEW q \in Queues, StartInserts(q) \/ StartSignals(q) \/ StartFails(q)
      PROVE  \A p \in Queues : PhaseMoves(p)
  BY <1>1, <1>2 DEF StartInserts, StartSignals, StartFails, Becomes
<1>3. ASSUME NEW q \in Queues, StopBegins(q) \/ StopFindsEmpty(q) \/ StopUnlists(q)
      PROVE  \A p \in Queues : PhaseMoves(p)
  BY <1>1, <1>3 DEF StopBegins, StopFindsEmpty, StopUnlists, Becomes
<1>4. ASSUME NEW q \in Queues, StopComesRound(q) \/ StopFindsRequest(q)
      PROVE  \A p \in Queues : PhaseMoves(p)
  <2>1. hand[q] # NoQueue
    BY <1>4, NoQueueAssumption DEF StopComesRound, StopFindsRequest, PutBack
  <2>2. phase[q] = "rotating"
    BY <2>1
  <2>. QED  BY <1>1, <1>4, <2>2 DEF StopComesRound, StopFindsRequest, Becomes
<1>5. ASSUME NEW q \in Queues, StopTakes(q) \/ StopPutsBack(q) \/ RequestThread(q)
      PROVE  UNCHANGED phase
  BY <1>5
  DEF StopTakes, StopPutsBack, RequestThread, DialogEnds, PollEnds, PutsResponse, Ends,
      fileVars
<1>6. ASSUME Service \/ StopThread \/ UNCHANGED vars
      PROVE  UNCHANGED phase
  BY <1>6
  DEF Service, ServiceWakes, ServiceFetches, ServiceFindsEmpty, ServiceCannotFetch,
      ServiceLists, ServiceDrops, ServiceRelists, ServiceStartsThread, ServiceCounts,
      ServiceTests, ServiceCloses, StopThread, fileVars, vars
<1>. QED  BY <1>2, <1>3, <1>4, <1>5, <1>6 DEF Next, Stop

LEMMA NewUnlistedStep ==
  ASSUME Placed, [Next]_vars
  PROVE  NewUnlisted'
<1>. SUFFICES ASSUME NEW q \in Queues, phase'[q] = "new" PROVE Nowhere(q)'
  BY DEF NewUnlisted
<1>1. phase[q] = "new" /\ ~StartInserts(q)
  <2>1. ~StartInserts(q)
    BY DEF StartInserts, Becomes, Placed, TypeOK
  <2>. QED  BY <2>1, PhaseStep DEF PhaseMoves, Placed
<1>. QED  BY <1>1, PlacesStep DEF Placed, NewUnlisted, Stays

LEMMA PlacedStep == Placed /\ [Next]_vars => Placed'
  BY PlacesStep, NewUnlistedStep, TypeStep DEF Placed

LEMMA PlacedInit == Init => Placed
<1>. SUFFICES ASSUME Init PROVE RequestOnce /\ NewUnlisted
  BY TypeInit DEF Placed
<1>1. requests = <<>> /\ responses = {} /\ service = "testing"
  BY DEF Init
<1>2. \A q \in Queues : hand[q] = NoQueue
  BY DEF Init
<1>3. \A q \in Queues : ~Listed(q) /\ ~InHand(q) /\ ~Fetched(q)
  BY <1>1, <1>2, NoQueueAssumption DEF Listed, InHand, Fetched
<1>. QED  BY <1>1, <1>2, <1>3 DEF RequestOnce, NewUnlisted, Nowhere

(* A request is in one place at most: no interleaving of the Stops that turn *)
(* the list over with the service that fetches from it duplicates one.       *)
THEOREM RequestOnceCorrect == Spec => [](RequestOnce /\ NewUnlisted)
<1>1. Placed => RequestOnce /\ NewUnlisted
  BY DEF Placed
<1>. QED  BY PlacedInit, PlacedStep, <1>1, PTL DEF Spec

-----------------------------------------------------------------------------
(* The answer finds its queue.                                               *)

\* What each step does with the request threads.
ThreadMoves ==
    \/ UNCHANGED <<service, taken, thread>>
    \/ /\ UNCHANGED <<taken, thread>>
       /\ service \notin {"listing", "starting", "counting"}
       /\ service' \notin {"listing", "starting", "counting"}
    \/ ServiceFetches /\ service' = "listing" /\ UNCHANGED thread
    \/ ServiceLists /\ service' = "starting" /\ UNCHANGED <<taken, thread>>
    \/ service = "listing" /\ service' = "testing" /\ UNCHANGED thread
    \/ /\ service = "starting" /\ service' = "counting" /\ UNCHANGED taken
       /\ \/ \E place \in {"asking", "polling", "running"} :
                thread' = [thread EXCEPT ![taken] = place]
          \/ UNCHANGED thread
    \/ service = "counting" /\ service' = "fetching" /\ UNCHANGED thread
    \/ /\ UNCHANGED <<service, taken>>
       /\ \E q \in Queues : RequestThread(q)

LEMMA ThreadStep ==
  ASSUME TypeOK, [Next]_vars
  PROVE  ThreadMoves
<1>. USE DEF ThreadMoves, serviceSide, serviceVars, stopVars
<1>1. ASSUME NEW q \in Queues,
             StartInserts(q) \/ StartSignals(q) \/ StartFails(q) \/ StopBegins(q) \/ Stop(q)
      PROVE  UNCHANGED <<service, taken, thread>>
  BY <1>1
  DEF StartInserts, StartSignals, StartFails, StopBegins, Stop, StopTakes,
      StopFindsEmpty, StopPutsBack, StopComesRound, StopFindsRequest, StopUnlists, PutBack
<1>2. ASSUME NEW q \in Queues, RequestThread(q)
      PROVE  UNCHANGED <<service, taken>>
  BY <1>2 DEF RequestThread, DialogEnds, PollEnds, PutsResponse, Ends
<1>3. CASE \/ ServiceWakes \/ ServiceFindsEmpty \/ ServiceCannotFetch \/ ServiceTests
           \/ ServiceCloses
  BY <1>3
  DEF ServiceWakes, ServiceFindsEmpty, ServiceCannotFetch, ServiceTests, ServiceCloses,
      LeavesLoop, Serves
<1>4. CASE \/ ServiceFetches \/ ServiceLists \/ ServiceDrops \/ ServiceRelists
           \/ ServiceCounts
  BY <1>4
  DEF ServiceFetches, ServiceLists, ServiceDrops, ServiceRelists, ServiceCounts,
      LeavesLoop, Serves
<1>5. CASE ServiceStartsThread
  BY <1>5 DEF ServiceStartsThread, Serves
<1>6. CASE StopThread \/ UNCHANGED vars
  BY <1>6 DEF StopThread, vars
<1>. QED
  BY <1>1, <1>2, <1>3, <1>4, <1>5, <1>6 DEF Next, Service

LEMMA RequestThreadMoves ==
  ASSUME TypeOK, NEW q \in Queues, RequestThread(q)
  PROVE  /\ thread[q] # "none"
         /\ \A p \in Queues : p # q => thread'[p] = thread[p]
         /\ Unanswered(q)' => Unanswered(q)
         /\ UNCHANGED <<service, taken>>
  BY DEF RequestThread, DialogEnds, PollEnds, PutsResponse, Ends, Unanswered,
         serviceVars, TypeOK

LEMMA BegunMoves ==
  ASSUME TypeOK, [Next]_vars
  PROVE  \A p \in Queues : Begun(p)' => Begun(p) \/ Fetched(p)
<1>. SUFFICES ASSUME NEW p \in Queues, Begun(p)' PROVE Begun(p) \/ Fetched(p)
  OBVIOUS
<1>1. CASE \E q \in Queues : RequestThread(q)
  BY <1>1, RequestThreadMoves DEF Begun
<1>2. CASE UNCHANGED thread
  BY <1>2, ThreadStep DEF ThreadMoves, Begun, Fetched, ServiceLists
<1>3. CASE /\ service = "starting" /\ UNCHANGED taken
           /\ \E place : thread' = [thread EXCEPT ![taken] = place]
  <2>1. p # taken => thread'[p] = thread[p]
    BY <1>3 DEF TypeOK
  <2>. QED  BY <1>3, <2>1 DEF Begun
<1>. QED  BY <1>1, <1>2, <1>3, ThreadStep DEF ThreadMoves

LEMMA BegunOnceStep ==
  ASSUME Placed, BegunOnce, [Next]_vars
  PROVE  BegunOnce'
<1>1. ASSUME NEW p \in Queues, Begun(p)'
      PROVE  phase'[p] # "new" /\ ~Listed(p)' /\ ~InHand(p)' /\ ~Fetched(p)'
  <2>1. phase[p] # "new" /\ ~StartInserts(p)
    BY <1>1, BegunMoves DEF BegunOnce, Placed, NewUnlisted, Nowhere, StartInserts
  <2>2. phase'[p] # "new"
    BY <2>1, PhaseStep DEF PhaseMoves, Placed
  <2>3. CASE Begun(p)
    BY <2>1, <2>2, <2>3, PlacesStep DEF BegunOnce, Stays, Waits
  <2>4. CASE ~Begun(p)
    <3>1. Fetched(p)
      BY <1>1, <2>4, BegunMoves DEF Placed
    <3>2. ServiceLists
      BY <1>1, <2>4, <3>1, ThreadStep, RequestThreadMoves
      DEF Placed, ThreadMoves, Begun, Fetched
    <3>3. Quiet /\ service' = "starting"
      BY <3>2 DEF ServiceLists, Serves, Quiet, fileVars
    <3>4. ~Listed(p) /\ ~InHand(p)
      BY <3>1, PlacedParts
    <3>. QED  BY <2>2, <3>3, <3>4 DEF Quiet, Listed, InHand, Fetched
  <2>. QED  BY <2>3, <2>4
<1>2. ASSUME service' = "starting" PROVE thread'[taken'] = "none"
  <2>1. CASE service = "starting"
    <3>1. taken \in Queues /\ taken' = taken /\ thread[taken] = "none"
      BY <1>2, <2>1, ThreadStep DEF ThreadMoves, ServiceLists, Placed, TypeOK, BegunOnce
    <3>. QED
      BY <1>2, <2>1, <3>1, ThreadStep, RequestThreadMoves
      DEF ThreadMoves, ServiceLists, Placed
  <2>2. CASE service # "starting"
    <3>1. service = "listing" /\ UNCHANGED <<taken, thread>>
      BY <1>2, <2>2, ThreadStep DEF ThreadMoves, ServiceLists, Placed
    <3>2. Fetched(taken) /\ taken \in Queues
      BY <3>1, NoQueueAssumption DEF Fetched, Placed, TypeOK
    <3>3. ~Begun(taken)
      BY <3>2 DEF BegunOnce
    <3>. QED  BY <3>1, <3>3 DEF Begun
  <2>. QED  BY <2>1, <2>2
<1>. QED  BY <1>1, <1>2 DEF BegunOnce

\* A response entry is freed by its queue's Stop or by its answer.
LEMMA ResponseMoves ==
  ASSUME TypeOK, [Next]_vars, NEW q \in Queues, q \in responses \/ phase[q] = "stopped"
  PROVE  q \in responses' \/ phase'[q] = "stopped" \/ PutsResponse(q)
<1>. SUFFICES ASSUME q \in responses PROVE q \in responses' \/ phase'[q] = "stopped" \/ PutsResponse(q)
  BY PhaseStep DEF PhaseMoves
<1>. USE DEF lists, fileVars, serviceSide, serviceVars, stopVars
<1>1. ASSUME NEW p \in Queues,
             \/ StartInserts(p) \/ StartSignals(p) \/ StartFails(p) \/ StopBegins(p)
             \/ StopTakes(p) \/ StopFindsEmpty(p) \/ StopPutsBack(p)
             \/ StopComesRound(p) \/ StopFindsRequest(p)
             \/ DialogEnds(p) \/ PollEnds(p) \/ Ends(p)
      PROVE  UNCHANGED responses
  BY <1>1
  DEF StartInserts, StartSignals, StartFails, StopBegins, StopTakes, StopFindsEmpty,
      StopPutsBack, StopComesRound, StopFindsRequest, PutBack, DialogEnds, PollEnds,
      Ends
<1>2. ASSUME NEW p \in Queues, StopUnlists(p)
      PROVE  q \in responses' \/ phase'[q] = "stopped"
  BY <1>2 DEF StopUnlists, Becomes, TypeOK
<1>3. ASSUME NEW p \in Queues, PutsResponse(p)
      PROVE  q \in responses' \/ p = q
  BY <1>3 DEF PutsResponse
<1>4. CASE Service \/ StopThread \/ UNCHANGED vars
  BY <1>4
  DEF Service, ServiceWakes, ServiceFetches, ServiceFindsEmpty, ServiceCannotFetch,
      ServiceLists, ServiceDrops, ServiceRelists, ServiceStartsThread, ServiceCounts,
      ServiceTests, ServiceCloses, StopThread, vars
<1>. QED  BY <1>1, <1>2, <1>3, <1>4 DEF Next, Stop, RequestThread

LEMMA ListedFirstStep ==
  ASSUME Placed, BegunOnce, ListedFirst, [Next]_vars
  PROVE  ListedFirst'
<1>. SUFFICES ASSUME service' = "starting"
              PROVE  taken' \in responses' \/ phase'[taken'] = "stopped"
  BY DEF ListedFirst
<1>1. CASE service = "starting"
  <2>1. taken \in Queues /\ taken' = taken /\ thread[taken] = "none"
    BY <1>1, ThreadStep DEF ThreadMoves, ServiceLists, Placed, TypeOK, BegunOnce
  <2>2. ~PutsResponse(taken)
    BY <2>1 DEF PutsResponse
  <2>. QED  BY <1>1, <2>1, <2>2, ResponseMoves DEF ListedFirst, Placed
<1>2. CASE service # "starting"
  <2>1. ServiceLists
    BY <1>2, ThreadStep DEF ThreadMoves, Placed
  <2>. QED  BY <2>1 DEF ServiceLists
<1>. QED  BY <1>1, <1>2

LEMMA AnswerFindsQueueStep ==
  ASSUME Placed, ListedFirst, AnswerFindsQueue, [Next]_vars
  PROVE  AnswerFindsQueue'
<1>. SUFFICES ASSUME NEW q \in Queues, Unanswered(q)'
              PROVE  q \in responses' \/ phase'[q] = "stopped"
  BY DEF AnswerFindsQueue
<1>1. ~PutsResponse(q)
  BY DEF PutsResponse, Unanswered, Placed, TypeOK
<1>2. Unanswered(q) \/ (service = "starting" /\ taken = q)
  <2>1. ASSUME NEW p \in Queues, RequestThread(p)
        PROVE  Unanswered(q)
    BY <2>1, RequestThreadMoves DEF Unanswered, Placed
  <2>2. ASSUME NEW place, service = "starting", thread' = [thread EXCEPT ![taken] = place]
        PROVE  Unanswered(q) \/ taken = q
    BY <2>2 DEF Unanswered, Placed, TypeOK
  <2>3. CASE UNCHANGED thread
    BY <2>3 DEF Unanswered
  <2>. QED  BY <2>1, <2>2, <2>3, ThreadStep DEF ThreadMoves, Placed
<1>3. q \in responses \/ phase[q] = "stopped"
  BY <1>2 DEF ListedFirst, AnswerFindsQueue
<1>. QED  BY <1>1, <1>3, ResponseMoves DEF Placed

Answered == Placed /\ BegunOnce /\ ListedFirst /\ AnswerFindsQueue

LEMMA AnsweredInit == Init => Answered
<1>. SUFFICES ASSUME Init PROVE BegunOnce /\ ListedFirst /\ AnswerFindsQueue
  BY PlacedInit DEF Answered
<1>1. service = "testing" /\ \A q \in Queues : thread[q] = "none"
  BY DEF Init
<1>. QED  BY <1>1 DEF BegunOnce, Begun, ListedFirst, AnswerFindsQueue, Unanswered

LEMMA AnsweredStep == Answered /\ [Next]_vars => Answered'
  BY PlacedStep, BegunOnceStep, ListedFirstStep, AnswerFindsQueueStep DEF Answered

(* The service begins a request once, with the response entry listed, and    *)
(* the answer finds that entry unless its queue has been stopped.            *)
THEOREM AnswerFindsQueueCorrect == Spec => [](BegunOnce /\ ListedFirst /\ AnswerFindsQueue)
<1>1. Answered => BegunOnce /\ ListedFirst /\ AnswerFindsQueue
  BY DEF Answered
<1>. QED  BY AnsweredInit, AnsweredStep, <1>1, PTL DEF Spec

-----------------------------------------------------------------------------
(* The count of the request threads.                                         *)

\* By how much the count, or what it is about to be, is above the threads.
Surplus == count + (IF service = "counting" THEN 1 ELSE 0) - Cardinality(Active)

\* The count goes with the threads, but for one that was not created.
LEMMA SurplusStep ==
  ASSUME Placed, BegunOnce, IsFiniteSet(Active), [Next]_vars
  PROVE  /\ IsFiniteSet(Active') /\ Surplus \in Int /\ Surplus' \in Int
         /\ Surplus' = Surplus \/ (Surplus' = Surplus + 1 /\ lost' # {})
         /\ lost \subseteq lost'
<1>. DEFINE behind == IF service = "counting" THEN 1 ELSE 0
            behindNext == IF service' = "counting" THEN 1 ELSE 0
            Result == /\ IsFiniteSet(Active') /\ Surplus' \in Int
                      /\ Surplus' = Surplus \/ (Surplus' = Surplus + 1 /\ lost' # {})
                      /\ lost \subseteq lost'
<1>0. Placed' /\ count' \in Int
  BY PlacedStep DEF Placed, TypeOK
<1>1. /\ Cardinality(Active) \in Nat
      /\ count \in Int /\ behind \in {0, 1} /\ behindNext \in {0, 1}
  BY FS_CardinalityType DEF Placed, TypeOK
<1>2. /\ Surplus = count + behind - Cardinality(Active)
      /\ Surplus' = count' + behindNext - Cardinality(Active')
      /\ Surplus \in Int
  BY <1>1 DEF Surplus
<1>3. ASSUME UNCHANGED thread, count' + behindNext = count + behind, lost \subseteq lost'
      PROVE  Result
  <2>1. Active' = Active
    BY <1>3 DEF Active
  <2>2. Surplus' = Surplus
    <3>1. PICK n \in Int, m \in Int, b \in Int, c \in Int, k \in Int :
             /\ n = count /\ m = count' /\ b = behind /\ c = behindNext
             /\ k = Cardinality(Active)
      <4>1. behind \in Int /\ behindNext \in Int /\ Cardinality(Active) \in Int
        BY <1>1
      <4>. QED  BY <1>0, <1>1, <4>1
    <3>2. m + c = n + b
      BY <1>3, <3>1
    <3>3. Surplus = n + b - k /\ Surplus' = m + c - k
      BY <1>2, <2>1, <3>1
    <3>. QED  BY <3>2, <3>3
  <2>. QED  BY <1>2, <1>3, <2>1, <2>2
<1>4. ASSUME NEW q \in Queues, DialogEnds(q) \/ PollEnds(q) \/ PutsResponse(q)
      PROVE  Result
  <2>1. Active' = Active
    BY <1>4 DEF DialogEnds, PollEnds, PutsResponse, Active, Placed, TypeOK
  <2>2. count' = count /\ behindNext = behind /\ lost' = lost
    BY <1>4 DEF DialogEnds, PollEnds, PutsResponse, serviceVars, history
  <2>. QED  BY <1>1, <1>2, <2>1, <2>2
<1>5. ASSUME NEW q \in Queues, Ends(q) PROVE Result
  <2>1. q \in Active /\ Active' = Active \ {q}
    BY <1>5 DEF Ends, Active, Placed, TypeOK
  <2>2. count' = count - 1 /\ behindNext = behind /\ lost' = lost
    BY <1>5 DEF Ends, history
  <2>3. IsFiniteSet(Active \ {q}) /\ Cardinality(Active \ {q}) = Cardinality(Active) - 1
    BY <2>1, FS_RemoveElement
  <2>. QED  BY <1>1, <1>2, <2>1, <2>2, <2>3
<1>6. ASSUME ServiceStartsThread PROVE Result
  <2>1. taken \in Queues /\ thread[taken] = "none" /\ count' = count
    BY <1>6 DEF ServiceStartsThread, BegunOnce, Placed, TypeOK
  <2>2. behind = 0 /\ behindNext = 1
    BY <1>6 DEF ServiceStartsThread, Serves
  <2>3. CASE UNCHANGED thread /\ lost' = lost \cup {taken}
    <3>1. Active' = Active
      BY <2>3 DEF Active
    <3>. QED  BY <1>1, <1>2, <2>1, <2>2, <2>3, <3>1
  <2>4. CASE /\ \E place \in {"asking", "polling", "running"} :
                  thread' = [thread EXCEPT ![taken] = place]
             /\ UNCHANGED lost
    <3>1. taken \notin Active /\ Active' = Active \cup {taken}
      BY <2>1, <2>4 DEF Active, Placed, TypeOK
    <3>2. /\ IsFiniteSet(Active \cup {taken})
          /\ Cardinality(Active \cup {taken}) = Cardinality(Active) + 1
      BY <3>1, FS_AddElement
    <3>. QED  BY <1>1, <1>2, <2>1, <2>2, <2>4, <3>1, <3>2
  <2>. QED  BY <1>6, <2>3, <2>4 DEF ServiceStartsThread
<1>7. ASSUME NEW q \in Queues,
             StartInserts(q) \/ StartSignals(q) \/ StartFails(q) \/ StopBegins(q) \/ Stop(q)
      PROVE  /\ UNCHANGED thread /\ count' + behindNext = count + behind
             /\ lost \subseteq lost'
  BY <1>7
  DEF StartInserts, StartSignals, StartFails, StopBegins, Stop, StopTakes,
      StopFindsEmpty, StopPutsBack, StopComesRound, StopFindsRequest, StopUnlists,
      PutBack, serviceSide, serviceVars, history
<1>8. ASSUME ServiceCounts
      PROVE  /\ UNCHANGED thread /\ count' + behindNext = count + behind
             /\ lost \subseteq lost'
  BY <1>1, <1>8 DEF ServiceCounts, Serves, history
<1>9. ASSUME \/ ServiceWakes \/ ServiceFetches \/ ServiceFindsEmpty
             \/ ServiceCannotFetch \/ ServiceLists \/ ServiceDrops \/ ServiceRelists
             \/ ServiceTests \/ ServiceCloses
      PROVE  /\ UNCHANGED thread /\ count' + behindNext = count + behind
             /\ lost \subseteq lost'
  <2>1. ASSUME ServiceWakes \/ ServiceLists
        PROVE  /\ UNCHANGED <<thread, count>> /\ service # "counting"
               /\ service' # "counting" /\ lost \subseteq lost'
    BY <2>1 DEF ServiceWakes, ServiceLists, Serves, history
  <2>2. ASSUME ServiceFetches \/ ServiceCloses
        PROVE  /\ UNCHANGED <<thread, count>> /\ service # "counting"
               /\ service' # "counting" /\ lost \subseteq lost'
    BY <2>2 DEF ServiceFetches, ServiceCloses, Serves, history
  <2>3. ASSUME ServiceTests
        PROVE  /\ UNCHANGED <<thread, count>> /\ service # "counting"
               /\ service' # "counting" /\ lost \subseteq lost'
    BY <2>3 DEF ServiceTests, Serves, history
  <2>4. ASSUME ServiceFindsEmpty \/ ServiceCannotFetch \/ ServiceDrops \/ ServiceRelists
        PROVE  /\ UNCHANGED <<thread, count>> /\ service # "counting"
               /\ service' # "counting" /\ lost \subseteq lost'
    BY <2>4
    DEF ServiceFindsEmpty, ServiceCannotFetch, ServiceDrops, ServiceRelists, LeavesLoop,
        Serves
  <2>. QED  BY <1>9, <2>1, <2>2, <2>3, <2>4
<1>10. ASSUME StopThread \/ UNCHANGED vars
       PROVE  /\ UNCHANGED thread /\ count' + behindNext = count + behind
              /\ lost \subseteq lost'
  BY <1>10 DEF StopThread, serviceSide, serviceVars, history, vars
<1>. HIDE DEF behind, behindNext
<1>11. Result
  <2>. HIDE DEF Result
  <2>. QED
    BY <1>3, <1>4, <1>5, <1>6, <1>7, <1>8, <1>9, <1>10
    DEF Next, Service, RequestThread
<1>. QED  BY <1>2, <1>11

LEMMA CountCoversStep ==
  ASSUME Placed, BegunOnce, CountCovers, [Next]_vars
  PROVE  CountCovers'
<1>1. IsFiniteSet(Active) /\ IsFiniteSet(Active')
  BY SurplusStep DEF CountCovers
<1>2. /\ Cardinality(Active) \in Nat /\ Cardinality(Active') \in Nat
      /\ count \in Int /\ count' \in Int
  BY <1>1, FS_CardinalityType, PlacedStep DEF Placed, TypeOK
<1>3. Surplus >= 0
  BY <1>2 DEF Surplus, CountCovers
<1>4. Surplus' >= 0
  BY <1>1, <1>3, SurplusStep
<1>. QED  BY <1>1, <1>2, <1>4 DEF Surplus, CountCovers

LEMMA ServiceOutlivesThreadsStep ==
  ASSUME Placed, CountCovers, ServiceOutlivesThreads, [Next]_vars
  PROVE  ServiceOutlivesThreads'
<1>. SUFFICES ASSUME service' = "closed", NEW q \in Queues PROVE thread'[q] = "none"
  BY DEF ServiceOutlivesThreads
<1>1. CASE service = "closed"
  <2>1. thread[q] = "none" /\ \A p \in Queues : ~RequestThread(p)
    BY <1>1, RequestThreadMoves DEF ServiceOutlivesThreads, Placed
  <2>. QED  BY <1>1, <2>1, ThreadStep DEF ThreadMoves, ServiceLists, Placed
<1>2. CASE service # "closed"
  <2>1. ServiceCloses
    BY <1>2 DEF Placed, TypeOK, Next, StartInserts, StartSignals, StartFails, StopBegins,
       Stop, StopTakes, StopFindsEmpty, StopPutsBack, StopComesRound, StopFindsRequest,
       StopUnlists, PutBack, RequestThread, DialogEnds, PollEnds, PutsResponse, Ends,
       Service, ServiceWakes, ServiceFetches, ServiceFindsEmpty, ServiceCannotFetch,
       ServiceLists, ServiceDrops, ServiceRelists, ServiceStartsThread, ServiceCounts,
       ServiceTests, StopThread, LeavesLoop, Serves, serviceSide, serviceVars, vars
  <2>2. service = "draining" /\ count <= 0 /\ UNCHANGED thread
    BY <2>1 DEF ServiceCloses
  <2>3. IsFiniteSet(Active) /\ Cardinality(Active) <= 0
    BY <2>2, FS_CardinalityType DEF CountCovers, Placed, TypeOK
  <2>4. Active = {}
    BY <2>3, FS_CardinalityType, FS_EmptySet
  <2>. QED  BY <2>2, <2>4 DEF Active, Placed, TypeOK
<1>. QED  BY <1>1, <1>2

Counted == Answered /\ CountCovers /\ ServiceOutlivesThreads

LEMMA CountedInit == Init => Counted
<1>. SUFFICES ASSUME Init PROVE CountCovers /\ ServiceOutlivesThreads
  BY AnsweredInit DEF Counted
<1>1. service = "testing" /\ count = 0 /\ Active = {}
  BY DEF Init, Active
<1>. QED  BY <1>1, FS_EmptySet DEF CountCovers, ServiceOutlivesThreads

LEMMA CountedStep == Counted /\ [Next]_vars => Counted'
  BY AnsweredStep, CountCoversStep, ServiceOutlivesThreadsStep DEF Counted, Answered

(* The service closes its handle of the driver only after its last request   *)
(* thread has ended, although each is counted only after it was started.     *)
THEOREM ServiceOutlivesThreadsCorrect == Spec => [](CountCovers /\ ServiceOutlivesThreads)
<1>1. Counted => CountCovers /\ ServiceOutlivesThreads
  BY DEF Counted
<1>. QED  BY CountedInit, CountedStep, <1>1, PTL DEF Spec

-----------------------------------------------------------------------------
(* A Stop that nobody meets.                                                 *)

LEMMA AloneStep ==
  ASSUME [Next]_vars, ~ServiceFetches, \A q \in Queues : ~StopBegins(q)
  PROVE  UNCHANGED alone
<1>1. ASSUME NEW q \in Queues,
             StartInserts(q) \/ StartSignals(q) \/ StartFails(q) \/ Stop(q)
      PROVE  UNCHANGED alone
  BY <1>1
  DEF StartInserts, StartSignals, StartFails, Stop, StopTakes, StopFindsEmpty,
      StopPutsBack, StopComesRound, StopFindsRequest, StopUnlists, PutBack, history
<1>2. ASSUME NEW q \in Queues, RequestThread(q)
      PROVE  UNCHANGED alone
  BY <1>2 DEF RequestThread, DialogEnds, PollEnds, PutsResponse, Ends, history
<1>3. CASE \/ ServiceWakes \/ ServiceFindsEmpty \/ ServiceCannotFetch \/ ServiceLists
           \/ ServiceDrops \/ ServiceRelists
  BY <1>3
  DEF ServiceWakes, ServiceFindsEmpty, ServiceCannotFetch, ServiceLists, ServiceDrops,
      ServiceRelists, history
<1>4. CASE ServiceStartsThread \/ ServiceCounts \/ ServiceTests \/ ServiceCloses
  BY <1>4 DEF ServiceStartsThread, ServiceCounts, ServiceTests, ServiceCloses, history
<1>5. CASE StopThread \/ UNCHANGED vars
  BY <1>5 DEF StopThread, history, vars
<1>. QED  BY <1>1, <1>2, <1>3, <1>4, <1>5 DEF Next, Service

LEMMA LoneStopsStep ==
  ASSUME Placed, LoneStops, [Next]_vars
  PROVE  LoneStops'
<1>. SUFFICES ASSUME NEW q \in Queues, Stopping(q)', alone'[q]
              PROVE  taken' = NoQueue /\ \A p \in Queues : Stopping(p)' => p = q
  BY DEF LoneStops
<1>1. \A p \in Queues : Stopping(p)' => Stopping(p) \/ StopBegins(p)
  BY PhaseStep DEF PhaseMoves, Stopping, Placed
<1>2. ASSUME NEW r \in Queues, StopBegins(r)
      PROVE  taken' = NoQueue /\ \A p \in Queues : Stopping(p)' => p = q
  <2>1. \A p \in Queues : Stopping(p)' => p = r \/ Stopping(p)
    BY <1>2 DEF StopBegins, Becomes, Stopping, Placed, TypeOK
  <2>2. alone'[q] = IF q = r THEN taken = NoQueue /\ \A p \in Queues : ~Stopping(p)
                             ELSE alone[q] /\ ~Stopping(q)
    BY <1>2, Zenon DEF StopBegins
  <2>3. q = r /\ taken = NoQueue /\ \A p \in Queues : ~Stopping(p)
    BY <2>1, <2>2
  <2>. QED  BY <1>2, <2>1, <2>3 DEF StopBegins, serviceSide, serviceVars
<1>3. ~ServiceFetches
  <2>. SUFFICES ASSUME ServiceFetches PROVE FALSE
    OBVIOUS
  <2>1. alone'[q] = (alone[q] /\ ~Stopping(q)) /\ UNCHANGED phase
    BY Zenon DEF ServiceFetches, fileVars
  <2>. QED  BY <2>1 DEF Stopping
<1>4. ASSUME \A r \in Queues : ~StopBegins(r)
      PROVE  taken' = NoQueue /\ \A p \in Queues : Stopping(p)' => p = q
  <2>1. alone[q]
    BY <1>3, <1>4, AloneStep
  <2>2. taken = NoQueue /\ \A p \in Queues : Stopping(p) => p = q
    BY <1>1, <1>4, <2>1 DEF LoneStops
  <2>3. service \notin {"listing", "starting", "counting"}
    BY <2>2 DEF Placed, TypeOK
  <2>4. service' \notin {"listing", "starting", "counting"}
    BY <1>3, <2>3, ThreadStep DEF ThreadMoves, ServiceLists, Placed
  <2>5. taken' = NoQueue
    BY <2>4, TypeStep DEF Placed, TypeOK
  <2>. QED  BY <1>1, <1>4, <2>2, <2>5
<1>. QED  BY <1>2, <1>4

\* f is in the sequence, and e is not behind it.
Behind(s, f, e) == \E k \in DOMAIN s : /\ s[k] = f
                                      /\ \A j \in DOMAIN s : j > k => s[j] # e

LEMMA BehindAppend ==
  ASSUME NEW S, NEW s \in Seq(S), NEW e, NEW f \in S, NEW g \in S, g # e,
         Behind(s, f, e)
  PROVE  Behind(Append(s, g), f, e)
<1>1. /\ Len(s) \in Nat
      /\ DOMAIN s = 1..Len(s)
      /\ DOMAIN Append(s, g) = 1..(Len(s) + 1)
      /\ Append(s, g)[Len(s) + 1] = g
      /\ \A k \in 1..Len(s) : Append(s, g)[k] = s[k]
  OBVIOUS
<1>2. PICK k \in DOMAIN s : s[k] = f /\ \A j \in DOMAIN s : j > k => s[j] # e
  BY DEF Behind
<1>3. k \in DOMAIN Append(s, g) /\ Append(s, g)[k] = f
  BY <1>1, <1>2
<1>4. \A j \in DOMAIN Append(s, g) : j > k => Append(s, g)[j] # e
  BY <1>1, <1>2
<1>. QED  BY <1>3, <1>4 DEF Behind

LEMMA BehindNew ==
  ASSUME NEW S, NEW s \in Seq(S), NEW e, NEW g \in S
  PROVE  Behind(Append(s, g), g, e)
<1>1. /\ Len(s) \in Nat
      /\ DOMAIN Append(s, g) = 1..(Len(s) + 1)
      /\ Append(s, g)[Len(s) + 1] = g
  OBVIOUS
<1>2. /\ Len(s) + 1 \in DOMAIN Append(s, g)
      /\ \A j \in DOMAIN Append(s, g) : ~(j > Len(s) + 1)
  BY <1>1
<1>. QED  BY <1>1, <1>2 DEF Behind

LEMMA BehindTail ==
  ASSUME NEW S, NEW s \in Seq(S), s # <<>>, NEW e, NEW f, Behind(s, f, e)
  PROVE  \/ Head(s) = f /\ ~In(Tail(s), e)
         \/ Behind(Tail(s), f, e)
<1>1. /\ Len(s) \in Nat /\ Len(s) > 0
      /\ Head(s) = s[1]
      /\ DOMAIN s = 1..Len(s)
      /\ DOMAIN Tail(s) = 1..(Len(s) - 1)
      /\ \A k \in 1..(Len(s) - 1) : Tail(s)[k] = s[k + 1]
  OBVIOUS
<1>2. PICK k \in DOMAIN s : s[k] = f /\ \A j \in DOMAIN s : j > k => s[j] # e
  BY DEF Behind
<1>3. \A j \in DOMAIN Tail(s) : j + 1 \in DOMAIN s /\ Tail(s)[j] = s[j + 1]
  BY <1>1
<1>4. CASE k = 1
  <2>1. \A j \in DOMAIN Tail(s) : j + 1 > k
    BY <1>1, <1>4
  <2>. QED  BY <1>1, <1>2, <1>3, <1>4, <2>1 DEF In
<1>5. CASE k # 1
  <2>1. k - 1 \in DOMAIN Tail(s) /\ Tail(s)[k - 1] = f
    BY <1>1, <1>2, <1>5
  <2>2. \A j \in DOMAIN Tail(s) : j > k - 1 => j + 1 > k
    BY <1>1, <1>2
  <2>. QED  BY <1>2, <1>3, <2>1, <2>2 DEF Behind
<1>. QED  BY <1>4, <1>5

\* While a Stop is alone, nothing moves under it but what a Start inserts.
LEMMA LoneMoves ==
  ASSUME Placed, LoneStops, [Next]_vars, NEW q \in Queues,
         Stopping(q), alone[q], alone'[q]
  PROVE  \/ UNCHANGED <<requests, hand, first>> /\ phase'[q] = phase[q]
         \/ \E p \in Queues : p # q /\ StartInserts(p)
         \/ Stop(q)
<1>1. taken = NoQueue /\ \A p \in Queues : Stopping(p) => p = q
  BY DEF LoneStops
<1>2. ~ServiceFetches
  <2>. SUFFICES ASSUME ServiceFetches PROVE FALSE
    OBVIOUS
  <2>1. alone'[q] = (alone[q] /\ ~Stopping(q))
    BY Zenon DEF ServiceFetches
  <2>. QED  BY <2>1
<1>3. \A p \in Queues : ~StopBegins(p)
  <2>. SUFFICES ASSUME NEW p \in Queues, StopBegins(p) PROVE FALSE
    OBVIOUS
  <2>1. p # q
    BY DEF StopBegins, Stopping
  <2>2. alone'[q] = (alone[q] /\ ~Stopping(q))
    BY <2>1, Zenon DEF StopBegins
  <2>. QED  BY <2>2
<1>4. ASSUME NEW p \in Queues, Stop(p) PROVE p = q
  <2>1. phase[p] \in {"rotating", "unlisting"}
    BY <1>4, NoQueueAssumption
    DEF Stop, StopTakes, StopFindsEmpty, StopPutsBack, StopComesRound, StopFindsRequest,
        StopUnlists, PutBack, Placed, TypeOK
  <2>. QED  BY <1>1, <2>1 DEF Stopping
<1>5. ASSUME NEW p \in Queues, StartInserts(p) PROVE p # q
  BY <1>5 DEF StartInserts, Stopping
<1>6. ASSUME NEW p \in Queues, StartSignals(p) \/ StartFails(p)
      PROVE  UNCHANGED <<requests, hand, first>> /\ phase'[q] = phase[q]
  BY <1>6 DEF StartSignals, StartFails, Becomes, Stopping, lists, Placed, TypeOK
<1>7. ASSUME NEW p \in Queues, RequestThread(p)
      PROVE  UNCHANGED <<requests, hand, first, phase>>
  BY <1>7 DEF RequestThread, DialogEnds, PollEnds, PutsResponse, Ends, lists, fileVars
<1>8. ASSUME Service
      PROVE  UNCHANGED <<requests, hand, first, phase>>
  <2>0. ~ServiceRelists
    BY <1>1 DEF ServiceRelists, Placed, TypeOK
  <2>1. CASE \/ ServiceWakes \/ ServiceFindsEmpty \/ ServiceCannotFetch \/ ServiceLists
             \/ ServiceDrops
    BY <2>1
    DEF ServiceWakes, ServiceFindsEmpty, ServiceCannotFetch, ServiceLists, ServiceDrops,
        lists, fileVars
  <2>2. CASE ServiceStartsThread \/ ServiceCounts \/ ServiceTests \/ ServiceCloses
    BY <2>2
    DEF ServiceStartsThread, ServiceCounts, ServiceTests, ServiceCloses, lists, fileVars
  <2>. QED  BY <1>2, <1>8, <2>0, <2>1, <2>2 DEF Service
<1>9. ASSUME StopThread \/ UNCHANGED vars
      PROVE  UNCHANGED <<requests, hand, first, phase>>
  BY <1>9 DEF StopThread, lists, fileVars, vars
<1>. QED
  BY <1>3, <1>4, <1>5, <1>6, <1>7, <1>8, <1>9 DEF Next

\* LoneWalks, for one queue.
LoneWalk(q) ==
    /\ phase[q] = "rotating" /\ first[q] # NoQueue => first[q] # q /\ Compared(q)
    /\ phase[q] = "unlisting" => ~Listed(q) /\ ~InHand(q)

LEMMA ComparedBehind ==
  ASSUME NEW q \in Queues
  PROVE  Compared(q) <=> \/ hand[q] = first[q] /\ ~In(requests, q)
                         \/ Behind(requests, first[q], q)
  BY DEF Compared, Behind, In, Listed

LEMMA ComparedTake ==
  ASSUME Placed, NEW q \in Queues, LoneWalk(q), StopTakes(q), first[q] # NoQueue
  PROVE  first'[q] # q /\ Compared(q)'
<1>1. /\ requests # <<>> /\ requests' = Tail(requests) /\ phase[q] = "rotating"
      /\ hand[q] = NoQueue /\ hand'[q] = Head(requests) /\ first' = first
  BY DEF StopTakes, Placed, TypeOK
<1>2. first[q] # q /\ Behind(requests, first[q], q)
  BY <1>1, ComparedBehind DEF LoneWalk
<1>3. \/ Head(requests) = first[q] /\ ~In(Tail(requests), q)
      \/ Behind(Tail(requests), first[q], q)
  BY <1>1, <1>2, BehindTail, PlacedParts
<1>4. Compared(q)' <=> \/ hand'[q] = first'[q] /\ ~In(requests', q)
                       \/ Behind(requests', first'[q], q)
  BY DEF Compared, Behind, In, Listed
<1>. QED  BY <1>1, <1>2, <1>3, <1>4

LEMMA ComparedPut ==
  ASSUME Placed, NEW q \in Queues, LoneWalk(q), StopPutsBack(q)
  PROVE  first'[q] # q /\ Compared(q)'
<1>1. /\ requests' = Append(requests, hand[q])
      /\ hand[q] # NoQueue /\ hand[q] # q /\ hand[q] # first[q]
      /\ first'[q] = IF first[q] = NoQueue THEN hand[q] ELSE first[q]
  BY DEF StopPutsBack, PutBack, Placed, TypeOK
<1>2. /\ phase[q] = "rotating" /\ hand[q] \in Queues
      /\ first[q] \in Queues \cup {NoQueue} /\ requests \in Seq(Queues)
  BY <1>1 DEF Placed, TypeOK
<1>3. Compared(q)' <=> \/ hand'[q] = first'[q] /\ ~In(requests', q)
                       \/ Behind(requests', first'[q], q)
  BY DEF Compared, Behind, In, Listed
<1>4. CASE first[q] = NoQueue
  BY <1>1, <1>2, <1>3, <1>4, BehindNew
<1>5. CASE first[q] # NoQueue
  <2>1. first[q] # q /\ Behind(requests, first[q], q)
    BY <1>1, <1>2, <1>5, ComparedBehind DEF LoneWalk
  <2>. QED  BY <1>1, <1>2, <1>3, <1>5, <2>1, BehindAppend
<1>. QED  BY <1>4, <1>5

LEMMA ComparedInsert ==
  ASSUME Placed, NEW q \in Queues, NEW p \in Queues, p # q,
         LoneWalk(q), StartInserts(p)
  PROVE  LoneWalk(q)'
<1>1. /\ requests' = Append(requests, p) \/ requests' = requests
      /\ UNCHANGED <<hand, first>> /\ phase'[q] = phase[q]
  BY DEF StartInserts, Becomes, Placed, TypeOK
<1>2. Listed(q)' <=> Listed(q)
  <2>1. ~In(requests, p)
    BY PlacedParts DEF StartInserts, Placed, NewUnlisted, Nowhere
  <2>2. CASE requests' = Append(requests, p)
    <3>1. In(requests', q) <=> In(requests, q)
      BY <2>1, <2>2, AppendOf, PlacedParts
    <3>2. Listed(q)' <=> In(requests', q)
      BY DEF Listed, In
    <3>. QED  BY <3>1, <3>2, PlacedParts
  <2>3. CASE requests' = requests
    BY <2>3 DEF Listed
  <2>. QED  BY <1>1, <2>2, <2>3
<1>3. InHand(q)' <=> InHand(q)
  BY <1>1 DEF InHand
<1>4. ASSUME first[q] # NoQueue, Behind(requests, first[q], q)
      PROVE  Behind(requests', first[q], q)
  <2>1. first[q] \in Queues /\ requests \in Seq(Queues)
    BY <1>4 DEF Placed, TypeOK
  <2>2. CASE requests' = Append(requests, p)
    BY <1>4, <2>1, <2>2, BehindAppend
  <2>3. CASE requests' = requests
    BY <1>4, <2>3
  <2>. QED  BY <1>1, <2>2, <2>3
<1>5. Compared(q)' <=> \/ hand'[q] = first'[q] /\ ~Listed(q)'
                       \/ Behind(requests', first'[q], q)
  BY DEF Compared, Behind, Listed
<1>6. first[q] # NoQueue /\ Compared(q) => Compared(q)'
  BY <1>1, <1>2, <1>4, <1>5, ComparedBehind, PlacedParts
<1>. QED  BY <1>1, <1>2, <1>3, <1>6 DEF LoneWalk

LEMMA LoneWalkEnds ==
  ASSUME Placed, LoneStops, NEW q \in Queues, alone[q], phase[q] = "rotating",
         LoneWalk(q), StopFindsEmpty(q) \/ StopComesRound(q) \/ StopFindsRequest(q)
  PROVE  ~Listed(q)' /\ ~InHand(q)'
<1>1. \A p \in Queues : p # q => hand[p] = NoQueue
  BY DEF LoneStops, Stopping, Placed, TypeOK
<1>2. /\ hand'[q] = NoQueue
      /\ \A p \in Queues : p # q => hand'[p] = hand[p]
  BY DEF StopFindsEmpty, StopComesRound, StopFindsRequest, PutBack, Placed, TypeOK
<1>3. ~InHand(q)'
  BY <1>1, <1>2, NoQueueAssumption DEF InHand
<1>4. Listed(q)' <=> In(requests', q)
  BY DEF Listed, In
<1>5. CASE StopFindsEmpty(q)
  BY <1>3, <1>4, <1>5, EmptyOf DEF StopFindsEmpty, lists
<1>6. CASE StopFindsRequest(q)
  <2>1. InHand(q) /\ UNCHANGED requests
    BY <1>6 DEF StopFindsRequest, InHand, lists
  <2>. QED  BY <1>3, <1>4, <2>1, PlacedParts
<1>7. CASE StopComesRound(q)
  <2>1. /\ hand[q] # NoQueue /\ hand[q] = first[q] /\ hand[q] \in Queues
        /\ requests' = Append(requests, hand[q])
    BY <1>7 DEF StopComesRound, PutBack, Placed, TypeOK
  <2>2. ~In(requests, hand[q])
    BY <2>1, PlacedParts DEF InHand
  <2>3. ~Behind(requests, first[q], q)
    BY <2>1, <2>2 DEF Behind, In
  <2>4. first[q] # q /\ ~In(requests, q)
    BY <2>1, <2>3, ComparedBehind DEF LoneWalk
  <2>5. ~In(requests', q)
    BY <2>1, <2>2, <2>4, AppendOf, PlacedParts
  <2>. QED  BY <1>3, <1>4, <2>5
<1>. QED  BY <1>5, <1>6, <1>7

LEMMA AloneFalls ==
  ASSUME TypeOK, [Next]_vars, NEW q \in Queues, alone'[q], ~StopBegins(q)
  PROVE  alone[q]
<1>1. ASSUME NEW r \in Queues, StopBegins(r) PROVE alone[q]
  <2>1. alone'[q] = (alone[q] /\ ~Stopping(q))
    BY <1>1, Zenon DEF StopBegins
  <2>. QED  BY <2>1
<1>2. ASSUME ServiceFetches PROVE alone[q]
  <2>1. alone'[q] = (alone[q] /\ ~Stopping(q))
    BY <1>2, Zenon DEF ServiceFetches
  <2>. QED  BY <2>1
<1>. QED  BY <1>1, <1>2, AloneStep

LEMMA LoneWalksStep ==
  ASSUME Placed, LoneStops, LoneWalks, [Next]_vars
  PROVE  LoneWalks'
<1>. SUFFICES ASSUME NEW q \in Queues, alone'[q] PROVE LoneWalk(q)'
  BY DEF LoneWalks, LoneWalk
<1>1. CASE ~Stopping(q)'
  BY <1>1 DEF LoneWalk, Stopping
<1>2. CASE StopBegins(q)
  BY <1>2 DEF LoneWalk, StopBegins, Becomes, Placed, TypeOK
<1>3. CASE Stopping(q)' /\ ~StopBegins(q)
  <2>1. alone[q] /\ Stopping(q) /\ LoneWalk(q)
    BY <1>3, AloneFalls, PhaseStep
    DEF PhaseMoves, Stopping, Placed, LoneWalks, LoneWalk
  <2>2. CASE UNCHANGED <<requests, hand, first>> /\ phase'[q] = phase[q]
    BY <2>1, <2>2 DEF LoneWalk, Compared, Listed, InHand
  <2>3. CASE \E p \in Queues : p # q /\ StartInserts(p)
    BY <2>1, <2>3, ComparedInsert
  <2>4. CASE StopTakes(q)
    BY <2>1, <2>4, ComparedTake DEF LoneWalk, StopTakes, Placed, TypeOK
  <2>5. CASE StopPutsBack(q)
    <3>1. phase'[q] = "rotating"
      BY <2>5 DEF StopPutsBack, PutBack, Placed, TypeOK
    <3>. QED  BY <2>1, <2>5, <3>1, ComparedPut DEF LoneWalk
  <2>6. CASE StopFindsEmpty(q) \/ StopComesRound(q) \/ StopFindsRequest(q)
    <3>1. phase[q] = "rotating" /\ phase'[q] = "unlisting"
      BY <2>6, NoQueueAssumption
      DEF StopFindsEmpty, StopComesRound, StopFindsRequest, PutBack, Becomes, Placed,
          TypeOK
    <3>. QED  BY <2>1, <2>6, <3>1, LoneWalkEnds DEF LoneWalk
  <2>7. CASE StopUnlists(q)
    BY <1>3, <2>7 DEF StopUnlists, Becomes, Stopping, Placed, TypeOK
  <2>. QED  BY <1>3, <2>1, <2>2, <2>3, <2>4, <2>5, <2>6, <2>7, LoneMoves DEF Stop
<1>. QED  BY <1>1, <1>2, <1>3

LEMMA LoneStopUnlistsStep ==
  ASSUME Placed, LoneStops, LoneWalks, LoneStopUnlists, [Next]_vars
  PROVE  LoneStopUnlists'
<1>. SUFFICES ASSUME NEW q \in Queues, phase'[q] = "stopped", alone'[q]
              PROVE  Nowhere(q)'
  BY DEF LoneStopUnlists, Nowhere
<1>1. ~StopBegins(q) /\ ~StartInserts(q)
  BY DEF StopBegins, StartInserts, Becomes, Placed, TypeOK
<1>2. alone[q] /\ Stays(q)
  BY <1>1, AloneFalls, PlacesStep DEF Placed
<1>3. CASE phase[q] = "stopped"
  BY <1>2, <1>3 DEF LoneStopUnlists, Nowhere, Stays
<1>4. CASE phase[q] = "unlisting" /\ StopUnlists(q)
  <2>1. ~Waits(q)
    BY <1>2, <1>4, NoQueueAssumption DEF LoneStops, LoneWalks, Stopping, Waits, Fetched
  <2>2. q \notin responses'
    BY <1>4 DEF StopUnlists
  <2>. QED  BY <1>2, <2>1, <2>2 DEF Stays, Waits, Nowhere
<1>. QED  BY <1>1, <1>3, <1>4, PhaseStep DEF PhaseMoves, Placed

LoneStopParts == Placed /\ LoneStops /\ LoneWalks /\ LoneStopUnlists

LEMMA LoneStopInit == Init => LoneStopParts
<1>. SUFFICES ASSUME Init PROVE LoneStops /\ LoneWalks /\ LoneStopUnlists
  BY PlacedInit DEF LoneStopParts
<1>1. \A q \in Queues : phase[q] = "new"
  BY DEF Init
<1>. QED  BY <1>1 DEF LoneStops, LoneWalks, LoneStopUnlists, Stopping

LEMMA LoneStopStep == LoneStopParts /\ [Next]_vars => LoneStopParts'
  BY PlacedStep, LoneStopsStep, LoneWalksStep, LoneStopUnlistsStep DEF LoneStopParts

(* A Stop that no other Stop and no fetch has met has compared every entry   *)
(* of the list when it leaves its loop, and leaves nothing of its queue.     *)
THEOREM LoneStopUnlistsCorrect == Spec => [](LoneStops /\ LoneWalks /\ LoneStopUnlists)
<1>1. LoneStopParts => LoneStops /\ LoneWalks /\ LoneStopUnlists
  BY DEF LoneStopParts
<1>. QED  BY LoneStopInit, LoneStopStep, <1>1, PTL DEF Spec

-----------------------------------------------------------------------------
(* The event.                                                                *)

LEMMA AnnouncedStep ==
  ASSUME TypeOK, Announced, [Next]_vars
  PROVE  Announced'
<1>. DEFINE Sleeps == service \in {"testing", "waiting"} /\ ~readEvent /\ ~missed
            Empty == requests = <<>> /\ \A q \in Queues : hand[q] = NoQueue
<1>1. Announced <=> (Sleeps /\ (\A q \in Queues : phase[q] # "listed") => Empty)
  BY DEF Announced
<1>2. Announced' <=> (Sleeps' /\ (\A q \in Queues : phase'[q] # "listed") => Empty')
  BY DEF Announced
<1>. SUFFICES ASSUME Sleeps', \A q \in Queues : phase'[q] # "listed"
              PROVE  Empty'
  BY <1>2
<1>3. ASSUME Sleeps, UNCHANGED phase PROVE Empty
  BY <1>1, <1>3
<1>4. ASSUME Sleeps, NEW q \in Queues, NEW place,
             phase[q] # "listed", phase' = [phase EXCEPT ![q] = place]
      PROVE  Empty
  BY <1>1, <1>4 DEF TypeOK
<1>. USE DEF Becomes, lists, fileVars, serviceSide, serviceVars, stopVars, history
<1>5. ASSUME NEW q \in Queues, StartInserts(q) \/ StartSignals(q) \/ StartFails(q)
      PROVE  FALSE
  BY <1>5 DEF StartInserts, StartSignals, StartFails, TypeOK
<1>6. ASSUME NEW q \in Queues, StopBegins(q) \/ StopUnlists(q) \/ StopFindsEmpty(q)
      PROVE  Empty'
  <2>1. Sleeps /\ phase[q] # "listed" /\ UNCHANGED <<requests, hand>>
    BY <1>6 DEF StopBegins, StopUnlists, StopFindsEmpty
  <2>. QED  BY <1>4, <1>6, <2>1 DEF StopBegins, StopUnlists, StopFindsEmpty
<1>7. ASSUME NEW q \in Queues, StopTakes(q) PROVE FALSE
  BY <1>3, <1>7 DEF StopTakes
<1>8. ASSUME NEW q \in Queues,
             StopPutsBack(q) \/ StopComesRound(q) \/ StopFindsRequest(q)
      PROVE  FALSE
  <2>1. Sleeps /\ hand[q] # NoQueue /\ phase[q] = "rotating"
    BY <1>8, NoQueueAssumption
    DEF StopPutsBack, StopComesRound, StopFindsRequest, PutBack, TypeOK
  <2>. QED
    BY <1>3, <1>4, <1>8, <2>1 DEF StopPutsBack, StopComesRound, StopFindsRequest
<1>9. ASSUME NEW q \in Queues, RequestThread(q) PROVE Empty'
  BY <1>3, <1>9 DEF RequestThread, DialogEnds, PollEnds, PutsResponse, Ends
<1>10. ASSUME ServiceFindsEmpty \/ ServiceCannotFetch \/ ServiceDrops \/ ServiceRelists
       PROVE  Empty'
  <2>1. LeavesLoop(requests') /\ UNCHANGED hand
    BY <1>10 DEF ServiceFindsEmpty, ServiceCannotFetch, ServiceDrops, ServiceRelists
  <2>2. requests' = <<>> /\ ~\E q \in Queues : hand[q] # NoQueue
    BY <2>1, Zenon DEF LeavesLoop
  <2>. QED  BY <2>1, <2>2
<1>11. ASSUME ServiceTests PROVE Empty'
  BY <1>3, <1>11 DEF ServiceTests, Serves
<1>12. ASSUME ServiceWakes \/ ServiceFetches \/ ServiceLists PROVE FALSE
  BY <1>12 DEF ServiceWakes, ServiceFetches, ServiceLists, Serves
<1>13. ASSUME ServiceStartsThread \/ ServiceCounts \/ ServiceCloses PROVE FALSE
  BY <1>13 DEF ServiceStartsThread, ServiceCounts, ServiceCloses, Serves
<1>14. ASSUME StopThread \/ UNCHANGED vars PROVE Empty'
  BY <1>3, <1>14 DEF StopThread, vars
<1>. QED
  BY <1>5, <1>6, <1>7, <1>8, <1>9, <1>10, <1>11, <1>12, <1>13, <1>14
  DEF Next, Stop, Service

LEMMA AnnouncedInit == Init => Announced
  BY DEF Init, Announced

(* The service does not go to sleep over a listed request, or one that a     *)
(* Stop has in hand: the event is set again, or is about to be, or the       *)
(* service's last round, or a Start since, is one of those ListedIsAnnounced *)
(* excepts.                                                                  *)
THEOREM ListedIsAnnouncedCorrect == Spec => [](Announced /\ ListedIsAnnounced)
<1>1. TypeOK /\ Announced => ListedIsAnnounced
  BY DEF TypeOK, Announced, ListedIsAnnounced
<1>. QED  BY KeyTypeCorrect, AnnouncedInit, AnnouncedStep, <1>1, PTL DEF Spec

(* The inductive invariant: every part of it holds in every reachable state. *)
THEOREM KeyInvariantCorrect == Spec => []KInv
<1>1. /\ Placed /\ BegunOnce /\ ListedFirst /\ AnswerFindsQueue
      /\ LoneStops /\ LoneWalks /\ LoneStopUnlists
      /\ CountCovers /\ ServiceOutlivesThreads /\ Announced
      => KInv
  BY DEF Placed, KInv
<1>2. Placed <=> TypeOK /\ RequestOnce /\ NewUnlisted
  BY DEF Placed
<1>. QED
  BY KeyTypeCorrect, RequestOnceCorrect, AnswerFindsQueueCorrect, LoneStopUnlistsCorrect,
     ServiceOutlivesThreadsCorrect, ListedIsAnnouncedCorrect, <1>1, <1>2, PTL

-----------------------------------------------------------------------------
(* A service that is told to stop is never stuck: what ServiceEnds rests on. *)

\* As long as every request had its thread, the count is right, or behind by one.
CountExact ==
    lost = {} => Cardinality(Active) = count + IF service = "counting" THEN 1 ELSE 0

\* The flag is set before the event, and looked at before each wait.
ExitIsAnnounced ==
    /\ exit <=> stopper # "idle"
    /\ exit /\ service = "waiting" => readEvent \/ stopper = "between"

ServiceMoves ==
    \/ service = "waiting" /\ readEvent
    \/ service \in {"fetching", "listing", "starting", "counting", "testing"}
    \/ service = "draining" /\ count <= 0

ServiceIsNotStuck ==
    exit /\ service # "closed" =>
        \/ ServiceMoves \/ stopper = "between"
        \/ \E q \in Queues : thread[q] # "none"
        \/ lost # {}

LEMMA CountExactStep ==
  ASSUME Placed, BegunOnce, CountCovers, CountExact, [Next]_vars
  PROVE  CountExact'
<1>1. IsFiniteSet(Active) /\ IsFiniteSet(Active')
  BY SurplusStep DEF CountCovers
<1>2. /\ Cardinality(Active) \in Nat /\ Cardinality(Active') \in Nat
      /\ count \in Int /\ count' \in Int
  BY <1>1, FS_CardinalityType, PlacedStep DEF Placed, TypeOK
<1>3. lost = {} => Surplus = 0
  BY <1>2 DEF Surplus, CountExact
<1>4. lost' = {} => Surplus' = 0
  BY <1>1, <1>3, SurplusStep
<1>. QED  BY <1>2, <1>4 DEF Surplus, CountExact

LEMMA ExitIsAnnouncedStep ==
  ASSUME TypeOK, ExitIsAnnounced, [Next]_vars
  PROVE  ExitIsAnnounced'
<1>. USE DEF ExitIsAnnounced, Serves, serviceSide, serviceVars, stopVars
<1>1. ASSUME NEW q \in Queues,
             StartInserts(q) \/ StartSignals(q) \/ StartFails(q) \/ StopBegins(q) \/ Stop(q)
      PROVE  ExitIsAnnounced'
  <2>1. UNCHANGED <<exit, stopper, service>> /\ (readEvent => readEvent')
    BY <1>1
    DEF StartInserts, StartSignals, StartFails, StopBegins, Stop, StopTakes,
        StopFindsEmpty, StopPutsBack, StopComesRound, StopFindsRequest, StopUnlists,
        PutBack
  <2>. QED  BY <2>1
<1>2. ASSUME NEW q \in Queues, RequestThread(q) PROVE ExitIsAnnounced'
  BY <1>2 DEF RequestThread, DialogEnds, PollEnds, PutsResponse, Ends
<1>3. CASE ServiceWakes \/ ServiceFetches \/ ServiceFindsEmpty \/ ServiceCannotFetch
  BY <1>3
  DEF ServiceWakes, ServiceFetches, ServiceFindsEmpty, ServiceCannotFetch, LeavesLoop
<1>4. CASE \/ ServiceLists \/ ServiceDrops \/ ServiceRelists \/ ServiceStartsThread
           \/ ServiceCounts \/ ServiceCloses
  BY <1>4
  DEF ServiceLists, ServiceDrops, ServiceRelists, ServiceStartsThread, ServiceCounts,
      ServiceCloses, LeavesLoop
<1>5. CASE ServiceTests
  BY <1>5 DEF ServiceTests
<1>6. CASE StopThread
  BY <1>6 DEF StopThread
<1>7. CASE UNCHANGED vars
  BY <1>7 DEF vars
<1>. QED  BY <1>1, <1>2, <1>3, <1>4, <1>5, <1>6, <1>7 DEF Next, Service

StuckParts == Counted /\ CountExact /\ ExitIsAnnounced

LEMMA StuckInit == Init => StuckParts
<1>. SUFFICES ASSUME Init PROVE CountExact /\ ExitIsAnnounced
  BY CountedInit DEF StuckParts
<1>1. service = "testing" /\ count = 0 /\ Active = {}
  BY DEF Init, Active
<1>. QED  BY <1>1, FS_EmptySet DEF CountExact, ExitIsAnnounced, Init

LEMMA StuckStep == StuckParts /\ [Next]_vars => StuckParts'
  BY CountedStep, CountExactStep, ExitIsAnnouncedStep
  DEF StuckParts, Counted, Answered, Placed

LEMMA NotStuck == StuckParts => ServiceIsNotStuck
<1>. SUFFICES ASSUME StuckParts, exit, service # "closed", lost = {},
                     \A q \in Queues : thread[q] = "none",
                     stopper # "between"
              PROVE  ServiceMoves
  BY DEF ServiceIsNotStuck
<1>1. TypeOK /\ CountExact /\ ExitIsAnnounced
  BY DEF StuckParts, Counted, Answered, Placed
<1>2. CASE service = "draining"
  <2>1. Active = {}
    BY DEF Active
  <2>. QED  BY <1>1, <1>2, <2>1, FS_EmptySet DEF CountExact, ServiceMoves, TypeOK
<1>3. CASE service = "waiting"
  BY <1>1, <1>3 DEF ExitIsAnnounced, ServiceMoves
<1>. QED  BY <1>1, <1>2, <1>3 DEF TypeOK, ServiceMoves

(* As long as every request thread could be created, a service that is told  *)
(* to stop can go on, or waits for a request thread, which ends unless its   *)
(* user leaves a dialog open, or for the event that StopThread is about to   *)
(* set (GingkoCheapman.cpp:258-300, 369-370).                                *)
THEOREM ServiceIsNotStuckCorrect == Spec => [](CountExact /\ ServiceIsNotStuck)
<1>1. StuckParts => CountExact
  BY DEF StuckParts
<1>. QED  BY StuckInit, StuckStep, NotStuck, <1>1, PTL DEF Spec

-----------------------------------------------------------------------------
(* No round of the service is for nothing.                                   *)

\* What the service may still have to fetch.
Unfetched == { q \in Queues : phase[q] = "new" \/ Listed(q) \/ InHand(q) }

\* Who may still set the event: a Start, or StopThread (NoQueue).
Announcers ==
    { q \in Queues : phase[q] \in {"new", "listed"} }
        \cup (IF stopper = "done" THEN {} ELSE {NoQueue})

\* How far the service is from its next wait, or from its end.
ServiceRank ==
    [listing |-> 6, starting |-> 5, counting |-> 4, fetching |-> 3, testing |-> 2,
     waiting |-> 1, draining |-> 1, closed |-> 0]

\* It goes round its outer loop once for an event, each set by another, and
\* round the inner one once for a request; a request that comes back ends the round.
ServiceGoesOn ==
    /\ Announcers' \subseteq Announcers
    /\ readEvent' => readEvent \/ Announcers' # Announcers
    /\ \/ Unfetched' \subseteq Unfetched
       \/ /\ service = "listing" /\ service' = "testing"
          /\ Unfetched' = Unfetched \cup {taken}
    /\ service' # service =>
          \/ ServiceRank[service'] < ServiceRank[service]
          \/ service = "waiting" /\ readEvent /\ ~readEvent'
          \/ service = "fetching" /\ Unfetched' # Unfetched

\* What is fetched is used up.
LEMMA FetchUsesUp ==
  ASSUME Placed, ServiceFetches
  PROVE  Unfetched' = Unfetched \ {Head(requests)} /\ Head(requests) \in Unfetched
<1>1. /\ requests # <<>> /\ requests' = Tail(requests) /\ UNCHANGED <<phase, hand>>
  BY DEF ServiceFetches, fileVars
<1>2. /\ Head(requests) \in Queues /\ In(requests, Head(requests))
      /\ \A p : In(requests', p) <=> In(requests, p) /\ p # Head(requests)
  BY <1>1, TailOf, PlacedParts
<1>3. /\ \A p : Listed(p)' <=> In(requests', p)
      /\ \A p : InHand(p)' <=> InHand(p)
  BY <1>1 DEF Listed, In, InHand
<1>4. ~InHand(Head(requests)) /\ phase[Head(requests)] # "new"
  BY <1>2, PlacedParts DEF Placed, NewUnlisted, Nowhere
<1>. QED  BY <1>1, <1>2, <1>3, <1>4, PlacedParts DEF Unfetched

\* Only an answer that cannot be written brings a request back to the list.
LEMMA RelistBringsBack ==
  ASSUME Placed, ServiceRelists
  PROVE  /\ service = "listing" /\ service' = "testing"
         /\ Unfetched' = Unfetched \cup {taken}
<1>1. /\ requests' = Append(requests, taken) /\ UNCHANGED <<phase, hand>>
      /\ service = "listing" /\ service' = "testing"
  BY DEF ServiceRelists, LeavesLoop, Serves, fileVars
<1>2. Fetched(taken) /\ taken \in Queues
  BY <1>1, NoQueueAssumption DEF Fetched, Placed, TypeOK
<1>3. \A p : In(requests', p) <=> In(requests, p) \/ p = taken
  BY <1>1, <1>2, AppendOf, PlacedParts
<1>4. /\ \A p : Listed(p)' <=> In(requests', p)
      /\ \A p : InHand(p)' <=> InHand(p)
  BY <1>1 DEF Listed, In, InHand
<1>. QED  BY <1>1, <1>2, <1>3, <1>4, PlacedParts DEF Unfetched

LEMMA UnfetchedStep ==
  ASSUME Placed, [Next]_vars, ~ServiceRelists
  PROVE  Unfetched' \subseteq Unfetched
<1>1. \A q \in Queues : phase'[q] = "new" => phase[q] = "new"
  BY PhaseStep DEF PhaseMoves, Placed
<1>2. \A q : (Listed(q)' <=> In(requests', q)) /\ (Listed(q) <=> In(requests, q))
  BY DEF Listed, In
<1>3. ASSUME Quiet PROVE Unfetched' \subseteq Unfetched
  BY <1>1, <1>3 DEF Quiet, Unfetched, Listed, InHand
<1>4. ASSUME NEW q \in Queues, StartInserts(q) PROVE Unfetched' \subseteq Unfetched
  <2>1. /\ phase[q] = "new" /\ UNCHANGED hand
        /\ requests' = Append(requests, q) \/ requests' = requests
    BY <1>4 DEF StartInserts
  <2>2. \A p : In(requests', p) => In(requests, p) \/ p = q
    <3>1. ~In(requests, q)
      BY <2>1, PlacedParts DEF Placed, NewUnlisted, Nowhere
    <3>2. CASE requests' = Append(requests, q)
      BY <3>1, <3>2, AppendOf, PlacedParts
    <3>. QED  BY <2>1, <3>2
  <2>. QED  BY <1>1, <1>2, <2>1, <2>2 DEF Unfetched, InHand
<1>5. ASSUME NEW q \in Queues, StopTakes(q) PROVE Unfetched' \subseteq Unfetched
  <2>1. /\ requests # <<>> /\ requests' = Tail(requests)
        /\ hand' = [hand EXCEPT ![q] = Head(requests)]
    BY <1>5 DEF StopTakes
  <2>2. /\ In(requests, Head(requests))
        /\ \A p : In(requests', p) <=> In(requests, p) /\ p # Head(requests)
    BY <2>1, TailOf, PlacedParts
  <2>3. \A p \in Queues : InHand(p)' => InHand(p) \/ p = Head(requests)
    BY <2>1 DEF InHand, Placed, TypeOK
  <2>. QED  BY <1>1, <1>2, <2>2, <2>3 DEF Unfetched
<1>6. ASSUME NEW q \in Queues, PutBack(q) PROVE Unfetched' \subseteq Unfetched
  <2>1. /\ hand[q] \in Queues /\ hand' = [hand EXCEPT ![q] = NoQueue]
        /\ requests' = Append(requests, hand[q])
    BY <1>6 DEF PutBack, Placed, TypeOK
  <2>2. InHand(hand[q]) /\ \A p \in Queues : InHand(p)' => InHand(p)
    BY <2>1, NoQueueAssumption DEF InHand, Placed, TypeOK
  <2>3. \A p : In(requests', p) <=> In(requests, p) \/ p = hand[q]
    <3>1. ~In(requests, hand[q])
      BY <2>1, <2>2, PlacedParts
    <3>. QED  BY <2>1, <3>1, AppendOf, PlacedParts
  <2>. QED  BY <1>1, <1>2, <2>2, <2>3 DEF Unfetched
<1>7. ASSUME NEW q \in Queues, StopFindsRequest(q) PROVE Unfetched' \subseteq Unfetched
  <2>1. hand' = [hand EXCEPT ![q] = NoQueue] /\ UNCHANGED requests
    BY <1>7 DEF StopFindsRequest, lists
  <2>2. \A p \in Queues : InHand(p)' => InHand(p)
    BY <2>1, NoQueueAssumption DEF InHand, Placed, TypeOK
  <2>. QED  BY <1>1, <1>2, <2>1, <2>2 DEF Unfetched
<1>8. ASSUME NEW q \in Queues,
             \/ StartSignals(q) \/ StartFails(q) \/ StopBegins(q)
             \/ StopFindsEmpty(q) \/ StopUnlists(q) \/ RequestThread(q)
      PROVE  Quiet
  BY <1>8
  DEF StartSignals, StartFails, StopBegins, StopFindsEmpty, StopUnlists, RequestThread,
      DialogEnds, PollEnds, PutsResponse, Ends, Quiet, lists, fileVars
<1>9. ASSUME \/ ServiceWakes \/ ServiceFindsEmpty \/ ServiceCannotFetch
             \/ ServiceLists \/ ServiceDrops \/ ServiceStartsThread
             \/ ServiceCounts \/ ServiceTests \/ ServiceCloses
      PROVE  Quiet
  BY <1>9
  DEF ServiceWakes, ServiceFindsEmpty, ServiceCannotFetch, ServiceLists, ServiceDrops,
      ServiceStartsThread, ServiceCounts, ServiceTests, ServiceCloses, Quiet, lists,
      fileVars
<1>10. ASSUME StopThread \/ UNCHANGED vars PROVE Quiet
  BY <1>10 DEF StopThread, vars, Quiet, lists, fileVars
<1>. QED
  BY <1>3, <1>4, <1>5, <1>6, <1>7, <1>8, <1>9, <1>10, FetchUsesUp
  DEF Next, Stop, StopPutsBack, StopComesRound, Service

\* Each Start and StopThread sets the event once.
LEMMA AnnouncersStep ==
  ASSUME TypeOK, [Next]_vars
  PROVE  /\ Announcers' \subseteq Announcers
         /\ readEvent' => readEvent \/ Announcers' # Announcers
<1>. USE NoQueueAssumption DEF lists, fileVars, serviceSide, serviceVars, stopVars
<1>1. ASSUME UNCHANGED stopper, NEW q \in Queues, NEW place,
             phase' = [phase EXCEPT ![q] = place], place # "new",
             place = "listed" => phase[q] = "new"
      PROVE  Announcers' \subseteq Announcers
  BY <1>1 DEF Announcers, TypeOK
<1>2. ASSUME UNCHANGED <<phase, stopper>> PROVE Announcers' = Announcers
  BY <1>2 DEF Announcers
<1>3. ASSUME NEW q \in Queues, StartInserts(q)
      PROVE  Announcers' \subseteq Announcers /\ UNCHANGED readEvent
  BY <1>1, <1>3 DEF StartInserts, Becomes
<1>4. ASSUME NEW q \in Queues, StartSignals(q) \/ StartFails(q)
      PROVE  Announcers' \subseteq Announcers /\ Announcers' # Announcers
  <2>1. phase[q] = "listed" /\ phase' = [phase EXCEPT ![q] = "open"] /\ UNCHANGED stopper
    BY <1>4 DEF StartSignals, StartFails, Becomes
  <2>2. q \in Announcers /\ q \notin Announcers'
    BY <2>1 DEF Announcers, TypeOK
  <2>. QED  BY <1>1, <2>1, <2>2
<1>5. ASSUME NEW q \in Queues,
             \/ StopBegins(q) \/ StopFindsEmpty(q) \/ StopComesRound(q)
             \/ StopFindsRequest(q) \/ StopUnlists(q)
      PROVE  Announcers' \subseteq Announcers /\ UNCHANGED readEvent
  BY <1>1, <1>5
  DEF StopBegins, StopFindsEmpty, StopComesRound, StopFindsRequest, StopUnlists, PutBack,
      Becomes
<1>6. ASSUME NEW q \in Queues, StopTakes(q) \/ StopPutsBack(q) \/ RequestThread(q)
      PROVE  UNCHANGED <<phase, stopper, readEvent>>
  BY <1>6
  DEF StopTakes, StopPutsBack, PutBack, RequestThread, DialogEnds, PollEnds,
      PutsResponse, Ends
<1>7. ASSUME Service
      PROVE  UNCHANGED <<phase, stopper>> /\ (readEvent' => readEvent)
  BY <1>7
  DEF Service, ServiceWakes, ServiceFetches, ServiceFindsEmpty, ServiceCannotFetch,
      ServiceLists, ServiceDrops, ServiceRelists, ServiceStartsThread, ServiceCounts,
      ServiceTests, ServiceCloses
<1>8. ASSUME StopThread
      PROVE  /\ Announcers' \subseteq Announcers
             /\ readEvent' => readEvent \/ Announcers' # Announcers
  <2>1. UNCHANGED phase
    BY <1>8 DEF StopThread
  <2>2. CASE stopper' = "between" /\ UNCHANGED readEvent
    BY <1>8, <2>1, <2>2 DEF StopThread, Announcers
  <2>3. CASE stopper = "between" /\ stopper' = "done"
    BY <2>1, <2>3 DEF Announcers
  <2>. QED  BY <1>8, <2>2, <2>3 DEF StopThread
<1>9. CASE UNCHANGED vars
  BY <1>2, <1>9 DEF vars
<1>. QED
  BY <1>2, <1>3, <1>4, <1>5, <1>6, <1>7, <1>8, <1>9 DEF Next, Stop

LEMMA ServiceRankValues ==
  /\ ServiceRank["listing"] = 6 /\ ServiceRank["starting"] = 5
  /\ ServiceRank["counting"] = 4 /\ ServiceRank["fetching"] = 3
  /\ ServiceRank["testing"] = 2 /\ ServiceRank["waiting"] = 1
  /\ ServiceRank["draining"] = 1 /\ ServiceRank["closed"] = 0
  BY DEF ServiceRank

LEMMA ServiceStep ==
  ASSUME Placed, [Next]_vars
  PROVE  ServiceGoesOn
<1>. SUFFICES ASSUME service' # service
              PROVE  \/ ServiceRank[service'] < ServiceRank[service]
                     \/ service = "waiting" /\ readEvent /\ ~readEvent'
                     \/ service = "fetching" /\ Unfetched' # Unfetched
  BY UnfetchedStep, RelistBringsBack, AnnouncersStep DEF ServiceGoesOn, Placed
<1>1. Service
  BY DEF Next, StartInserts, StartSignals, StartFails, StopBegins, Stop, StopTakes,
         StopFindsEmpty, StopPutsBack, StopComesRound, StopFindsRequest, StopUnlists,
         PutBack, RequestThread, DialogEnds, PollEnds, PutsResponse, Ends, StopThread,
         serviceSide, serviceVars, vars
<1>2. CASE ServiceWakes
  BY <1>2 DEF ServiceWakes, Serves
<1>3. CASE ServiceFetches
  BY <1>3, FetchUsesUp DEF ServiceFetches
<1>4. CASE \/ ServiceFindsEmpty \/ ServiceCannotFetch \/ ServiceLists \/ ServiceDrops
           \/ ServiceRelists
  BY <1>4, ServiceRankValues
  DEF ServiceFindsEmpty, ServiceCannotFetch, ServiceLists, ServiceDrops, ServiceRelists,
      LeavesLoop, Serves
<1>5. CASE ServiceStartsThread \/ ServiceCounts \/ ServiceCloses
  BY <1>5, ServiceRankValues
  DEF ServiceStartsThread, ServiceCounts, ServiceCloses, Serves
<1>6. CASE ServiceTests
  BY <1>6, ServiceRankValues DEF ServiceTests, Serves
<1>. QED  BY <1>1, <1>2, <1>3, <1>4, <1>5, <1>6 DEF Service

(* The thread of the service cannot spin: an event lets it round its outer   *)
(* loop once, and there is one for each file that is opened and one for      *)
(* StopThread; a request lets it round the inner one once, and the only one  *)
(* that comes back, because its answer could not be written, ends the round, *)
(* so that the next takes an event again (GingkoCheapman.cpp:258-284,        *)
(* gingko_interact.c:162-169).                                               *)
THEOREM ServiceGoesOnCorrect == Spec => [][ServiceGoesOn]_vars
<1>1. Placed /\ [Next]_vars => [ServiceGoesOn]_vars
  BY ServiceStep
<1>2. Placed <=> TypeOK /\ RequestOnce /\ NewUnlisted
  BY DEF Placed
<1>. QED  BY <1>1, <1>2, KeyTypeCorrect, RequestOnceCorrect, PTL DEF Spec

-----------------------------------------------------------------------------
(* No round of a lone Stop is for nothing: what LoneStopEnds rests on.       *)

\* Where the entry that the Stop of q saw first stands, from the head.
Ahead(q) == { k \in DOMAIN requests : requests[k] = first[q] }

\* A Stop leaves its loop, sees its first entry or brings it one nearer.
StopGoesOn(q) ==
    \/ phase'[q] # "rotating"
    \/ /\ hand[q] = NoQueue /\ hand'[q] # NoQueue /\ first'[q] = first[q]
       /\ \/ first[q] = NoQueue \/ hand'[q] = first[q]
          \/ Ahead(q)' = { k - 1 : k \in Ahead(q) }
    \/ /\ hand[q] # NoQueue /\ hand'[q] = NoQueue
       /\ \/ first[q] = NoQueue /\ first'[q] # NoQueue
          \/ first'[q] = first[q] /\ Ahead(q)' = Ahead(q)

\* Whatever others do meanwhile, they do not put it off.
NotPutOff(q) ==
    /\ phase'[q] = phase[q] /\ hand'[q] = hand[q] /\ first'[q] = first[q]
    /\ Ahead(q)' = Ahead(q)

LoneStopGoesOn ==
    \A q \in Queues :
        phase[q] = "rotating" /\ alone'[q] => NotPutOff(q) \/ StopGoesOn(q)

\* What it saw first is in its hand, or still to be met.
FirstIsAhead ==
    \A q \in Queues :
        phase[q] = "rotating" /\ alone[q] /\ first[q] # NoQueue =>
            hand[q] = first[q] \/ Ahead(q) # {}

\* The places of e in s, from the head.
PlacesIn(s, e) == { k \in DOMAIN s : s[k] = e }

LEMMA PlacesAppend ==
  ASSUME NEW S, NEW s \in Seq(S), NEW g \in S, NEW e, e # g
  PROVE  PlacesIn(Append(s, g), e) = PlacesIn(s, e)
<1>1. /\ Len(s) \in Nat
      /\ DOMAIN s = 1..Len(s)
      /\ DOMAIN Append(s, g) = 1..(Len(s) + 1)
      /\ Append(s, g)[Len(s) + 1] = g
      /\ \A k \in 1..Len(s) : Append(s, g)[k] = s[k]
  OBVIOUS
<1>2. \A k \in DOMAIN Append(s, g) : k = Len(s) + 1 \/ k \in DOMAIN s
  BY <1>1
<1>3. \A k \in DOMAIN s : k \in DOMAIN Append(s, g) /\ Append(s, g)[k] = s[k]
  BY <1>1
<1>. QED  BY <1>1, <1>2, <1>3 DEF PlacesIn

LEMMA PlacesTail ==
  ASSUME NEW S, NEW s \in Seq(S), s # <<>>, NEW e, e # Head(s)
  PROVE  PlacesIn(Tail(s), e) = { k - 1 : k \in PlacesIn(s, e) }
<1>1. /\ Len(s) \in Nat /\ Len(s) > 0
      /\ Head(s) = s[1]
      /\ DOMAIN s = 1..Len(s)
      /\ DOMAIN Tail(s) = 1..(Len(s) - 1)
      /\ \A k \in 1..(Len(s) - 1) : Tail(s)[k] = s[k + 1]
  OBVIOUS
<1>2. ASSUME NEW k \in PlacesIn(s, e) PROVE k - 1 \in PlacesIn(Tail(s), e)
  <2>1. k \in 1..Len(s) /\ s[k] = e /\ k # 1
    BY <1>1 DEF PlacesIn
  <2>2. k - 1 \in 1..(Len(s) - 1) /\ (k - 1) + 1 = k
    BY <1>1, <2>1
  <2>. QED  BY <1>1, <2>1, <2>2 DEF PlacesIn
<1>3. ASSUME NEW j \in PlacesIn(Tail(s), e) PROVE \E k \in PlacesIn(s, e) : j = k - 1
  <2>1. j \in 1..(Len(s) - 1) /\ s[j + 1] = e
    BY <1>1 DEF PlacesIn
  <2>2. j + 1 \in 1..Len(s) /\ j = (j + 1) - 1
    BY <1>1, <2>1
  <2>. QED  BY <1>1, <2>1, <2>2 DEF PlacesIn
<1>. QED  BY <1>2, <1>3

LEMMA StopStepGoesOn ==
  ASSUME Placed, NEW q \in Queues, phase[q] = "rotating", Stop(q)
  PROVE  StopGoesOn(q)
<1>0. /\ requests \in Seq(Queues) /\ first[q] \in Queues \cup {NoQueue}
      /\ hand[q] \in Queues \cup {NoQueue}
      /\ Ahead(q) = PlacesIn(requests, first[q])
      /\ Ahead(q)' = PlacesIn(requests', first'[q])
  BY DEF Placed, TypeOK, Ahead, PlacesIn
<1>1. CASE StopTakes(q)
  <2>1. /\ requests # <<>> /\ requests' = Tail(requests) /\ first'[q] = first[q]
        /\ hand[q] = NoQueue /\ hand'[q] = Head(requests)
    BY <1>1 DEF StopTakes, Placed, TypeOK
  <2>2. Head(requests) \in Queues
    BY <1>0, <2>1
  <2>3. hand'[q] # first[q] => Ahead(q)' = { k - 1 : k \in Ahead(q) }
    BY <1>0, <2>1, PlacesTail
  <2>. QED  BY <2>1, <2>2, <2>3, NoQueueAssumption DEF StopGoesOn
<1>2. CASE StopPutsBack(q)
  <2>1. /\ hand[q] # NoQueue /\ hand[q] # first[q] /\ hand'[q] = NoQueue
        /\ requests' = Append(requests, hand[q])
        /\ first'[q] = IF first[q] = NoQueue THEN hand[q] ELSE first[q]
    BY <1>2 DEF StopPutsBack, PutBack, Placed, TypeOK
  <2>2. first[q] # NoQueue => Ahead(q)' = Ahead(q)
    BY <1>0, <2>1, PlacesAppend
  <2>. QED  BY <2>1, <2>2 DEF StopGoesOn
<1>3. CASE StopFindsEmpty(q) \/ StopComesRound(q) \/ StopFindsRequest(q) \/ StopUnlists(q)
  <2>1. phase'[q] # "rotating"
    BY <1>3 DEF StopFindsEmpty, StopComesRound, StopFindsRequest, StopUnlists, Becomes,
                Placed, TypeOK
  <2>. QED  BY <2>1 DEF StopGoesOn
<1>. QED  BY <1>1, <1>2, <1>3 DEF Stop

\* What the Stop of q saw first waits on the list, or is in its hand.
LEMMA FirstWaits ==
  ASSUME Placed, LoneWalks, NEW q \in Queues, alone[q], phase[q] = "rotating",
         first[q] # NoQueue
  PROVE  (Listed(first[q]) \/ hand[q] = first[q]) /\ phase[first[q]] # "new"
<1>1. Compared(q) /\ first[q] \in Queues
  BY DEF LoneWalks, Placed, TypeOK
<1>2. Listed(first[q]) \/ hand[q] = first[q]
  BY <1>1 DEF Compared, Listed
<1>3. Listed(first[q]) \/ InHand(first[q])
  BY <1>2 DEF InHand
<1>. QED  BY <1>1, <1>2, <1>3 DEF Placed, NewUnlisted, Nowhere

LEMMA LoneStopGoesOnStep ==
  ASSUME Placed, LoneStops, LoneWalks, [Next]_vars
  PROVE  LoneStopGoesOn
<1>. SUFFICES ASSUME NEW q \in Queues, phase[q] = "rotating", alone'[q]
              PROVE  NotPutOff(q) \/ StopGoesOn(q)
  BY DEF LoneStopGoesOn
<1>1. alone[q] /\ Stopping(q)
  BY AloneFalls DEF StopBegins, Stopping, Placed
<1>2. CASE UNCHANGED <<requests, hand, first>> /\ phase'[q] = phase[q]
  BY <1>2 DEF NotPutOff, Ahead
<1>3. ASSUME NEW p \in Queues, p # q, StartInserts(p) PROVE NotPutOff(q)
  <2>1. /\ phase[p] = "new"
        /\ requests' = Append(requests, p) \/ requests' = requests
        /\ UNCHANGED <<hand, first>> /\ phase'[q] = phase[q]
    BY <1>3 DEF StartInserts, Becomes, Placed, TypeOK
  <2>2. first[q] # p
    BY <1>1, <1>3, <2>1, FirstWaits, NoQueueAssumption
  <2>3. Ahead(q)' = Ahead(q)
    <3>1. Ahead(q) = PlacesIn(requests, first[q]) /\ Ahead(q)' = PlacesIn(requests', first[q])
      BY <2>1 DEF Ahead, PlacesIn
    <3>2. CASE requests' = Append(requests, p)
      BY <2>2, <3>1, <3>2, PlacesAppend DEF Placed, TypeOK
    <3>3. CASE requests' = requests
      BY <3>1, <3>3
    <3>. QED  BY <2>1, <3>2, <3>3
  <2>. QED  BY <2>1, <2>3 DEF NotPutOff
<1>. QED  BY <1>1, <1>2, <1>3, LoneMoves, StopStepGoesOn

LEMMA FirstAhead == Placed /\ LoneWalks => FirstIsAhead
  BY FirstWaits DEF FirstIsAhead, Ahead, Listed

(* A Stop that no other Stop and no fetch meets comes nearer to the entry it *)
(* saw first with each entry it turns over, never loses it, and is not put   *)
(* off by the files that are opened meanwhile (gingko_ioqueue.c:1071-1086).  *)
THEOREM LoneStopGoesOnCorrect == Spec => []FirstIsAhead /\ [][LoneStopGoesOn]_vars
<1>1. Placed <=> TypeOK /\ RequestOnce /\ NewUnlisted
  BY DEF Placed
<1>. QED
  BY <1>1, FirstAhead, LoneStopGoesOnStep, KeyTypeCorrect, RequestOnceCorrect,
     LoneStopUnlistsCorrect, PTL DEF Spec
=============================================================================
