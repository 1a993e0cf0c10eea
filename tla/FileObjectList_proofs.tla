------------------------ MODULE FileObjectList_proofs ------------------------
(***************************************************************************)
(* Proofs about FileObjectList, for every set of threads, files and        *)
(* objects.                                                                *)
(***************************************************************************)
EXTENDS FileObjectList, TLAPS

-----------------------------------------------------------------------------
(* Type correctness: one lemma per part of TypeOK.                           *)

LEMMA TypeInit == Init => TypeOK
  BY DEF Init, TypeOK, ObjectTypes, CallTypes, PlaceTypes, Lives, Ops, Places, Holding

\* What a walker takes off the list is an object.
LEMMA HeadIsObject ==
  ASSUME TypeOK, list # <<>>
  PROVE  Head(list) \in Objects /\ Tail(list) \in Seq(Objects)
  BY DEF TypeOK, ObjectTypes

\* How a call begins.
LEMMA CallBegins ==
  ASSUME NEW t \in Threads, Call(t)
  PROVE  /\ op[t] = "idle"
         /\ UNCHANGED <<list, file, held>>
         /\ first' = [first EXCEPT ![t] = NoFile]
         /\ answer' = [answer EXCEPT ![t] = "none"]
         /\ \/ /\ \E f \in Files : target' = [target EXCEPT ![t] = f]
               /\ \E call \in {"create", "find", "close"} :
                     op' = [op EXCEPT ![t] = call]
               /\ pc' = [pc EXCEPT ![t] = "walk"]
            \/ /\ target' = [target EXCEPT ![t] = NoFile]
               /\ op' = [op EXCEPT ![t] = "clear"]
               /\ pc' = [pc EXCEPT ![t] = "fetch"]
  BY DEF Call, CreateBegins, SearchBegins, CloseBegins, ControlCloseBegins, Begin, Goes

LEMMA CallOverlaps ==
  ASSUME NEW t \in Threads, Call(t)
  PROVE  overlapped' = [u \in Threads |-> IF u = t
                                          THEN \E v \in Threads : op[v] # "idle"
                                          ELSE overlapped[u] \/ op[u] # "idle"]
  BY DEF Call, CreateBegins, SearchBegins, CloseBegins, ControlCloseBegins, Begin

LEMMA ObjectTypesStep ==
  ASSUME TypeOK, NEW t \in Threads, Call(t) \/ Walk(t)
  PROVE  ObjectTypes'
<1>. USE DEF TypeOK, ObjectTypes, Lives
<1>1. CASE Call(t)
  BY <1>1 DEF Call, CreateBegins, SearchBegins, CloseBegins, ControlCloseBegins, Begin
<1>2. CASE TakeHead(t) \/ Fetches(t)
  BY <1>2, HeadIsObject DEF TakeHead, Fetches
<1>3. CASE PutsOtherBack(t) \/ PutsMatchBack(t) \/ WrapsAround(t) \/ Inserts(t)
  <2>1. held[t] \in Objects
    BY <1>3 DEF PlaceTypes, Holding, PutsOtherBack, PutsMatchBack, WrapsAround, Inserts
  <2>2. list' = Append(list, held[t]) /\ UNCHANGED file
    BY <1>3 DEF PutsOtherBack, PutsMatchBack, WrapsAround, Inserts, PutBack
  <2>3. life' \in [Files -> Lives]
    BY <1>3 DEF PutsOtherBack, PutsMatchBack, WrapsAround, Inserts, SearchFails, Return
  <2>. QED  BY <2>1, <2>2, <2>3
<1>4. CASE Allocates(t)
  BY <1>4 DEF Allocates, Unallocated, Return, CallTypes
<1>5. CASE FindsListEmpty(t) \/ CloseFrees(t) \/ StopsThread(t) \/ AllFetched(t)
  BY <1>5 DEF FindsListEmpty, CloseFrees, StopsThread, AllFetched, SearchFails, Return
<1>. QED  BY <1>1, <1>2, <1>3, <1>4, <1>5 DEF Walk

LEMMA CallTypesStep ==
  ASSUME TypeOK, NEW t \in Threads, Call(t) \/ Walk(t)
  PROVE  CallTypes'
<1>. USE DEF TypeOK, CallTypes, Ops, callVars
<1>1. CASE Call(t)
  <2>1. overlapped' \in [Threads -> BOOLEAN]
    BY <1>1, CallOverlaps, Zenon
  <2>2. op' \in [Threads -> Ops] /\ target' \in [Threads -> Files \cup {NoFile}]
    BY <1>1, CallBegins
  <2>3. /\ first' \in [Threads -> Files \cup {NoFile}]
        /\ answer' \in [Threads -> {"none", "found", "absent"}]
    BY <1>1, CallBegins
  <2>. QED  BY <2>1, <2>2, <2>3
<1>2. CASE TakeHead(t)
  BY <1>2, HeadIsObject DEF TakeHead, Recorded, ObjectTypes
<1>3. CASE Walk(t) /\ ~TakeHead(t)
  BY <1>3
  DEF Walk, FindsListEmpty, PutsOtherBack, PutsMatchBack, WrapsAround, CloseFrees,
      Allocates, Inserts, Fetches, StopsThread, AllFetched, PutBack, SearchFails, Return
<1>. QED  BY <1>1, <1>2, <1>3

LEMMA PlaceTypesStep ==
  ASSUME TypeOK, NEW t \in Threads, Call(t) \/ Walk(t)
  PROVE  PlaceTypes'
<1>. USE DEF TypeOK, PlaceTypes, CallTypes, Places, Holding, Ops, Goes, callVars
<1>1. CASE Call(t)
  BY <1>1, CallBegins
<1>2. CASE TakeHead(t)
  <2>1. Verdict(t, Head(list)) \in {"wrapped", "free", "matched", "other"}
    BY DEF Verdict
  <2>. QED  BY <1>2, <2>1, HeadIsObject, NoObjectAssumption DEF TakeHead
<1>3. CASE Fetches(t)
  BY <1>3, HeadIsObject, NoObjectAssumption DEF Fetches
<1>4. CASE Allocates(t)
  BY <1>4, NoObjectAssumption DEF Allocates, Unallocated, Return
<1>5. CASE FindsListEmpty(t) \/ WrapsAround(t)
  BY <1>5 DEF FindsListEmpty, WrapsAround, PutBack, SearchFails, Return
<1>6. CASE PutsOtherBack(t) \/ PutsMatchBack(t) \/ Inserts(t)
  BY <1>6 DEF PutsOtherBack, PutsMatchBack, Inserts, PutBack, Return
<1>7. CASE CloseFrees(t) \/ StopsThread(t) \/ AllFetched(t)
  BY <1>7 DEF CloseFrees, StopsThread, AllFetched, Return
<1>. QED  BY <1>1, <1>2, <1>3, <1>4, <1>5, <1>6, <1>7 DEF Walk

LEMMA TypeStep == TypeOK /\ [Next]_vars => TypeOK'
<1>1. CASE UNCHANGED vars
  BY <1>1 DEF TypeOK, ObjectTypes, CallTypes, PlaceTypes, vars
<1>2. ASSUME TypeOK, NEW f \in Files, OpenedUnseen(f) \/ ClosedUnseen(f)
      PROVE  TypeOK'
  BY <1>2 DEF TypeOK, ObjectTypes, CallTypes, PlaceTypes, OpenedUnseen, ClosedUnseen,
              Lives
<1>. QED
  BY <1>1, <1>2, ObjectTypesStep, CallTypesStep, PlaceTypesStep DEF Next, TypeOK

(* Every variable keeps its type, and a walker has an entry in hand exactly  *)
(* where the code has one.                                                   *)
THEOREM ListTypeCorrect == Spec => []TypeOK
  BY TypeInit, TypeStep, PTL DEF Spec

-----------------------------------------------------------------------------
(* What each place of a walker says of its call.                             *)

\* A thread's own variables are written by that thread alone.
LEMMA OwnVariables ==
  ASSUME TypeOK, NEW t \in Threads, Call(t) \/ Walk(t),
         NEW u \in Threads, u # t
  PROVE  /\ pc'[u] = pc[u] /\ op'[u] = op[u] /\ target'[u] = target[u]
         /\ first'[u] = first[u] /\ held'[u] = held[u] /\ answer'[u] = answer[u]
<1>. USE DEF TypeOK, CallTypes, PlaceTypes, Goes, callVars
<1>1. CASE Call(t)
  BY <1>1, CallBegins
<1>2. CASE TakeHead(t)
  BY <1>2 DEF TakeHead, Recorded
<1>3. CASE Walk(t) /\ ~TakeHead(t)
  BY <1>3
  DEF Walk, FindsListEmpty, PutsOtherBack, PutsMatchBack, WrapsAround, CloseFrees,
      Allocates, Inserts, Fetches, StopsThread, AllFetched, PutBack, SearchFails, Return
<1>. QED  BY <1>1, <1>2, <1>3

\* Only a create's allocation and a close's release touch FileObject.
LEMMA FileWriters ==
  ASSUME TypeOK, NEW t \in Threads, Call(t) \/ Walk(t)
  PROVE  \/ UNCHANGED file
         \/ CloseFrees(t) /\ file' = [file EXCEPT ![held[t]] = NoFile]
         \/ Allocates(t) /\ \E o \in Unallocated : file' = [file EXCEPT ![o] = target[t]]
<1>1. CASE Call(t)
  BY <1>1, CallBegins
<1>2. CASE Walk(t)
  BY <1>2
  DEF Walk, TakeHead, FindsListEmpty, PutsOtherBack, PutsMatchBack, WrapsAround,
      CloseFrees, Allocates, Inserts, Fetches, StopsThread, AllFetched, PutBack
<1>. QED  BY <1>1, <1>2

\* CallPlaces, for one thread.
CallPlace(t) ==
    /\ op[t] \in {"create", "find", "close"} => target[t] \in Files
    /\ pc[t] \in {"walk", "other", "matched", "wrapped"} =>
          op[t] \in {"create", "find", "close"} /\ answer[t] = "none"
    /\ pc[t] = "matched" => op[t] # "close" /\ file[held[t]] = target[t]
    /\ pc[t] = "free" => op[t] = "close" /\ answer[t] = "found"
    /\ pc[t] \in {"allocate", "insert"} => op[t] = "create" /\ answer[t] = "absent"
    /\ pc[t] = "insert" => file[held[t]] = target[t]
    /\ pc[t] \in {"fetch", "stop"} => op[t] = "clear"

LEMMA CallPlaceOwn ==
  ASSUME TypeOK, CallPlaces, NEW t \in Threads, Call(t) \/ Walk(t)
  PROVE  CallPlace(t)'
<1>. USE DEF TypeOK, CallTypes, PlaceTypes, Goes, callVars, CallPlace
<1>0. CallPlace(t)
  BY DEF CallPlaces
<1>1. CASE Call(t)
  BY <1>1, CallBegins
<1>2. CASE TakeHead(t)
  <2>1. /\ held' = [held EXCEPT ![t] = Head(list)]
        /\ pc' = [pc EXCEPT ![t] = Verdict(t, Head(list))]
        /\ UNCHANGED <<file, op, target>>
        /\ answer' = IF Verdict(t, Head(list)) = "free"
                     THEN [answer EXCEPT ![t] = "found"] ELSE answer
    BY <1>2 DEF TakeHead
  <2>2. pc[t] = "walk"
    BY <1>2 DEF TakeHead
  <2>. QED  BY <1>0, <2>1, <2>2 DEF Verdict
<1>3. CASE FindsListEmpty(t) \/ WrapsAround(t)
  BY <1>0, <1>3 DEF FindsListEmpty, WrapsAround, PutBack, SearchFails, Return
<1>4. CASE PutsOtherBack(t) \/ PutsMatchBack(t) \/ CloseFrees(t) \/ Inserts(t)
  BY <1>0, <1>4 DEF PutsOtherBack, PutsMatchBack, CloseFrees, Inserts, PutBack, Return
<1>5. CASE Allocates(t)
  BY <1>0, <1>5 DEF Allocates, Unallocated, Return, ObjectTypes
<1>6. CASE Fetches(t) \/ StopsThread(t) \/ AllFetched(t)
  BY <1>0, <1>6 DEF Fetches, StopsThread, AllFetched, Return
<1>. QED  BY <1>1, <1>2, <1>3, <1>4, <1>5, <1>6 DEF Walk

LEMMA CallPlacesStep ==
  TypeOK /\ EntryOnce /\ CallPlaces /\ [Next]_vars => CallPlaces'
<1>. SUFFICES ASSUME TypeOK, EntryOnce, CallPlaces, [Next]_vars PROVE CallPlaces'
  OBVIOUS
<1>1. ASSUME NEW t \in Threads, Call(t) \/ Walk(t), NEW u \in Threads, u # t
      PROVE  CallPlace(u)'
  <2>1. CallPlace(u)
    BY DEF CallPlaces, CallPlace
  <2>2. pc[u] \in {"matched", "insert"} => file'[held[u]] = file[held[u]]
    <3>. SUFFICES ASSUME pc[u] \in {"matched", "insert"}
                  PROVE  file'[held[u]] = file[held[u]]
      OBVIOUS
    <3>1. held[u] \in Objects /\ file[held[u]] # NoFile
      BY DEF TypeOK, PlaceTypes, Holding, EntryOnce
    <3>2. held[u] # held[t]
      BY <1>1, <3>1, NoObjectAssumption DEF EntryOnce
    <3>3. held[u] \notin Unallocated
      BY <3>1 DEF Unallocated
    <3>. QED  BY <1>1, <3>1, <3>2, <3>3, FileWriters DEF TypeOK, ObjectTypes
  <2>. QED  BY <1>1, <2>1, <2>2, OwnVariables DEF CallPlace
<1>2. CASE UNCHANGED vars
  BY <1>2 DEF CallPlaces, vars
<1>3. ASSUME NEW f \in Files, OpenedUnseen(f) \/ ClosedUnseen(f)
      PROVE  CallPlaces'
  BY <1>3 DEF CallPlaces, OpenedUnseen, ClosedUnseen
<1>4. ASSUME NEW t \in Threads, Call(t) \/ Walk(t) PROVE CallPlaces'
  <2>1. \A u \in Threads : CallPlace(u)'
    BY <1>1, <1>4, CallPlaceOwn
  <2>. QED  BY <2>1 DEF CallPlaces, CallPlace
<1>. QED  BY <1>2, <1>3, <1>4 DEF Next

-----------------------------------------------------------------------------
(* EntryOnce.                                                                *)

LEMMA TakeKeepsOnce ==
  ASSUME TypeOK, EntryOnce, NEW t \in Threads, TakeHead(t) \/ Fetches(t)
  PROVE  EntryOnce'
<1>1. /\ list # <<>> /\ list' = Tail(list)
      /\ held' = [held EXCEPT ![t] = Head(list)] /\ UNCHANGED file
  BY DEF TakeHead, Fetches
<1>2. /\ Len(list) \in Nat /\ Len(list) > 0
      /\ Head(list) = list[1]
      /\ DOMAIN list = 1..Len(list)
      /\ DOMAIN list' = 1..(Len(list) - 1)
      /\ \A k \in DOMAIN list' : list'[k] = list[k + 1] /\ k + 1 \in DOMAIN list
  BY <1>1 DEF TypeOK, ObjectTypes
<1>3. /\ \A k, l \in DOMAIN list' : list'[k] = list'[l] => k = l
      /\ \A k \in DOMAIN list' : file'[list'[k]] # NoFile
  BY <1>1, <1>2 DEF EntryOnce
<1>4. /\ \A k \in DOMAIN list' : list'[k] # list[1]
      /\ list[1] \in Objects /\ file[list[1]] # NoFile
  BY <1>2 DEF EntryOnce, TypeOK, ObjectTypes
<1>5. ASSUME NEW u \in Threads, held'[u] # NoObject
      PROVE  /\ file'[held'[u]] # NoFile
             /\ \A k \in DOMAIN list' : list'[k] # held'[u]
             /\ \A v \in Threads : v # u => held'[v] # held'[u]
  <2>1. held'[t] = list[1] /\ \A v \in Threads : v # t => held'[v] = held[v]
    BY <1>1, <1>2 DEF TypeOK, PlaceTypes
  <2>2. \A v \in Threads : v # t => held[v] # list[1]
    BY <1>2, <1>4, NoObjectAssumption DEF EntryOnce
  <2>. QED  BY <1>1, <1>2, <1>4, <1>5, <2>1, <2>2 DEF EntryOnce
<1>. QED  BY <1>3, <1>5 DEF EntryOnce

LEMMA PutKeepsOnce ==
  ASSUME TypeOK, EntryOnce, NEW t \in Threads, pc[t] \in Holding, PutBack(t)
  PROVE  EntryOnce'
<1>1. /\ list' = Append(list, held[t]) /\ UNCHANGED file
      /\ held' = [held EXCEPT ![t] = NoObject]
  BY DEF PutBack
<1>2. held[t] \in Objects /\ held[t] # NoObject
  BY DEF TypeOK, PlaceTypes
<1>3. /\ Len(list) \in Nat
      /\ DOMAIN list = 1..Len(list)
      /\ DOMAIN list' = 1..(Len(list) + 1)
      /\ \A k \in DOMAIN list' :
            list'[k] = IF k = Len(list) + 1 THEN held[t] ELSE list[k]
  BY <1>1, <1>2 DEF TypeOK, ObjectTypes
<1>4. /\ \A k, l \in DOMAIN list' : list'[k] = list'[l] => k = l
      /\ \A k \in DOMAIN list' : file'[list'[k]] # NoFile
  BY <1>1, <1>2, <1>3 DEF EntryOnce
<1>5. ASSUME NEW u \in Threads, held'[u] # NoObject
      PROVE  /\ file'[held'[u]] # NoFile
             /\ \A k \in DOMAIN list' : list'[k] # held'[u]
             /\ \A v \in Threads : v # u => held'[v] # held'[u]
  <2>1. u # t /\ held'[u] = held[u]
    BY <1>1, <1>5 DEF TypeOK, PlaceTypes
  <2>2. \A v \in Threads : held'[v] \in {held[v], NoObject}
    BY <1>1 DEF TypeOK, PlaceTypes
  <2>. QED  BY <1>1, <1>2, <1>3, <1>5, <2>1, <2>2 DEF EntryOnce
<1>. QED  BY <1>4, <1>5 DEF EntryOnce

LEMMA EntryOnceStep ==
  TypeOK /\ EntryOnce /\ CallPlaces /\ [Next]_vars => EntryOnce'
<1>. SUFFICES ASSUME TypeOK, EntryOnce, CallPlaces, [Next]_vars PROVE EntryOnce'
  OBVIOUS
<1>1. ASSUME NEW t \in Threads, CloseFrees(t) PROVE EntryOnce'
  <2>1. held[t] \in Objects /\ held[t] # NoObject
    BY <1>1 DEF CloseFrees, TypeOK, PlaceTypes, Holding
  <2>2. /\ file' = [file EXCEPT ![held[t]] = NoFile]
        /\ held' = [held EXCEPT ![t] = NoObject] /\ UNCHANGED list
    BY <1>1 DEF CloseFrees
  <2>3. \A k \in DOMAIN list : list[k] \in Objects
    BY DEF TypeOK, ObjectTypes
  <2>. QED  BY <2>1, <2>2, <2>3 DEF EntryOnce, TypeOK, ObjectTypes, PlaceTypes
<1>2. ASSUME NEW t \in Threads, Allocates(t) PROVE EntryOnce'
  <2>1. CASE UNCHANGED <<list, file, held>>
    BY <2>1 DEF EntryOnce
  <2>2. ASSUME NEW o \in Unallocated,
               file' = [file EXCEPT ![o] = target[t]], held' = [held EXCEPT ![t] = o]
        PROVE  EntryOnce'
    <3>1. o \in Objects /\ file[o] = NoFile /\ target[t] # NoFile /\ UNCHANGED list
      BY <1>2, NoFileAssumption DEF Unallocated, Allocates, CallPlaces
    <3>2. \A k \in DOMAIN list : list[k] # o /\ list[k] \in Objects
      BY <3>1 DEF EntryOnce, TypeOK, ObjectTypes
    <3>3. \A u \in Threads : held[u] # o
      BY <3>1, NoObjectAssumption DEF EntryOnce
    <3>. QED
      BY <2>2, <3>1, <3>2, <3>3 DEF EntryOnce, TypeOK, ObjectTypes, PlaceTypes
  <2>. QED  BY <1>2, <2>1, <2>2 DEF Allocates
<1>3. ASSUME NEW t \in Threads, StopsThread(t) PROVE EntryOnce'
  BY <1>3 DEF StopsThread, EntryOnce, TypeOK, PlaceTypes
<1>4. ASSUME NEW t \in Threads,
             PutsOtherBack(t) \/ PutsMatchBack(t) \/ WrapsAround(t) \/ Inserts(t)
      PROVE  EntryOnce'
  BY <1>4, PutKeepsOnce DEF PutsOtherBack, PutsMatchBack, WrapsAround, Inserts, Holding
<1>5. CASE UNCHANGED <<list, file, held>>
  BY <1>5 DEF EntryOnce
<1>6. ASSUME NEW t \in Threads, Call(t) \/ FindsListEmpty(t) \/ AllFetched(t)
      PROVE  EntryOnce'
  BY <1>5, <1>6, CallBegins DEF FindsListEmpty, AllFetched
<1>7. ASSUME NEW f \in Files, OpenedUnseen(f) \/ ClosedUnseen(f) PROVE EntryOnce'
  BY <1>5, <1>7 DEF OpenedUnseen, ClosedUnseen
<1>. QED
  BY <1>1, <1>2, <1>3, <1>4, <1>5, <1>6, <1>7, TakeKeepsOnce DEF Next, Walk, vars

(* No object is ever in two places, and whatever is on the list or in hand   *)
(* is allocated: no walk makes a close free, or a create insert, twice.      *)
THEOREM EntryOnceCorrect == Spec => [](EntryOnce /\ CallPlaces)
<1>1. Init => EntryOnce /\ CallPlaces
  BY DEF Init, EntryOnce, CallPlaces
<1>. QED  BY ListTypeCorrect, EntryOnceStep, CallPlacesStep, <1>1, PTL DEF Spec

-----------------------------------------------------------------------------
(* The walks implement FileRegistry: every step of a walk is a step of the   *)
(* registry or leaves it alone.                                              *)

\* What the steps below know of the state they start in.
Placed == TypeOK /\ EntryOnce /\ CallPlaces

-----------------------------------------------------------------------------
(* How each step changes the set of objects that the list stands for.        *)

LEMMA TrackedObjects ==
  ASSUME Placed
  PROVE  /\ Tracked \subseteq Objects
         /\ \A o \in Tracked : file[o] # NoFile
         /\ Listed = { list[k] : k \in 1..Len(list) }
<1>1. \A t \in Borrowers : held[t] \in Objects /\ file[held[t]] # NoFile
  BY NoObjectAssumption DEF Placed, TypeOK, PlaceTypes, EntryOnce, Borrowers, Holding
<1>2. \A k \in DOMAIN list : list[k] \in Objects /\ file[list[k]] # NoFile
  BY DEF Placed, TypeOK, ObjectTypes, EntryOnce
<1>3. DOMAIN list = 1..Len(list)
  BY DEF Placed, TypeOK, ObjectTypes
<1>. QED  BY <1>1, <1>2, <1>3 DEF Tracked, Listed

\* An object in hand is tracked by nobody but a borrower who holds it.
LEMMA HeldUntracked ==
  ASSUME Placed, NEW t \in Threads, held[t] # NoObject, t \notin Borrowers
  PROVE  held[t] \in Objects \ Tracked
  BY DEF Placed, TypeOK, PlaceTypes, EntryOnce, Tracked, Listed, Borrowers

LEMMA HeadSplits ==
  ASSUME Placed, list # <<>>
  PROVE  /\ Listed = { Tail(list)[k] : k \in DOMAIN Tail(list) } \cup {Head(list)}
         /\ Head(list) \notin { Tail(list)[k] : k \in DOMAIN Tail(list) }
         /\ Head(list) \in Listed
         /\ \A u \in Threads : held[u] # Head(list)
<1>1. /\ Len(list) \in Nat /\ Len(list) > 0
      /\ Head(list) = list[1]
      /\ DOMAIN list = 1..Len(list)
      /\ DOMAIN Tail(list) = 1..(Len(list) - 1)
      /\ \A k \in 1..(Len(list) - 1) : Tail(list)[k] = list[k + 1]
  BY DEF Placed, TypeOK, ObjectTypes
<1>2. \A k \in DOMAIN list :
         k # 1 => list[k] = Tail(list)[k - 1] /\ k - 1 \in DOMAIN Tail(list)
  BY <1>1
<1>3. \A k \in DOMAIN Tail(list) : list[k + 1] = Tail(list)[k] /\ k + 1 \in DOMAIN list
  BY <1>1
<1>4. \A k \in DOMAIN Tail(list) : Tail(list)[k] # list[1]
  BY <1>1, <1>3 DEF Placed, EntryOnce
<1>5. 1 \in DOMAIN list /\ list[1] \in Objects
  BY <1>1 DEF Placed, TypeOK, ObjectTypes
<1>6. \A u \in Threads : held[u] # list[1]
  BY <1>5, NoObjectAssumption DEF Placed, EntryOnce
<1>7. Listed = { Tail(list)[k] : k \in DOMAIN Tail(list) } \cup {list[1]}
  BY <1>2, <1>3, <1>5 DEF Listed
<1>. QED  BY <1>1, <1>4, <1>5, <1>6, <1>7 DEF Listed

LEMMA TakeTracked ==
  ASSUME Placed, NEW t \in Threads, TakeHead(t)
  PROVE  /\ Head(list) \in Tracked
         /\ Verdict(t, Head(list)) # "free" => Tracked' = Tracked
         /\ Verdict(t, Head(list)) = "free" => Tracked' = Tracked \ {Head(list)}
<1>1. /\ list # <<>> /\ list' = Tail(list) /\ pc[t] = "walk"
      /\ held' = [held EXCEPT ![t] = Head(list)]
      /\ pc' = [pc EXCEPT ![t] = Verdict(t, Head(list))]
  BY DEF TakeHead, Goes
<1>2. /\ Verdict(t, Head(list)) \in {"wrapped", "free", "matched", "other"}
  BY DEF Verdict
<1>3. /\ t \notin Borrowers
      /\ \A u \in Threads \ {t} : u \in Borrowers' <=> u \in Borrowers
      /\ t \in Borrowers' <=> Verdict(t, Head(list)) # "free"
  BY <1>1, <1>2 DEF Borrowers, Placed, TypeOK, PlaceTypes
<1>4. /\ \A u \in Threads \ {t} : held'[u] = held[u]
      /\ held'[t] = Head(list)
  BY <1>1 DEF Placed, TypeOK, PlaceTypes
<1>5. Listed' = { Tail(list)[k] : k \in DOMAIN Tail(list) }
  BY <1>1 DEF Listed
<1>6. \A u \in Borrowers : u # t /\ u \in Threads
  BY <1>3 DEF Borrowers
<1>7. Borrowers' \subseteq Threads
  BY DEF Borrowers
<1>8. { held'[u] : u \in Borrowers' } =
        { held[u] : u \in Borrowers }
          \cup (IF Verdict(t, Head(list)) = "free" THEN {} ELSE {Head(list)})
  BY <1>3, <1>4, <1>6, <1>7
<1>9. Tracked' = Listed' \cup { held'[u] : u \in Borrowers' }
  BY DEF Tracked
<1>10. Head(list) \notin { held[u] : u \in Borrowers }
  BY <1>1, <1>6, HeadSplits
<1>. QED  BY <1>1, <1>5, <1>8, <1>9, <1>10, HeadSplits DEF Tracked

LEMMA FetchTracked ==
  ASSUME Placed, NEW t \in Threads, Fetches(t)
  PROVE  Head(list) \in Tracked /\ Tracked' = Tracked \ {Head(list)}
<1>1. /\ list # <<>> /\ list' = Tail(list) /\ pc[t] = "fetch"
      /\ held' = [held EXCEPT ![t] = Head(list)]
      /\ pc' = [pc EXCEPT ![t] = "stop"]
  BY DEF Fetches, Goes
<1>2. /\ Borrowers' = Borrowers /\ t \notin Borrowers /\ Borrowers \subseteq Threads
  BY <1>1 DEF Borrowers, Placed, TypeOK, PlaceTypes
<1>3. \A u \in Borrowers : held'[u] = held[u]
  BY <1>1, <1>2 DEF Placed, TypeOK, PlaceTypes
<1>4. Listed' = { Tail(list)[k] : k \in DOMAIN Tail(list) }
  BY <1>1 DEF Listed
<1>. QED  BY <1>1, <1>2, <1>3, <1>4, HeadSplits DEF Tracked

\* Appending makes the entry listed.
LEMMA PutTracked ==
  ASSUME Placed, NEW t \in Threads, PutBack(t), pc[t] \in Holding,
         pc' = [pc EXCEPT ![t] = pc'[t]], pc'[t] \notin {"other", "matched", "wrapped"}
  PROVE  Tracked' = Tracked \cup {held[t]}
<1>1. /\ list' = Append(list, held[t])
      /\ held' = [held EXCEPT ![t] = NoObject]
  BY DEF PutBack
<1>2. held[t] \in Objects /\ held[t] # NoObject
  BY DEF Placed, TypeOK, PlaceTypes
<1>3. /\ Len(list) \in Nat
      /\ DOMAIN list = 1..Len(list)
      /\ DOMAIN list' = 1..(Len(list) + 1)
      /\ \A k \in DOMAIN list' :
            list'[k] = IF k = Len(list) + 1 THEN held[t] ELSE list[k]
  BY <1>1, <1>2 DEF Placed, TypeOK, ObjectTypes
<1>4. Listed' = Listed \cup {held[t]}
  <2>1. \A k \in DOMAIN list : k \in DOMAIN list' /\ list'[k] = list[k]
    BY <1>3
  <2>2. Len(list) + 1 \in DOMAIN list' /\ list'[Len(list) + 1] = held[t]
    BY <1>3
  <2>3. \A k \in DOMAIN list' : k = Len(list) + 1 \/ k \in DOMAIN list
    BY <1>3
  <2>. QED  BY <2>1, <2>2, <2>3 DEF Listed
<1>5. Borrowers' = Borrowers \ {t}
  BY DEF Borrowers, Placed, TypeOK, PlaceTypes
<1>6. \A u \in Borrowers \ {t} : held'[u] = held[u]
  BY <1>1 DEF Borrowers, Placed, TypeOK, PlaceTypes
<1>7. { held'[u] : u \in Borrowers' } = { held[u] : u \in Borrowers \ {t} }
  BY <1>5, <1>6
<1>. QED  BY <1>4, <1>7 DEF Tracked

\* Every other step leaves the set alone.
LEMMA SameTracked ==
  ASSUME Placed, NEW t \in Threads, UNCHANGED list,
         held' = [held EXCEPT ![t] = held'[t]], pc' = [pc EXCEPT ![t] = pc'[t]],
         pc[t] \notin {"other", "matched", "wrapped"},
         pc'[t] \notin {"other", "matched", "wrapped"}
  PROVE  Tracked' = Tracked
<1>1. Borrowers' = Borrowers /\ t \notin Borrowers /\ Borrowers \subseteq Threads
  BY DEF Borrowers, Placed, TypeOK, PlaceTypes
<1>2. \A u \in Borrowers : held'[u] = held[u]
  BY <1>1 DEF Placed, TypeOK, PlaceTypes
<1>3. Listed' = Listed
  BY DEF Listed
<1>. QED  BY <1>1, <1>2, <1>3 DEF Tracked

-----------------------------------------------------------------------------
(* LoneWalks: what a search that nobody overlaps has seen.                   *)

\* LoneWalks, for one thread.
LoneWalk(t) ==
    op[t] # "idle" /\ ~overlapped[t] =>
        /\ \A u \in Threads : u # t => op[u] = "idle"
        /\ pc[t] = "other" => first[t] # NoFile
        /\ pc[t] \in {"walk", "other"} /\ first[t] # NoFile => Compared(t)
        /\ pc[t] = "wrapped" => Registry!Matches(t) = {} \/ Registry!Ambiguous

LEMMA WalkPlaces ==
  ASSUME Placed, NEW t \in Threads, Walk(t)
  PROVE  /\ pc[t] # "idle" /\ op[t] # "idle"
         /\ UNCHANGED <<overlapped, target>>
<1>1. pc[t] # "idle"
  BY DEF Walk, TakeHead, FindsListEmpty, PutsOtherBack, PutsMatchBack, WrapsAround,
         CloseFrees, Allocates, Inserts, Fetches, StopsThread, AllFetched
<1>2. UNCHANGED <<overlapped, target>>
  BY DEF Walk, TakeHead, FindsListEmpty, PutsOtherBack, PutsMatchBack, WrapsAround,
         CloseFrees, Allocates, Inserts, Fetches, StopsThread, AllFetched, PutBack,
         callVars
<1>. QED  BY <1>1, <1>2 DEF Placed, TypeOK, PlaceTypes

\* Another thread's step overlaps t, or is impossible.
LEMMA LoneWalkOthers ==
  ASSUME Placed, LoneWalks, NEW t \in Threads, Call(t) \/ Walk(t),
         NEW u \in Threads, u # t
  PROVE  LoneWalk(u)'
<1>. SUFFICES ASSUME op'[u] # "idle", ~overlapped'[u] PROVE FALSE
  BY DEF LoneWalk
<1>1. op[u] # "idle"
  BY OwnVariables DEF Placed
<1>2. CASE Call(t)
  BY <1>1, <1>2, CallOverlaps
<1>3. CASE Walk(t)
  <2>1. op[t] # "idle" /\ ~overlapped[u]
    BY <1>3, WalkPlaces
  <2>. QED  BY <1>1, <2>1 DEF LoneWalks
<1>. QED  BY <1>2, <1>3

\* A sequence whose head has been moved to its end.
LEMMA TurnedSequence ==
  ASSUME NEW s \in Seq(Objects), s # <<>>
  PROVE  /\ Len(s) \in 1..Len(s)
         /\ DOMAIN Append(Tail(s), s[1]) = 1..Len(s)
         /\ Append(Tail(s), s[1])[Len(s)] = s[1]
         /\ \A j \in 1..Len(s) : j # Len(s) => Append(Tail(s), s[1])[j] = s[j + 1]
<1>1. PICK n \in Nat : Len(s) = n
  OBVIOUS
<1>2. n # 0
  BY <1>1
<1>3. Tail(s) \in Seq(Objects) /\ Len(Tail(s)) = n - 1 /\ s[1] \in Objects
  BY <1>1, <1>2
<1>4. \A j \in 1..(n - 1) : Tail(s)[j] = s[j + 1]
  BY <1>1, <1>2
<1>5. PICK r \in Seq(Objects) : r = Tail(s)
  BY <1>3
<1>6. /\ Len(Append(r, s[1])) = n
      /\ DOMAIN Append(r, s[1]) = 1..n
      /\ Append(r, s[1])[n] = s[1]
      /\ \A j \in 1..(n - 1) : Append(r, s[1])[j] = r[j]
  BY <1>2, <1>3, <1>5
<1>7. n \in 1..n /\ \A j \in 1..n : j # n => j \in 1..(n - 1)
  BY <1>2
<1>. QED  BY <1>1, <1>4, <1>5, <1>6, <1>7

LEMMA LoneTake ==
  ASSUME Placed, LoneWalks, NEW t \in Threads, TakeHead(t),
         op[t] # "idle", ~overlapped[t]
  PROVE  /\ pc'[t] = "other" => first'[t] # NoFile /\ Compared(t)'
         /\ pc'[t] = "wrapped" => Registry!Matches(t)' = {} \/ Registry!Ambiguous'
<1>1. /\ list # <<>> /\ list' = Tail(list) /\ pc[t] = "walk"
      /\ held' = [held EXCEPT ![t] = Head(list)]
      /\ pc' = [pc EXCEPT ![t] = Verdict(t, Head(list))]
      /\ UNCHANGED <<file, target>>
      /\ first' = IF first[t] = NoFile
                  THEN [first EXCEPT ![t] = file[Head(list)]] ELSE first
  BY DEF TakeHead, Goes, Recorded, callVars
<1>2. /\ pc'[t] = Verdict(t, Head(list)) /\ held'[t] = Head(list)
      /\ first'[t] = IF first[t] = NoFile THEN file[Head(list)] ELSE first[t]
  BY <1>1 DEF Placed, TypeOK, CallTypes, PlaceTypes
<1>3. /\ Len(list) \in Nat /\ Len(list) > 0
      /\ Head(list) = list[1] /\ list[1] \in Objects
      /\ DOMAIN list = 1..Len(list)
      /\ Tail(list) \in Seq(Objects) /\ Len(Tail(list)) = Len(list) - 1
      /\ \A k \in 1..(Len(list) - 1) : Tail(list)[k] = list[k + 1]
  BY <1>1 DEF Placed, TypeOK, ObjectTypes
<1>4. file[list[1]] # NoFile
  BY <1>3 DEF Placed, EntryOnce
<1>5. first[t] # NoFile =>
        \E k \in DOMAIN list :
           /\ file[list[k]] = first[t]
           /\ \A j \in DOMAIN list : j >= k => file[list[j]] # target[t]
  BY <1>1 DEF LoneWalks, Compared, Line
<1>6. ASSUME pc'[t] = "other"
      PROVE  first'[t] # NoFile /\ Compared(t)'
  <2>0. Len(list) \in Nat
    BY <1>3
  <2>1. /\ file[list[1]] # target[t]
        /\ first[t] = NoFile \/ file[list[1]] # first[t]
    BY <1>2, <1>3, <1>6 DEF Verdict
  <2>. DEFINE turned == Append(Tail(list), list[1])
  <2>2. Line(t)' = turned
    BY <1>1, <1>2, <1>3, <1>6 DEF Line
  <2>3. /\ DOMAIN turned = 1..Len(list)
        /\ turned[Len(list)] = list[1]
        /\ \A j \in 1..Len(list) : j # Len(list) => turned[j] = list[j + 1]
    BY <1>1, <1>3, TurnedSequence DEF Placed, TypeOK, ObjectTypes
  <2>. HIDE DEF turned
  <2>4. SUFFICES \E k \in 1..Len(list) :
                    /\ file[turned[k]] = first'[t]
                    /\ \A j \in 1..Len(list) : j >= k => file[turned[j]] # target[t]
    <3>1. first'[t] # NoFile
      BY <1>2, <1>3, <1>4
    <3>. QED  BY <1>1, <2>2, <2>3, <3>1 DEF Compared
  <2>5. CASE first[t] = NoFile
    <3>1. Len(list) \in 1..Len(list) /\ file[turned[Len(list)]] = first'[t]
      BY <1>1, <1>2, <1>3, <2>3, <2>5, TurnedSequence DEF Placed, TypeOK, ObjectTypes
    <3>2. \A j \in 1..Len(list) : j >= Len(list) => j = Len(list)
      BY <2>0
    <3>. QED  BY <2>1, <2>3, <3>1, <3>2
  <2>6. CASE first[t] # NoFile
    <3>1. PICK k \in 1..Len(list) :
             /\ file[list[k]] = first[t]
             /\ \A j \in 1..Len(list) : j >= k => file[list[j]] # target[t]
      BY <1>3, <1>5, <2>6
    <3>2. k # 1
      BY <2>1, <2>6, <3>1
    <3>3. k - 1 \in 1..Len(list) /\ k - 1 # Len(list) /\ (k - 1) + 1 = k
      BY <1>3, <3>1, <3>2
    <3>4. file[turned[k - 1]] = first'[t]
      BY <1>2, <2>3, <2>6, <3>1, <3>3
    <3>5. ASSUME NEW j \in 1..Len(list), j >= k - 1
          PROVE  file[turned[j]] # target[t]
      <4>1. CASE j = Len(list)
        BY <2>1, <2>3, <4>1
      <4>2. CASE j # Len(list)
        <5>1. j + 1 \in 1..Len(list) /\ j + 1 >= k
          BY <2>0, <3>5, <4>2
        <5>. QED  BY <2>3, <3>1, <4>2, <5>1
      <4>. QED  BY <4>1, <4>2
    <3>. QED  BY <3>3, <3>4, <3>5
  <2>. QED  BY <2>5, <2>6
<1>7. ASSUME pc'[t] = "wrapped"
      PROVE  Registry!Matches(t)' = {} \/ Registry!Ambiguous'
  <2>1. first[t] # NoFile /\ file[list[1]] = first[t]
    BY <1>2, <1>3, <1>7 DEF Verdict
  <2>2. PICK k \in 1..Len(list) :
             /\ file[list[k]] = first[t]
             /\ \A j \in 1..Len(list) : j >= k => file[list[j]] # target[t]
    BY <1>3, <1>5, <2>1
  <2>3. Borrowers = {}
    <3>1. \A u \in Threads : u # t => pc[u] = "idle"
      BY DEF LoneWalks, Placed, TypeOK, PlaceTypes
    <3>. QED  BY <1>1, <3>1 DEF Borrowers
  <2>4. Tracked' = { list[j] : j \in 1..Len(list) }
    BY <1>2, <1>7, <2>3, TakeTracked, TrackedObjects DEF Tracked
  <2>5. CASE k = 1
    <3>1. \A j \in 1..Len(list) : file[list[j]] # target[t]
      BY <1>3, <2>2, <2>5
    <3>2. Registry!Matches(t)' = {}
      BY <1>1, <2>4, <3>1 DEF Registry!Matches
    <3>. QED  BY <3>2
  <2>6. CASE k # 1
    <3>1. 1 \in 1..Len(list) /\ list[1] # list[k]
      BY <1>3, <2>6 DEF Placed, EntryOnce
    <3>2. list[1] \in Tracked' /\ list[k] \in Tracked' /\ file'[list[1]] = file'[list[k]]
      BY <1>1, <2>1, <2>2, <2>4, <3>1
    <3>. QED  BY <3>1, <3>2 DEF Registry!Ambiguous
  <2>. QED  BY <2>5, <2>6
<1>. QED  BY <1>6, <1>7

LEMMA LoneWalkOwn ==
  ASSUME Placed, LoneWalks, NEW t \in Threads, Call(t) \/ Walk(t)
  PROVE  LoneWalk(t)'
<1>. SUFFICES ASSUME op'[t] # "idle", ~overlapped'[t]
              PROVE  /\ \A u \in Threads : u # t => op'[u] = "idle"
                     /\ pc'[t] = "other" => first'[t] # NoFile
                     /\ pc'[t] \in {"walk", "other"} /\ first'[t] # NoFile => Compared(t)'
                     /\ pc'[t] = "wrapped" => \/ Registry!Matches(t)' = {}
                                             \/ Registry!Ambiguous'
  BY DEF LoneWalk
<1>1. CASE Call(t)
  <2>1. \A u \in Threads : op[u] = "idle"
    BY <1>1, CallOverlaps
  <2>2. \A u \in Threads : u # t => op'[u] = "idle"
    BY <2>1, OwnVariables DEF Placed
  <2>3. first'[t] = NoFile /\ pc'[t] \in {"walk", "fetch"}
    BY <1>1, CallBegins DEF Placed, TypeOK, CallTypes, PlaceTypes
  <2>. QED  BY <2>2, <2>3
<1>2. CASE Walk(t)
  <2>1. op[t] # "idle" /\ ~overlapped[t]
    BY <1>2, WalkPlaces
  <2>2. \A u \in Threads : u # t => op'[u] = "idle"
    BY <2>1, OwnVariables DEF LoneWalks, Placed
  <2>3. CASE TakeHead(t)
    <3>1. pc'[t] \in {"wrapped", "free", "matched", "other"}
      BY <2>3 DEF TakeHead, Goes, Verdict, Placed, TypeOK, PlaceTypes
    <3>. QED  BY <2>1, <2>2, <2>3, <3>1, LoneTake
  <2>4. CASE PutsOtherBack(t)
    <3>1. /\ pc[t] = "other" /\ pc'[t] = "walk"
          /\ list' = Append(list, held[t])
          /\ UNCHANGED <<file, target, first>>
      BY <2>4 DEF PutsOtherBack, PutBack, Goes, Placed, TypeOK, PlaceTypes
    <3>2. Line(t)' = Line(t)
      BY <3>1 DEF Line
    <3>3. first[t] # NoFile => Compared(t)
      BY <2>1, <3>1 DEF LoneWalks
    <3>. QED  BY <2>2, <3>1, <3>2, <3>3 DEF Compared
  <2>5. CASE ~TakeHead(t) /\ ~PutsOtherBack(t)
    <3>1. pc'[t] \notin {"walk", "other", "wrapped"}
      BY <1>2, <2>5
      DEF Walk, FindsListEmpty, PutsMatchBack, WrapsAround, CloseFrees, Allocates,
          Inserts, Fetches, StopsThread, AllFetched, SearchFails, Return, Goes,
          Placed, TypeOK, PlaceTypes
    <3>. QED  BY <2>2, <3>1
  <2>. QED  BY <2>3, <2>4, <2>5
<1>. QED  BY <1>1, <1>2

LEMMA LoneWalksStep == Placed /\ LoneWalks /\ [Next]_vars => LoneWalks'
<1>. SUFFICES ASSUME Placed, LoneWalks, [Next]_vars PROVE LoneWalks'
  OBVIOUS
<1>1. ASSUME UNCHANGED <<list, file, op, overlapped, pc, target, first, held>>
      PROVE  LoneWalks'
  <2>1. \A t \in Threads : Compared(t)' <=> Compared(t)
    BY <1>1 DEF Compared, Line
  <2>2. Tracked' = Tracked
    BY <1>1 DEF Tracked, Listed, Borrowers
  <2>3. /\ \A t \in Threads : Registry!Matches(t)' = Registry!Matches(t)
        /\ Registry!Ambiguous' <=> Registry!Ambiguous
    BY <1>1, <2>2 DEF Registry!Matches, Registry!Ambiguous
  <2>. QED  BY <1>1, <2>1, <2>3 DEF LoneWalks
<1>2. ASSUME NEW t \in Threads, Call(t) \/ Walk(t) PROVE LoneWalks'
  <2>1. \A u \in Threads : LoneWalk(u)'
    BY <1>2, LoneWalkOwn, LoneWalkOthers
  <2>. QED  BY <2>1 DEF LoneWalks, LoneWalk
<1>3. CASE UNCHANGED vars
  BY <1>1, <1>3 DEF vars
<1>4. ASSUME NEW f \in Files, OpenedUnseen(f) \/ ClosedUnseen(f) PROVE LoneWalks'
  BY <1>1, <1>4 DEF OpenedUnseen, ClosedUnseen
<1>. QED  BY <1>2, <1>3, <1>4 DEF Next

(* The invariant behind the refinement: a search that no call overlaps has   *)
(* compared everything from the entry it saw first to the tail of the list,  *)
(* so that coming round to that file means that nothing was missed.          *)
THEOREM ListInvariantCorrect == Spec => []ListInv
<1>1. Init => LoneWalks
  BY DEF Init, LoneWalks
<1>2. Spec => []LoneWalks
  BY ListTypeCorrect, EntryOnceCorrect, LoneWalksStep, <1>1, PTL DEF Spec, Placed
<1>. QED  BY ListTypeCorrect, EntryOnceCorrect, <1>2, PTL DEF ListInv

-----------------------------------------------------------------------------
(* The steps.                                                                *)

\* Nothing the registry sees of the list changes.
Unseen == UNCHANGED <<Tracked, file, op, target, overlapped, answer>>

LEMMA UnseenStutters == Unseen => UNCHANGED Registry!vars
  BY DEF Unseen, Registry!vars

LEMMA BeginRefines ==
  ASSUME Placed, NEW t \in Threads, Call(t)
  PROVE  Registry!Begin(t)
<1>1. \E place \in {"walk", "fetch"} : pc' = [pc EXCEPT ![t] = place]
  BY CallBegins
<1>2. pc[t] = "idle" /\ pc'[t] \in {"walk", "fetch"} /\ pc' = [pc EXCEPT ![t] = pc'[t]]
  BY <1>1, CallBegins DEF Placed, TypeOK, PlaceTypes
<1>3. UNCHANGED <<list, file, held>> /\ held' = [held EXCEPT ![t] = held'[t]]
  BY CallBegins DEF Placed, TypeOK, PlaceTypes
<1>4. Tracked' = Tracked
  BY <1>2, <1>3, SameTracked
<1>5. \E call \in Registry!Ops \ {"idle"} : op' = [op EXCEPT ![t] = call]
  BY CallBegins DEF Registry!Ops
<1>6. \E f \in Files \cup {NoFile} : target' = [target EXCEPT ![t] = f]
  BY CallBegins
<1>. QED  BY <1>3, <1>4, <1>5, <1>6, CallBegins, CallOverlaps DEF Registry!Begin

\* A call that is alone has no borrower beside it.
LEMMA AloneTracked ==
  ASSUME Placed, LoneWalks, NEW t \in Threads, op[t] # "idle", ~overlapped[t],
         pc[t] \in {"walk", "fetch"}, list = <<>>
  PROVE  Tracked = {}
<1>1. \A u \in Threads : u # t => pc[u] = "idle"
  BY DEF LoneWalks, Placed, TypeOK, PlaceTypes
<1>2. Borrowers = {}
  BY <1>1 DEF Borrowers
<1>3. Listed = {}
  BY DEF Listed
<1>. QED  BY <1>2, <1>3 DEF Tracked

LEMMA TakeRefines ==
  ASSUME Placed, NEW t \in Threads, TakeHead(t)
  PROVE  Registry!Remove(t) \/ Unseen
<1>1. /\ UNCHANGED <<file, op, target, overlapped>> /\ pc[t] = "walk"
      /\ answer' = IF Verdict(t, Head(list)) = "free"
                   THEN [answer EXCEPT ![t] = "found"] ELSE answer
  BY DEF TakeHead, callVars
<1>2. CASE Verdict(t, Head(list)) = "free"
  <2>1. op[t] = "close" /\ answer[t] = "none" /\ file[Head(list)] = target[t]
    BY <1>1, <1>2 DEF Verdict, Placed, CallPlaces
  <2>2. Head(list) \in Registry!Matches(t) /\ Tracked' = Tracked \ {Head(list)}
    BY <1>2, <2>1, TakeTracked DEF Registry!Matches
  <2>. QED  BY <1>1, <1>2, <2>1, <2>2 DEF Registry!Remove
<1>3. CASE Verdict(t, Head(list)) # "free"
  BY <1>1, <1>3, TakeTracked DEF Unseen
<1>. QED  BY <1>2, <1>3

\* The search of t fails, for one of the reasons the registry allows.
LEMMA FailRefines ==
  ASSUME Placed, NEW t \in Threads, pc[t] \in {"walk", "wrapped"}, SearchFails(t),
         Tracked' = Tracked, UNCHANGED <<file, target, overlapped>>,
         Registry!Matches(t) = {} \/ overlapped[t] \/ Registry!Ambiguous
  PROVE  Registry!Miss(t)
<1>1. op[t] \in {"create", "find", "close"} /\ answer[t] = "none"
  BY DEF Placed, CallPlaces
<1>2. /\ answer' = [answer EXCEPT ![t] = "absent"]
      /\ op' = IF op[t] = "create" THEN op ELSE [op EXCEPT ![t] = "idle"]
  BY DEF SearchFails, Return
<1>. QED  BY <1>1, <1>2 DEF Registry!Miss, Registry!Returns

LEMMA EmptyRefines ==
  ASSUME Placed, LoneWalks, NEW t \in Threads, FindsListEmpty(t)
  PROVE  Registry!Miss(t)
<1>1. /\ pc[t] = "walk" /\ list = <<>> /\ SearchFails(t)
      /\ UNCHANGED <<list, file, target, held, overlapped>>
  BY DEF FindsListEmpty
<1>2. op[t] # "idle"
  BY <1>1 DEF Placed, TypeOK, PlaceTypes
<1>3. pc' = [pc EXCEPT ![t] = pc'[t]] /\ pc'[t] \in {"allocate", "idle"}
  BY <1>1 DEF SearchFails, Return, Goes, Placed, TypeOK, PlaceTypes
<1>4. held' = [held EXCEPT ![t] = held'[t]]
  BY <1>1 DEF Placed, TypeOK, PlaceTypes
<1>5. Tracked' = Tracked
  BY <1>1, <1>3, <1>4, SameTracked
<1>6. Registry!Matches(t) = {} \/ overlapped[t]
  BY <1>1, <1>2, AloneTracked DEF Registry!Matches
<1>. QED  BY <1>1, <1>5, <1>6, FailRefines

LEMMA BorrowedTracked ==
  ASSUME Placed, NEW t \in Threads, PutBack(t),
         PutsOtherBack(t) \/ PutsMatchBack(t) \/ WrapsAround(t)
  PROVE  held[t] \in Tracked /\ Tracked' = Tracked
<1>1. pc[t] \in {"other", "matched", "wrapped"}
  BY DEF PutsOtherBack, PutsMatchBack, WrapsAround
<1>2. /\ pc' = [pc EXCEPT ![t] = pc'[t]]
      /\ pc'[t] \in {"walk", "allocate", "idle"}
  BY DEF PutsOtherBack, PutsMatchBack, WrapsAround, SearchFails, Return, Goes,
         Placed, TypeOK, PlaceTypes
<1>3. held[t] \in Tracked
  BY <1>1 DEF Tracked, Borrowers
<1>. QED  BY <1>1, <1>2, <1>3, PutTracked DEF Holding

LEMMA WrapRefines ==
  ASSUME Placed, LoneWalks, NEW t \in Threads, WrapsAround(t)
  PROVE  Registry!Miss(t)
<1>1. /\ pc[t] = "wrapped" /\ SearchFails(t) /\ PutBack(t)
      /\ UNCHANGED <<file, target, overlapped>>
  BY DEF WrapsAround, PutBack
<1>2. op[t] # "idle"
  BY <1>1 DEF Placed, TypeOK, PlaceTypes
<1>3. Registry!Matches(t) = {} \/ overlapped[t] \/ Registry!Ambiguous
  BY <1>1, <1>2 DEF LoneWalks
<1>. QED  BY <1>1, <1>3, BorrowedTracked, FailRefines

LEMMA PutRefines ==
  ASSUME Placed, NEW t \in Threads, PutsOtherBack(t) \/ PutsMatchBack(t)
  PROVE  Registry!Find(t) \/ Unseen
<1>1. /\ PutBack(t) /\ UNCHANGED <<file, target, overlapped>>
      /\ held[t] \in Tracked /\ Tracked' = Tracked
  BY BorrowedTracked DEF PutsOtherBack, PutsMatchBack, PutBack
<1>2. CASE PutsOtherBack(t)
  BY <1>1, <1>2 DEF PutsOtherBack, Unseen
<1>3. CASE PutsMatchBack(t)
  <2>1. /\ op[t] \in {"find", "create"} /\ answer[t] = "none"
        /\ file[held[t]] = target[t]
    BY <1>3 DEF PutsMatchBack, Placed, CallPlaces
  <2>2. Registry!Matches(t) # {}
    BY <1>1, <2>1 DEF Registry!Matches
  <2>. QED
    BY <1>1, <1>3, <2>1, <2>2
    DEF PutsMatchBack, Return, Registry!Find, Registry!Returns
<1>. QED  BY <1>2, <1>3

LEMMA CloseRefines ==
  ASSUME Placed, NEW t \in Threads, CloseFrees(t)
  PROVE  Registry!Free(t)
<1>1. /\ pc[t] = "free" /\ UNCHANGED <<list, target, answer, overlapped>>
      /\ file' = [file EXCEPT ![held[t]] = NoFile]
      /\ held' = [held EXCEPT ![t] = NoObject]
      /\ op' = [op EXCEPT ![t] = "idle"] /\ pc' = [pc EXCEPT ![t] = "idle"]
  BY DEF CloseFrees, Return, Goes
<1>2. op[t] = "close" /\ answer[t] = "found"
  BY <1>1 DEF Placed, CallPlaces
<1>3. held[t] \in Objects \ Tracked
  BY <1>1, HeldUntracked DEF Placed, TypeOK, PlaceTypes, Holding, Borrowers
<1>4. /\ held' = [held EXCEPT ![t] = held'[t]]
      /\ pc' = [pc EXCEPT ![t] = pc'[t]] /\ pc'[t] = "idle"
  BY <1>1 DEF Placed, TypeOK, PlaceTypes
<1>5. Tracked' = Tracked
  BY <1>1, <1>4, SameTracked
<1>. QED  BY <1>1, <1>2, <1>3, <1>5 DEF Registry!Free, Registry!Returns

LEMMA AllocateRefines ==
  ASSUME Placed, NEW t \in Threads, Allocates(t)
  PROVE  Registry!Make(t)
<1>1. pc[t] = "allocate" /\ UNCHANGED <<list, target, answer, overlapped>>
  BY DEF Allocates
<1>2. op[t] = "create" /\ answer[t] = "absent"
  BY <1>1 DEF Placed, CallPlaces
<1>3. \/ \E o \in Objects : /\ file[o] = NoFile
                             /\ file' = [file EXCEPT ![o] = target[t]]
                             /\ held' = [held EXCEPT ![t] = o]
                             /\ pc' = [pc EXCEPT ![t] = "insert"]
                             /\ UNCHANGED op
      \/ /\ op' = [op EXCEPT ![t] = "idle"] /\ pc' = [pc EXCEPT ![t] = "idle"]
         /\ UNCHANGED <<file, held>>
  BY DEF Allocates, Unallocated, Return, Goes
<1>4. /\ held' = [held EXCEPT ![t] = held'[t]]
      /\ pc' = [pc EXCEPT ![t] = pc'[t]] /\ pc'[t] \in {"insert", "idle"}
  BY <1>3 DEF Placed, TypeOK, PlaceTypes
<1>5. Tracked' = Tracked
  BY <1>1, <1>4, SameTracked
<1>6. \A o \in Objects : file[o] = NoFile => o \in Objects \ Tracked
  BY TrackedObjects
<1>. QED  BY <1>1, <1>2, <1>3, <1>5, <1>6 DEF Registry!Make, Registry!Returns

LEMMA InsertRefines ==
  ASSUME Placed, NEW t \in Threads, Inserts(t)
  PROVE  Registry!Add(t)
<1>1. /\ pc[t] = "insert" /\ PutBack(t) /\ UNCHANGED <<file, target, overlapped, answer>>
      /\ op' = [op EXCEPT ![t] = "idle"] /\ pc' = [pc EXCEPT ![t] = "idle"]
  BY DEF Inserts, Return, Goes, PutBack
<1>2. op[t] = "create" /\ answer[t] = "absent" /\ file[held[t]] = target[t]
  BY <1>1 DEF Placed, CallPlaces
<1>3. held[t] \in Objects \ Tracked
  BY <1>1, HeldUntracked DEF Placed, TypeOK, PlaceTypes, Holding, Borrowers
<1>4. pc' = [pc EXCEPT ![t] = pc'[t]] /\ pc'[t] = "idle" /\ pc[t] \in Holding
  BY <1>1 DEF Placed, TypeOK, PlaceTypes, Holding
<1>5. Tracked' = Tracked \cup {held[t]}
  BY <1>1, <1>4, PutTracked
<1>. QED  BY <1>1, <1>2, <1>3, <1>5 DEF Registry!Add, Registry!Returns

LEMMA ClearRefines ==
  ASSUME Placed, LoneWalks, NEW t \in Threads,
         Fetches(t) \/ StopsThread(t) \/ AllFetched(t)
  PROVE  Registry!Withdraw(t) \/ Registry!Cleared(t) \/ Unseen
<1>1. /\ op[t] = "clear"
      /\ UNCHANGED <<file, target, overlapped, answer>>
  BY DEF Fetches, StopsThread, AllFetched, callVars, Placed, CallPlaces
<1>2. CASE Fetches(t)
  BY <1>1, <1>2, FetchTracked DEF Registry!Withdraw, Fetches, callVars
<1>3. CASE StopsThread(t)
  <2>1. /\ held' = [held EXCEPT ![t] = held'[t]] /\ pc[t] = "stop"
        /\ pc' = [pc EXCEPT ![t] = pc'[t]] /\ pc'[t] = "fetch"
        /\ UNCHANGED <<list, op>>
    BY <1>3 DEF StopsThread, Goes, callVars, Placed, TypeOK, PlaceTypes
  <2>. QED  BY <1>1, <2>1, SameTracked DEF Unseen
<1>4. CASE AllFetched(t)
  <2>1. /\ held' = [held EXCEPT ![t] = held'[t]] /\ pc[t] = "fetch"
        /\ pc' = [pc EXCEPT ![t] = pc'[t]] /\ pc'[t] = "idle"
        /\ list = <<>> /\ UNCHANGED list /\ op' = [op EXCEPT ![t] = "idle"]
    BY <1>4 DEF AllFetched, Return, Goes, Placed, TypeOK, PlaceTypes
  <2>2. Tracked = {} \/ overlapped[t]
    BY <1>1, <2>1, AloneTracked
  <2>3. Tracked' = Tracked
    BY <2>1, SameTracked
  <2>. QED  BY <1>1, <2>1, <2>2, <2>3 DEF Registry!Cleared, Registry!Returns
<1>. QED  BY <1>2, <1>3, <1>4

LEMMA StepRefines ==
  ASSUME ListInv, [Next]_vars
  PROVE  [Registry!Next]_(Registry!vars)
<1>1. Placed /\ LoneWalks
  BY DEF ListInv, Placed
<1>2. ASSUME NEW t \in Threads, Call(t) \/ Walk(t)
      PROVE  \/ Unseen
             \/ Registry!Begin(t) \/ Registry!Find(t) \/ Registry!Remove(t)
             \/ Registry!Free(t) \/ Registry!Miss(t) \/ Registry!Make(t)
             \/ Registry!Add(t) \/ Registry!Withdraw(t) \/ Registry!Cleared(t)
  BY <1>1, <1>2, BeginRefines, TakeRefines, EmptyRefines, WrapRefines, PutRefines,
     CloseRefines, AllocateRefines, InsertRefines, ClearRefines
  DEF Walk
<1>3. CASE UNCHANGED vars
  BY <1>3 DEF Registry!vars, vars, Tracked, Listed, Borrowers
<1>4. ASSUME NEW f \in Files, OpenedUnseen(f) \/ ClosedUnseen(f)
      PROVE  UNCHANGED Registry!vars
  BY <1>4 DEF OpenedUnseen, ClosedUnseen, Registry!vars, Tracked, Listed, Borrowers
<1>5. ASSUME NEW t \in Threads, Call(t) \/ Walk(t)
      PROVE  [Registry!Next]_(Registry!vars)
  BY <1>2, <1>5, UnseenStutters DEF Registry!Next
<1>. QED  BY <1>3, <1>4, <1>5 DEF Next

(* The walks, which take the list apart and put it together again, implement *)
(* the registry: no object is lost or invented, and an object that is        *)
(* tracked is missed only by an overlapped call or beside a second object    *)
(* for the same file.                                                        *)
THEOREM ListImplementsRegistry == Spec => ImplementsRegistry
<1>1. Init => Registry!Init
  BY DEF Init, Registry!Init, Tracked, Listed, Borrowers
<1>2. ListInv /\ [Next]_vars => [Registry!Next]_(Registry!vars)
  BY StepRefines
<1>. QED
  BY ListInvariantCorrect, <1>1, <1>2, PTL DEF Spec, ImplementsRegistry, Registry!Spec

-----------------------------------------------------------------------------
(* No call that is alone goes round for nothing: what LoneSearchEnds rests on. *)

\* What is left of a call, by place; a walk goes round in the first two.
WalkRank ==
    [p \in Places |-> CASE p \in {"walk", "other", "fetch", "stop"} -> 4
                        [] p = "wrapped"  -> 3
                        [] p = "allocate" -> 2
                        [] p \in {"matched", "free", "insert"} -> 1
                        [] p = "idle" -> 0]

\* Where the file seen first stands, counted from the head of the list.
Ahead(t) == { k \in DOMAIN Line(t) : file[Line(t)[k]] = first[t] }

\* A step of a call leaves a place for good, sees its first file, brings that
\* file one entry nearer or puts the entry back, fetches or drops an object.
WalkGoesOn(t) ==
    \/ WalkRank[pc'[t]] < WalkRank[pc[t]]
    \/ /\ pc[t] = "walk" /\ pc'[t] = "other"
       /\ first[t] = NoFile /\ first'[t] # NoFile
    \/ /\ pc[t] = "walk" /\ pc'[t] = "other"
       /\ first[t] # NoFile /\ first'[t] = first[t]
       /\ Ahead(t)' = { k - 1 : k \in Ahead(t) }
    \/ /\ pc[t] = "other" /\ pc'[t] = "walk"
       /\ first'[t] = first[t] /\ Ahead(t)' = Ahead(t)
    \/ pc[t] = "fetch" /\ pc'[t] = "stop" /\ Len(list') = Len(list) - 1
    \/ pc[t] = "stop" /\ pc'[t] = "fetch" /\ list' = list

\* What the walk of t depends on.
Undisturbed(t) ==
    /\ UNCHANGED <<list, file>>
    /\ pc'[t] = pc[t] /\ first'[t] = first[t] /\ held'[t] = held[t]

LoneCallGoesOn ==
    \A t \in Threads :
        op[t] # "idle" /\ ~overlapped'[t] => Undisturbed(t) \/ WalkGoesOn(t)

\* The file seen first is still on its way.
FirstIsAhead ==
    \A t \in Threads :
        /\ op[t] # "idle" /\ ~overlapped[t]
        /\ pc[t] \in {"walk", "other"} /\ first[t] # NoFile
        => Ahead(t) # {} /\ Ahead(t) \subseteq 1..Len(Line(t))

LEMMA WalkRankTypes ==
  /\ \A p \in Places : WalkRank[p] \in Nat
  /\ WalkRank["walk"] = 4 /\ WalkRank["other"] = 4
  /\ WalkRank["fetch"] = 4 /\ WalkRank["stop"] = 4
  /\ WalkRank["wrapped"] = 3 /\ WalkRank["allocate"] = 2
  /\ WalkRank["matched"] = 1 /\ WalkRank["free"] = 1 /\ WalkRank["insert"] = 1
  /\ WalkRank["idle"] = 0
  BY DEF WalkRank, Places

\* A walker takes the head: whatever is not the file it seeks comes nearer.
LEMMA TakeGoesOn ==
  ASSUME Placed, NEW t \in Threads, TakeHead(t)
  PROVE  WalkGoesOn(t)
<1>1. /\ list # <<>> /\ list' = Tail(list) /\ pc[t] = "walk"
      /\ UNCHANGED <<file, target>>
      /\ pc'[t] = Verdict(t, Head(list)) /\ held'[t] = Head(list)
      /\ first'[t] = IF first[t] = NoFile THEN file[Head(list)] ELSE first[t]
  BY DEF TakeHead, Goes, Recorded, callVars, Placed, TypeOK, CallTypes, PlaceTypes
<1>2. PICK n \in Nat : Len(list) = n
  BY DEF Placed, TypeOK, ObjectTypes
<1>3. n # 0 /\ DOMAIN list = 1..n /\ Head(list) = list[1] /\ list[1] \in Objects
  BY <1>1, <1>2 DEF Placed, TypeOK, ObjectTypes
<1>4. CASE pc'[t] # "other"
  <2>1. pc'[t] \in {"wrapped", "free", "matched"}
    BY <1>1, <1>4 DEF Verdict
  <2>. QED  BY <1>1, <2>1, WalkRankTypes DEF WalkGoesOn
<1>5. CASE pc'[t] = "other" /\ first[t] = NoFile
  <2>1. file[list[1]] # NoFile
    BY <1>3 DEF Placed, EntryOnce
  <2>. QED  BY <1>1, <1>3, <1>5, <2>1 DEF WalkGoesOn
<1>6. CASE pc'[t] = "other" /\ first[t] # NoFile
  <2>1. file[list[1]] # first[t]
    BY <1>1, <1>3, <1>6 DEF Verdict
  <2>. DEFINE turned == Append(Tail(list), list[1])
  <2>2. Line(t)' = turned /\ Line(t) = list
    BY <1>1, <1>3, <1>6 DEF Line
  <2>3. /\ DOMAIN turned = 1..n
        /\ turned[n] = list[1]
        /\ \A j \in 1..n : j # n => turned[j] = list[j + 1]
    BY <1>1, <1>2, TurnedSequence DEF Placed, TypeOK, ObjectTypes
  <2>. HIDE DEF turned
  <2>4. Ahead(t)' = { k \in 1..n : file[turned[k]] = first[t] }
    BY <1>1, <1>6, <2>2, <2>3 DEF Ahead
  <2>5. Ahead(t) = { k \in 1..n : file[list[k]] = first[t] }
    BY <1>3, <2>2 DEF Ahead
  <2>6. ASSUME NEW k \in Ahead(t)
        PROVE  k - 1 \in Ahead(t)'
    <3>1. k \in 1..n /\ file[list[k]] = first[t] /\ k # 1
      BY <2>1, <2>5, <2>6
    <3>2. k - 1 \in 1..n /\ k - 1 # n /\ (k - 1) + 1 = k
      BY <3>1
    <3>. QED  BY <2>3, <2>4, <3>1, <3>2
  <2>7. ASSUME NEW j \in Ahead(t)'
        PROVE  \E k \in Ahead(t) : j = k - 1
    <3>1. j \in 1..n /\ file[turned[j]] = first[t] /\ j # n
      BY <2>1, <2>3, <2>4, <2>7
    <3>2. j + 1 \in 1..n /\ j = (j + 1) - 1
      BY <3>1
    <3>. QED  BY <2>3, <2>5, <3>1, <3>2
  <2>8. Ahead(t)' = { k - 1 : k \in Ahead(t) }
    BY <2>6, <2>7
  <2>. QED  BY <1>1, <1>6, <2>8 DEF WalkGoesOn
<1>. QED  BY <1>4, <1>5, <1>6

LEMMA WalkStepGoesOn ==
  ASSUME Placed, NEW t \in Threads, Walk(t)
  PROVE  WalkGoesOn(t)
<1>. USE DEF Goes, Placed, TypeOK, PlaceTypes, CallTypes
<1>1. CASE TakeHead(t)
  BY <1>1, TakeGoesOn
<1>2. CASE PutsOtherBack(t)
  <2>1. /\ pc[t] = "other" /\ pc'[t] = "walk" /\ first'[t] = first[t]
        /\ list' = Append(list, held[t]) /\ UNCHANGED <<file, first>>
    BY <1>2 DEF PutsOtherBack, PutBack
  <2>2. Line(t)' = Line(t)
    BY <2>1 DEF Line
  <2>3. Ahead(t)' = Ahead(t)
    BY <2>1, <2>2 DEF Ahead
  <2>. QED  BY <2>1, <2>3 DEF WalkGoesOn
<1>3. CASE FindsListEmpty(t) \/ WrapsAround(t)
  <2>1. pc[t] \in {"walk", "wrapped"} /\ pc'[t] \in {"allocate", "idle"}
    BY <1>3 DEF FindsListEmpty, WrapsAround, SearchFails, Return
  <2>. QED  BY <2>1, WalkRankTypes DEF WalkGoesOn
<1>4. CASE PutsMatchBack(t) \/ CloseFrees(t) \/ Inserts(t) \/ AllFetched(t)
  <2>1. pc[t] \in {"matched", "free", "insert", "fetch"} /\ pc'[t] = "idle"
    BY <1>4 DEF PutsMatchBack, CloseFrees, Inserts, AllFetched, Return
  <2>. QED  BY <2>1, WalkRankTypes DEF WalkGoesOn
<1>5. CASE Allocates(t)
  <2>1. pc[t] = "allocate" /\ pc'[t] \in {"insert", "idle"}
    BY <1>5 DEF Allocates, Return
  <2>. QED  BY <2>1, WalkRankTypes DEF WalkGoesOn
<1>6. CASE Fetches(t)
  <2>1. pc[t] = "fetch" /\ pc'[t] = "stop" /\ list # <<>> /\ list' = Tail(list)
    BY <1>6 DEF Fetches
  <2>2. Len(Tail(list)) = Len(list) - 1
    BY <2>1 DEF ObjectTypes
  <2>. QED  BY <2>1, <2>2 DEF WalkGoesOn
<1>7. CASE StopsThread(t)
  BY <1>7 DEF StopsThread, WalkGoesOn
<1>. QED  BY <1>1, <1>2, <1>3, <1>4, <1>5, <1>6, <1>7 DEF Walk

LEMMA LoneCallStep == Placed /\ LoneWalks /\ [Next]_vars => LoneCallGoesOn
<1>. SUFFICES ASSUME Placed, LoneWalks, [Next]_vars,
                     NEW t \in Threads, op[t] # "idle", ~overlapped'[t]
              PROVE  Undisturbed(t) \/ WalkGoesOn(t)
  BY DEF LoneCallGoesOn
<1>1. ASSUME NEW u \in Threads, Call(u)
      PROVE  FALSE
  <2>1. u # t
    BY <1>1, CallBegins
  <2>. QED  BY <1>1, <2>1, CallOverlaps
<1>2. ASSUME NEW u \in Threads, Walk(u)
      PROVE  WalkGoesOn(t)
  <2>1. op[u] # "idle" /\ ~overlapped[t]
    BY <1>2, WalkPlaces
  <2>2. u = t
    BY <2>1 DEF LoneWalks
  <2>. QED  BY <1>2, <2>2, WalkStepGoesOn
<1>3. CASE UNCHANGED vars
  BY <1>3 DEF vars, Undisturbed
<1>4. ASSUME NEW f \in Files, OpenedUnseen(f) \/ ClosedUnseen(f)
      PROVE  Undisturbed(t)
  BY <1>4 DEF OpenedUnseen, ClosedUnseen, Undisturbed
<1>. QED  BY <1>1, <1>2, <1>3, <1>4 DEF Next

\* The file seen first is among what is still to be met.
LEMMA FirstAhead == Placed /\ LoneWalks => FirstIsAhead
<1>. SUFFICES ASSUME Placed, LoneWalks,
                     NEW t \in Threads, op[t] # "idle", ~overlapped[t],
                     pc[t] \in {"walk", "other"}, first[t] # NoFile
              PROVE  Ahead(t) # {} /\ Ahead(t) \subseteq 1..Len(Line(t))
  BY DEF FirstIsAhead
<1>1. Compared(t)
  BY DEF LoneWalks
<1>2. Ahead(t) # {}
  BY <1>1 DEF Compared, Ahead
<1>3. Line(t) \in Seq(Objects)
  BY DEF Line, Placed, TypeOK, ObjectTypes, PlaceTypes, Holding
<1>. QED  BY <1>2, <1>3 DEF Ahead

(* A call that no other overlaps comes nearer to its end with every step:    *)
(* the file it saw first comes one entry nearer each time round, and never   *)
(* gets lost, and the close of the control device fetches one object after   *)
(* the other (gingko_impl.c:101-192).                                        *)
THEOREM LoneCallGoesOnCorrect ==
  Spec => []FirstIsAhead /\ [][LoneCallGoesOn]_vars
<1>1. ListInv => Placed /\ LoneWalks
  BY DEF ListInv, Placed
<1>. QED  BY <1>1, FirstAhead, LoneCallStep, ListInvariantCorrect, PTL DEF Spec
=============================================================================
