--------------------------- MODULE FileObjectList ---------------------------
(***************************************************************************)
(* gGingkoWriteFileListEntry, the driver's list of tracked file objects,   *)
(* and the functions that walk it (gingko_impl.c:101-192).                 *)
(*                                                                         *)
(* There is no lock over a walk: FindWriteFileObject takes the head entry  *)
(* off the list under the spin lock, compares it, and puts it back at the  *)
(* tail under the spin lock, until it meets the file it saw first.  While  *)
(* a walker holds an entry, no other walker sees it.  RemoveAllFileObject- *)
(* Queue takes entries off until the list is empty.                        *)
(*                                                                         *)
(* A call is made by the create path (search, then insert), by read,       *)
(* cleanup, query, set-information and fast I/O (search), by IRP_MJ_CLOSE  *)
(* (search and remove) or by the close of the control device (remove all). *)
(* The I/O manager sends a FILE_OBJECT its close after everything else,    *)
(* and may then use its address again.                                     *)
(***************************************************************************)
EXTENDS Naturals, Sequences, FiniteSets

CONSTANTS Threads,     \* the threads that call
          Files,       \* FILE_OBJECT addresses
          Objects,     \* GINGKO_OBJECT allocations: their number is the memory
          NoFile,      \* the null PFILE_OBJECT
          NoObject     \* the null PGINGKO_OBJECT

ASSUME NoFileAssumption   == NoFile \notin Files
ASSUME NoObjectAssumption == NoObject \notin Objects

VARIABLES
    list,        \* the entries on the list
    file,        \* pObject->FileObject, NoFile when not allocated
    life,        \* what the I/O manager has done with each FILE_OBJECT
    pc,          \* where each walker is
    op,          \* the call it is in
    target,      \* FileObject, the argument of the search
    first,       \* pFirstFileObject
    held,        \* the entry it has taken off the list
    answer,      \* what its last call answered
    overlapped   \* whether another call was under way during its call

callVars == <<op, target, overlapped>>

vars == <<list, file, life, pc, op, target, first, held, answer, overlapped>>

Lives   == {"closed", "opening", "open", "closing"}
Ops     == {"idle", "create", "find", "close", "clear"}
Places  == {"idle", "walk", "other", "matched", "wrapped", "allocate", "insert",
            "fetch", "stop", "free"}
Holding == {"other", "matched", "wrapped", "insert", "stop", "free"}

ObjectTypes ==
    /\ list \in Seq(Objects)
    /\ file \in [Objects -> Files \cup {NoFile}]
    /\ life \in [Files -> Lives]

CallTypes ==
    /\ op \in [Threads -> Ops]
    /\ target \in [Threads -> Files \cup {NoFile}]
    /\ first \in [Threads -> Files \cup {NoFile}]
    /\ answer \in [Threads -> {"none", "found", "absent"}]
    /\ overlapped \in [Threads -> BOOLEAN]

\* A walker has an entry in hand exactly where the code has one.
PlaceTypes ==
    /\ pc \in [Threads -> Places]
    /\ held \in [Threads -> Objects \cup {NoObject}]
    /\ \A t \in Threads : /\ op[t] = "idle" <=> pc[t] = "idle"
                          /\ held[t] # NoObject <=> pc[t] \in Holding

TypeOK == ObjectTypes /\ CallTypes /\ PlaceTypes

Init ==
    /\ list = <<>>
    /\ file = [o \in Objects |-> NoFile]
    /\ life = [f \in Files |-> "closed"]
    /\ pc = [t \in Threads |-> "idle"]
    /\ op = [t \in Threads |-> "idle"]
    /\ target = [t \in Threads |-> NoFile]
    /\ first = [t \in Threads |-> NoFile]
    /\ held = [t \in Threads |-> NoObject]
    /\ answer = [t \in Threads |-> "none"]
    /\ overlapped = [t \in Threads |-> FALSE]

Goes(t, place) == pc' = [pc EXCEPT ![t] = place]

-----------------------------------------------------------------------------
(* The callers.                                                              *)

InUse(f) == \E t \in Threads : op[t] # "idle" /\ target[t] = f

Begin(t, call, f, place) ==
    /\ op[t] = "idle"
    /\ op' = [op EXCEPT ![t] = call]
    /\ target' = [target EXCEPT ![t] = f]
    /\ first' = [first EXCEPT ![t] = NoFile]
    /\ answer' = [answer EXCEPT ![t] = "none"]
    /\ overlapped' = [u \in Threads |-> IF u = t
                                        THEN \E v \in Threads : op[v] # "idle"
                                        ELSE overlapped[u] \/ op[u] # "idle"]
    /\ Goes(t, place)
    /\ UNCHANGED <<list, file, held>>

\* The lower driver has opened a file with an encrypted header.
CreateBegins(t, f) ==
    /\ life[f] = "closed"
    /\ life' = [life EXCEPT ![f] = "opening"]
    /\ Begin(t, "create", f, "walk")

SearchBegins(t, f) ==
    /\ life[f] = "open"
    /\ Begin(t, "find", f, "walk")
    /\ UNCHANGED life

CloseBegins(t, f) ==
    /\ life[f] = "open" /\ ~InUse(f)
    /\ life' = [life EXCEPT ![f] = "closing"]
    /\ Begin(t, "close", f, "walk")

\* The last handle of the control device is closed, or GINGKO_DEVICE_STOP.
ControlCloseBegins(t) ==
    /\ Begin(t, "clear", NoFile, "fetch")
    /\ UNCHANGED life

\* Files without an encrypted header are never tracked, and the opens and the
\* closes that run in the service's process are passed down unseen.
OpenedUnseen(f) ==
    /\ life[f] = "closed"
    /\ life' = [life EXCEPT ![f] = "open"]
    /\ UNCHANGED <<list, file, pc, op, target, first, held, answer, overlapped>>

ClosedUnseen(f) ==
    /\ life[f] = "open" /\ ~InUse(f)
    /\ life' = [life EXCEPT ![f] = "closed"]
    /\ UNCHANGED <<list, file, pc, op, target, first, held, answer, overlapped>>

-----------------------------------------------------------------------------
(* FindWriteFileObject.                                                      *)

\* The call is over; the create or the close it was made by is over with it.
Return(t) ==
    /\ Goes(t, "idle")
    /\ op' = [op EXCEPT ![t] = "idle"]
    /\ life' = IF op[t] \in {"create", "close"}
               THEN [life EXCEPT ![target[t]] = IF op[t] = "create" THEN "open"
                                                                    ELSE "closed"]
               ELSE life

\* The search returns FALSE: a create goes on to track the file.
SearchFails(t) ==
    /\ answer' = [answer EXCEPT ![t] = "absent"]
    /\ IF op[t] = "create" THEN Goes(t, "allocate") /\ UNCHANGED <<op, life>>
                           ELSE Return(t)

\* What the walker does with the entry o it has just taken off the list.
Verdict(t, o) ==
    IF first[t] # NoFile /\ file[o] = first[t] THEN "wrapped"
    ELSE IF file[o] = target[t] THEN IF op[t] = "close" THEN "free" ELSE "matched"
    ELSE "other"

Recorded(t) ==
    first' = IF first[t] = NoFile
             THEN [first EXCEPT ![t] = file[Head(list)]]
             ELSE first

\* Mutant: pFirstFileObject is never set.
TakeHead_NothingRecorded(t) ==
    /\ pc[t] = "walk"
    /\ list # <<>>
    /\ held' = [held EXCEPT ![t] = Head(list)]
    /\ list' = Tail(list)
    /\ Goes(t, Verdict(t, Head(list)))
    /\ answer' = IF Verdict(t, Head(list)) = "free"
                 THEN [answer EXCEPT ![t] = "found"] ELSE answer
    /\ UNCHANGED <<file, life, callVars, first>>

TakeHead(t) ==
    /\ pc[t] = "walk"
    /\ list # <<>>
    /\ held' = [held EXCEPT ![t] = Head(list)]
    /\ list' = Tail(list)
    /\ Recorded(t)
    /\ Goes(t, Verdict(t, Head(list)))
    /\ answer' = IF Verdict(t, Head(list)) = "free"
                 THEN [answer EXCEPT ![t] = "found"] ELSE answer
    /\ UNCHANGED <<file, life, callVars>>

FindsListEmpty(t) ==
    /\ pc[t] = "walk"
    /\ list = <<>>
    /\ SearchFails(t)
    /\ UNCHANGED <<list, file, target, first, held, overlapped>>

PutBack(t) ==
    /\ list' = Append(list, held[t])
    /\ held' = [held EXCEPT ![t] = NoObject]
    /\ UNCHANGED <<file, target, first, overlapped>>

PutsOtherBack(t) ==
    /\ pc[t] = "other"
    /\ PutBack(t)
    /\ Goes(t, "walk")
    /\ UNCHANGED <<life, op, answer>>

\* The caller gets the object, which is on the list again.
PutsMatchBack(t) ==
    /\ pc[t] = "matched"
    /\ PutBack(t)
    /\ answer' = [answer EXCEPT ![t] = "found"]
    /\ Return(t)

\* Mutant: the entry that shows the walk has come round is not put back.
WrapsAround_EntryDropped(t) ==
    /\ pc[t] = "wrapped"
    /\ held' = [held EXCEPT ![t] = NoObject]
    /\ SearchFails(t)
    /\ UNCHANGED <<list, file, target, first, overlapped>>

WrapsAround(t) ==
    /\ pc[t] = "wrapped"
    /\ PutBack(t)
    /\ SearchFails(t)

\* Mutant: the close frees an object that it has put back.
CloseFrees_StillListed(t) ==
    /\ pc[t] = "free"
    /\ file' = [file EXCEPT ![held[t]] = NoFile]
    /\ list' = Append(list, held[t])
    /\ held' = [held EXCEPT ![t] = NoObject]
    /\ Return(t)
    /\ UNCHANGED <<target, first, answer, overlapped>>

\* GingkoClose stops the object's queue and frees the object.
CloseFrees(t) ==
    /\ pc[t] = "free"
    /\ file' = [file EXCEPT ![held[t]] = NoFile]
    /\ held' = [held EXCEPT ![t] = NoObject]
    /\ Return(t)
    /\ UNCHANGED <<list, target, first, answer, overlapped>>

-----------------------------------------------------------------------------
(* GingkoCreateCompleteRoutine, after its search has failed.                 *)

Unallocated == { o \in Objects : file[o] = NoFile }

Allocates(t) ==
    /\ pc[t] = "allocate"
    /\ \/ \E o \in Unallocated :
             /\ file' = [file EXCEPT ![o] = target[t]]
             /\ held' = [held EXCEPT ![t] = o]
          /\ Goes(t, "insert")
          /\ UNCHANGED <<op, life>>
       \/ Unallocated = {} /\ Return(t) /\ UNCHANGED <<file, held>>
    /\ UNCHANGED <<list, target, first, answer, overlapped>>

Inserts(t) ==
    /\ pc[t] = "insert"
    /\ PutBack(t)
    /\ Return(t)
    /\ UNCHANGED answer

-----------------------------------------------------------------------------
(* RemoveAllFileObjectQueue.  Its test against the first object never fires: *)
(* an object it has fetched is on no list and never freed.                   *)

Fetches(t) ==
    /\ pc[t] = "fetch"
    /\ list # <<>>
    /\ held' = [held EXCEPT ![t] = Head(list)]
    /\ list' = Tail(list)
    /\ Goes(t, "stop")
    /\ UNCHANGED <<file, life, callVars, first, answer>>

\* Mutant: the object is kept at hand while the next one is fetched.
StopsThread_KeepsEntry(t) ==
    /\ pc[t] = "stop"
    /\ Goes(t, "fetch")
    /\ UNCHANGED <<list, file, life, callVars, first, held, answer>>

\* The object's main thread has been stopped; the object is dropped.
StopsThread(t) ==
    /\ pc[t] = "stop"
    /\ held' = [held EXCEPT ![t] = NoObject]
    /\ Goes(t, "fetch")
    /\ UNCHANGED <<list, file, life, callVars, first, answer>>

AllFetched(t) ==
    /\ pc[t] = "fetch"
    /\ list = <<>>
    /\ Return(t)
    /\ UNCHANGED <<list, file, target, first, held, answer, overlapped>>

-----------------------------------------------------------------------------
Call(t) ==
    \/ \E f \in Files : CreateBegins(t, f) \/ SearchBegins(t, f) \/ CloseBegins(t, f)
    \/ ControlCloseBegins(t)

Walk(t) ==
    \/ TakeHead(t) \/ FindsListEmpty(t) \/ PutsOtherBack(t) \/ PutsMatchBack(t)
    \/ WrapsAround(t) \/ CloseFrees(t)
    \/ Allocates(t) \/ Inserts(t)
    \/ Fetches(t) \/ StopsThread(t) \/ AllFetched(t)

Next ==
    \/ \E t \in Threads : Call(t) \/ Walk(t)
    \/ \E f \in Files : OpenedUnseen(f) \/ ClosedUnseen(f)

Spec == Init /\ [][Next]_vars

\* A walker that has begun keeps running; nobody has to call.
FairSpec == Spec /\ \A t \in Threads : WF_vars(Walk(t))

-----------------------------------------------------------------------------
(* Properties.                                                               *)

Listed == { list[k] : k \in DOMAIN list }

(* No object is in two places: it is on the list once, or in the hands of    *)
(* one walker, and whatever is on the list or in hand is allocated.  Two     *)
(* holders would free it twice or list it twice (gingko_impl.c:111-151,      *)
(* gingko_readwrite.c:1043-1051).                                            *)
EntryOnce ==
    /\ \A k, l \in DOMAIN list : list[k] = list[l] => k = l
    /\ \A k \in DOMAIN list : file[list[k]] # NoFile
    /\ \A t \in Threads :
          held[t] # NoObject =>
              /\ file[held[t]] # NoFile
              /\ \A k \in DOMAIN list : list[k] # held[t]
              /\ \A u \in Threads : u # t => held[u] # held[t]

\* The walkers that are going to put back what they hold.
Borrowers == { t \in Threads : pc[t] \in {"other", "matched", "wrapped"} }

\* The objects the list stands for.
Tracked == Listed \cup { held[t] : t \in Borrowers }

Registry == INSTANCE FileRegistry WITH tracked <- Tracked

(* Walks that take the list apart implement a registry in which no object is *)
(* lost or invented, and only an overlapped call, or one that meets two      *)
(* objects of one file, may miss an object that is tracked.                  *)
ImplementsRegistry == Registry!Spec

-----------------------------------------------------------------------------
(* The inductive invariant behind EntryOnce and ImplementsRegistry.          *)

\* What each place says of the call that is there.
CallPlaces ==
    \A t \in Threads :
        /\ op[t] \in {"create", "find", "close"} => target[t] \in Files
        /\ pc[t] \in {"walk", "other", "matched", "wrapped"} =>
              op[t] \in {"create", "find", "close"} /\ answer[t] = "none"
        /\ pc[t] = "matched" => op[t] # "close" /\ file[held[t]] = target[t]
        /\ pc[t] = "free" => op[t] = "close" /\ answer[t] = "found"
        /\ pc[t] \in {"allocate", "insert"} => op[t] = "create" /\ answer[t] = "absent"
        /\ pc[t] = "insert" => file[held[t]] = target[t]
        /\ pc[t] \in {"fetch", "stop"} => op[t] = "clear"

\* The list as it is once the walker has put its entry back.
Line(t) == IF pc[t] = "other" THEN Append(list, held[t]) ELSE list

\* From the entry seen first to the tail, everything has been compared.
Compared(t) ==
    \E k \in DOMAIN Line(t) :
        /\ file[Line(t)[k]] = first[t]
        /\ \A j \in DOMAIN Line(t) : j >= k => file[Line(t)[j]] # target[t]

\* A search that nobody overlaps has the list to itself.
LoneWalks ==
    \A t \in Threads :
        op[t] # "idle" /\ ~overlapped[t] =>
            /\ \A u \in Threads : u # t => op[u] = "idle"
            /\ pc[t] = "other" => first[t] # NoFile
            /\ pc[t] \in {"walk", "other"} /\ first[t] # NoFile => Compared(t)
            /\ pc[t] = "wrapped" => Registry!Matches(t) = {} \/ Registry!Ambiguous

ListInv == TypeOK /\ EntryOnce /\ CallPlaces /\ LoneWalks

-----------------------------------------------------------------------------
(* Liveness (under FairSpec).                                                *)

(* A search that no other call overlaps ends: it meets again the file it saw *)
(* first.  An overlapped one need not: once a close has removed that entry,  *)
(* a search for an untracked file goes round for ever.                       *)
LoneSearchEnds ==
    \A t \in Threads : pc[t] = "walk" ~> op[t] = "idle" \/ overlapped[t]

-----------------------------------------------------------------------------
(* What comments of the source say.                                          *)

(* gingko_impl.c:101-103, "Find The FileObject is under the procecess": a    *)
(* search for a file that is tracked does not return FALSE.                  *)
FindsTheFileObject ==
    [][ \A t \in Threads :
          answer[t] = "none" /\ answer'[t] = "absent" =>
              \A o \in Tracked : file[o] # target[t] ]_vars
=============================================================================
