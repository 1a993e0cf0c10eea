---------------------------- MODULE FileRegistry ----------------------------
(***************************************************************************)
(* What the dispatch routines may expect of the driver's list of tracked   *)
(* file objects (gGingkoWriteFileListEntry, gingko_impl.c:101-192): a set  *)
(* of GINGKO_OBJECTs, each made for one FILE_OBJECT, that a create adds    *)
(* to, a search consults, a close removes from and the end of the service  *)
(* clears.  Calls overlap.  A call that no other call overlaps answers     *)
(* exactly, unless two tracked objects already stand for one file; a call  *)
(* that is overlapped may miss an object that is there, and never invents  *)
(* one, loses one or removes the wrong one.  FileObjectList implements     *)
(* this.                                                                   *)
(***************************************************************************)
CONSTANTS Threads,     \* the threads that call
          Files,       \* FILE_OBJECT addresses
          Objects,     \* GINGKO_OBJECT allocations
          NoFile       \* file[o] of an object that is not allocated

VARIABLES tracked,     \* the objects tracked
          file,        \* the FILE_OBJECT an object was made for
          op,          \* the call each thread is in
          target,      \* the file that call is about
          overlapped,  \* whether another call has overlapped it
          answer       \* what it has answered

vars == <<tracked, file, op, target, overlapped, answer>>

Ops     == {"idle", "create", "find", "close", "clear"}
Answers == {"none", "found", "absent"}

Init ==
    /\ tracked = {}
    /\ file = [o \in Objects |-> NoFile]
    /\ op = [t \in Threads |-> "idle"]
    /\ target = [t \in Threads |-> NoFile]
    /\ overlapped = [t \in Threads |-> FALSE]
    /\ answer = [t \in Threads |-> "none"]

\* Every call under way is overlapped by the one that begins.
Begin(t) ==
    /\ op[t] = "idle"
    /\ op' \in { [op EXCEPT ![t] = call] : call \in Ops \ {"idle"} }
    /\ target' \in { [target EXCEPT ![t] = f] : f \in Files \cup {NoFile} }
    /\ overlapped' = [u \in Threads |-> IF u = t
                                        THEN \E v \in Threads : op[v] # "idle"
                                        ELSE overlapped[u] \/ op[u] # "idle"]
    /\ answer' = [answer EXCEPT ![t] = "none"]
    /\ UNCHANGED <<tracked, file>>

Matches(t) == { o \in tracked : file[o] = target[t] }

\* Two objects for one file: an overlapped create has missed the first.
Ambiguous == \E o, p \in tracked : o # p /\ file[o] = file[p]

Returns(t) == op' = [op EXCEPT ![t] = "idle"]

Find(t) ==
    /\ op[t] \in {"find", "create"} /\ answer[t] = "none"
    /\ Matches(t) # {}
    /\ answer' = [answer EXCEPT ![t] = "found"]
    /\ Returns(t)
    /\ UNCHANGED <<tracked, file, target, overlapped>>

Remove(t) ==
    /\ op[t] = "close" /\ answer[t] = "none"
    /\ \E o \in Matches(t) : tracked' = tracked \ {o}
    /\ answer' = [answer EXCEPT ![t] = "found"]
    /\ UNCHANGED <<file, op, target, overlapped>>

\* The call that removed an object frees it.
Free(t) ==
    /\ op[t] = "close" /\ answer[t] = "found"
    /\ \E o \in Objects \ tracked : file' = [file EXCEPT ![o] = NoFile]
    /\ Returns(t)
    /\ UNCHANGED <<tracked, target, overlapped, answer>>

Miss(t) ==
    /\ op[t] \in {"find", "create", "close"} /\ answer[t] = "none"
    /\ Matches(t) = {} \/ overlapped[t] \/ Ambiguous
    /\ answer' = [answer EXCEPT ![t] = "absent"]
    /\ op[t] = "create" \/ Returns(t)
    /\ op[t] # "create" \/ UNCHANGED op
    /\ UNCHANGED <<tracked, file, target, overlapped>>

\* A create that found nothing makes an object, or has no memory for one ...
Make(t) ==
    /\ op[t] = "create" /\ answer[t] = "absent"
    /\ \/ \E o \in Objects \ tracked :
              file[o] = NoFile /\ file' = [file EXCEPT ![o] = target[t]] /\ UNCHANGED op
       \/ Returns(t) /\ UNCHANGED file
    /\ UNCHANGED <<tracked, target, overlapped, answer>>

\* ... and tracks it.
Add(t) ==
    /\ op[t] = "create" /\ answer[t] = "absent"
    /\ \E o \in Objects \ tracked :
          file[o] = target[t] /\ tracked' = tracked \cup {o}
    /\ Returns(t)
    /\ UNCHANGED <<file, target, overlapped, answer>>

Withdraw(t) ==
    /\ op[t] = "clear"
    /\ \E o \in tracked : tracked' = tracked \ {o}
    /\ UNCHANGED <<file, op, target, overlapped, answer>>

Cleared(t) ==
    /\ op[t] = "clear"
    /\ tracked = {} \/ overlapped[t]
    /\ Returns(t)
    /\ UNCHANGED <<tracked, file, target, overlapped, answer>>

Next ==
    \E t \in Threads :
        \/ Begin(t)
        \/ Find(t) \/ Remove(t) \/ Free(t) \/ Miss(t)
        \/ Make(t) \/ Add(t)
        \/ Withdraw(t) \/ Cleared(t)

Spec == Init /\ [][Next]_vars
=============================================================================
