---------------------------- MODULE PasswordTable ----------------------------
(***************************************************************************)
(* How the service gets the password of a document that this computer has  *)
(* protected: a thread per request of the driver, a dialog per thread, and *)
(* a table in which the dialog's answer meets the thread.                  *)
(*                                                                         *)
(* A thread that finds no entry for its document and process inserts one   *)
(* that only holds the place, and shows a dialog.  The dialog sends the    *)
(* password through the service's pipe, whose thread fills the entry in,   *)
(* and exits with 0xFF; the first thread takes the entry out.  A thread    *)
(* that finds an entry fails at once.  The table is a linked list that     *)
(* nothing protects.                                                       *)
(***************************************************************************)
EXTENDS Naturals, FiniteSets

CONSTANTS Requests,   \* requests of the driver, each with its thread
          DocOf,      \* the document of a request
          ProcessOf,  \* the process that opens it
          Tries,      \* how often a thread tries; 4 in the code
          Nodes,      \* memory for the table
          Losses      \* whether dialogs, allocations and messages may fail

ASSUME PasswordAssumption ==
    /\ Tries \in Nat \ {0} /\ Losses \in BOOLEAN
    /\ DOMAIN DocOf = Requests /\ DOMAIN ProcessOf = Requests
    /\ IsFiniteSet(Nodes) /\ "nil" \notin Nodes

VARIABLES
    head,       \* __gPasswordTable.Next
    cell,       \* the allocated nodes
    pc,         \* where a request's thread is, and the pipe's thread for it
    here,       \* its pTable, or its pNewTable
    before,     \* its pBefore
    tries,      \* nTimes
    asked,      \* whether it has made a dialog's entry
    result,     \* what QueryPrimaryKey answers
    exiting,    \* __gApplicationExit
    broken,     \* a null pointer or freed memory was used, or a walk does not end
    overlapped, \* history: two threads were in the table at once
    missed      \* history: a dialog, an allocation or a message has failed

vars == <<head, cell, pc, here, before, tries, asked, result, exiting, broken, overlapped, missed>>

Names == [doc : {DocOf[r] : r \in Requests}, process : {ProcessOf[r] : r \in Requests}]
Cells == [name : Names, got : BOOLEAN, next : Nodes \cup {"nil"}]

\* place: it is going to insert its entry; put, fill: it has found, or made, the
\* node to write to, for the dialog or for the password.
Stages == {"out", "test", "place", "holdFill", "dialog", "send", "sendPut", "sendFill",
           "poll", "unlink", "done"}

TypeOK ==
    /\ head \in Nodes \cup {"nil"}
    /\ DOMAIN cell \subseteq Nodes /\ \A n \in DOMAIN cell : cell[n] \in Cells
    /\ pc \in [Requests -> Stages] /\ tries \in [Requests -> 0..Tries]
    /\ here \in [Requests -> Nodes \cup {"nil"}] /\ before \in [Requests -> Nodes \cup {"nil"}]
    /\ asked \in [Requests -> BOOLEAN] /\ result \in [Requests -> {"none", "key", "refused"}]
    /\ {exiting, broken, overlapped, missed} \subseteq BOOLEAN
    /\ \A r \in Requests : pc[r] = "done" <=> result[r] # "none"

Init ==
    /\ head = "nil" /\ cell = <<>>
    /\ pc = [r \in Requests |-> "out"] /\ tries = [r \in Requests |-> 0]
    /\ here = [r \in Requests |-> "nil"] /\ before = [r \in Requests |-> "nil"]
    /\ asked = [r \in Requests |-> FALSE] /\ result = [r \in Requests |-> "none"]
    /\ exiting = FALSE /\ broken = FALSE /\ overlapped = FALSE /\ missed = FALSE

-----------------------------------------------------------------------------
(* The list, as a walk meets it.                                             *)

\* Mutant: whichever process the entry is for.
Matches_AnyProcess(n, r) == cell[n].name.doc = DocOf[r]

Matches(n, r) == cell[n].name = [doc |-> DocOf[r], process |-> ProcessOf[r]]

\* A walk from the head to a node of wanted, if there is one: after as many steps
\* as there are nodes it is there, at the end, at freed memory, or running round.
Walk(wanted) ==
    LET at[k \in 0..Cardinality(Nodes)] ==
            IF k = 0 THEN head
            ELSE LET n == at[k - 1] IN IF n \in DOMAIN cell \ wanted THEN cell[n].next ELSE n
    IN  at

Wanted(r) == {n \in DOMAIN cell : Matches(n, r)}
End(r)    == Walk(Wanted(r))[Cardinality(Nodes)]

Finds(r, n)  == n \in Wanted(r) /\ End(r) = n
FindsOne(r)  == \E n \in DOMAIN cell : Finds(r, n)
FindsNone(r) == End(r) = "nil"
Breaks(r)    == LET n == End(r) IN n # "nil" /\ n \notin Wanted(r)

Before(r, n) ==
    LET at == Walk(Wanted(r))
    IN  IF head = n THEN "nil"
        ELSE at[CHOOSE k \in DOMAIN at : at[k] # n /\ at[k + 1] = n]

Inside == {"place", "holdFill", "sendPut", "sendFill", "unlink"}

\* Thread r comes to stage s.
Comes(r, s) ==
    /\ pc' = [pc EXCEPT ![r] = s]
    /\ overlapped' = (overlapped \/ (s \in Inside /\ \E q \in Requests \ {r} : pc[q] \in Inside))

Holds(r, n, b) == here' = [here EXCEPT ![r] = n] /\ before' = [before EXCEPT ![r] = b]

TableFrame  == UNCHANGED <<head, cell, exiting, missed>>
ThreadFrame == UNCHANGED <<tries, result>>

\* The use of freed memory.
Broken == broken' = TRUE /\ UNCHANGED <<head, cell, pc, here, before, tries, asked, result,
                                        exiting, overlapped, missed>>

\* Mutant: one try too many.
Fails_TriesMore(r) ==
    /\ tries' = [tries EXCEPT ![r] = @ + 1]
    /\ \/ tries[r] < Tries /\ Comes(r, "test") /\ UNCHANGED result
       \/ /\ tries[r] = Tries /\ Comes(r, "done")
          /\ result' = [result EXCEPT ![r] = "refused"]

\* GetDigitalPassword returns FALSE, or its password is wrong: the loop of
\* QueryPrimaryKey tries again, or answers a refusal.
Fails(r) ==
    /\ tries' = [tries EXCEPT ![r] = @ + 1]
    /\ \/ tries[r] + 1 < Tries /\ Comes(r, "test") /\ UNCHANGED result
       \/ /\ tries[r] + 1 = Tries /\ Comes(r, "done")
          /\ result' = [result EXCEPT ![r] = "refused"]

-----------------------------------------------------------------------------
(* GetDigitalPassword.                                                       *)

Arrives(r) ==
    /\ pc[r] = "out" /\ Comes(r, "test")
    /\ UNCHANGED <<here, before, asked, broken>> /\ TableFrame /\ ThreadFrame

\* No desktop to show a dialog on.
StationFails(r) ==
    /\ Losses /\ pc[r] = "test" /\ Fails(r)
    /\ missed' = TRUE
    /\ UNCHANGED <<head, cell, here, before, asked, exiting, broken>>

\* Mutant: a thread that finds an entry waits for its password as well.
TestFinds_Polls(r) ==
    /\ pc[r] = "test" /\ FindsOne(r)
    /\ Comes(r, "poll")
    /\ UNCHANGED <<here, before, asked, broken>> /\ TableFrame /\ ThreadFrame

TestFinds(r) ==
    /\ pc[r] = "test" /\ FindsOne(r)
    /\ Fails(r)
    /\ UNCHANGED <<here, before, asked, broken>> /\ TableFrame

TestFindsNone(r) ==
    /\ pc[r] = "test" /\ FindsNone(r)
    /\ Comes(r, "place")
    /\ UNCHANGED <<here, before, asked, broken>> /\ TableFrame /\ ThreadFrame

\* The dialog runs, or cannot be started and counts as cancelled.
DialogCancelled(r) ==
    /\ pc[r] = "dialog" /\ Fails(r)
    /\ UNCHANGED <<here, before, asked, broken>> /\ TableFrame

PasswordTyped(r) ==
    /\ pc[r] = "dialog" /\ Comes(r, "send")
    /\ UNCHANGED <<here, before, asked, broken>> /\ TableFrame /\ ThreadFrame

\* The dialog does not look whether its message arrived; or there was no path to
\* the program, and the thread polls although it has shown no dialog.
PasswordLost(r) ==
    /\ Losses /\ pc[r] \in {"dialog", "send"} /\ Comes(r, "poll")
    /\ missed' = TRUE
    /\ UNCHANGED <<head, cell, here, before, asked, exiting, broken>> /\ ThreadFrame

PollFinds(r) ==
    /\ pc[r] = "poll"
    /\ \E n \in DOMAIN cell : Finds(r, n) /\ Holds(r, n, Before(r, n))
    /\ Comes(r, "unlink")
    /\ UNCHANGED <<asked, broken>> /\ TableFrame /\ ThreadFrame

PollGivesUp(r) ==
    /\ pc[r] = "poll" /\ FindsNone(r) /\ exiting
    /\ Fails(r)
    /\ UNCHANGED <<here, before, asked, broken>> /\ TableFrame

\* The entry is taken out by the neighbours it had when it was found.
Unlinks(r) ==
    LET n == here[r] IN
    /\ pc[r] = "unlink" /\ n \in DOMAIN cell
    /\ \/ /\ before[r] = "nil" /\ head' = cell[n].next
          /\ cell' = [m \in DOMAIN cell \ {n} |-> cell[m]]
       \/ /\ before[r] \in DOMAIN cell /\ UNCHANGED head
          /\ cell' = [m \in DOMAIN cell \ {n} |->
                        IF m = before[r] THEN [cell[m] EXCEPT !.next = cell[n].next] ELSE cell[m]]
    /\ Holds(r, "nil", "nil")
    /\ \/ /\ cell[n].got /\ Comes(r, "done")
          /\ result' = [result EXCEPT ![r] = "key"] /\ UNCHANGED tries
       \/ cell[n].got /\ Fails(r)
       \/ ~cell[n].got /\ ~exiting /\ Comes(r, "poll") /\ UNCHANGED <<tries, result>>
       \/ ~cell[n].got /\ exiting /\ Fails(r)
    /\ UNCHANGED <<asked, exiting, broken, missed>>

-----------------------------------------------------------------------------
(* InsertGingkoPassword: by the thread for its place, by the pipe's thread   *)
(* for the password.                                                         *)

\* The walk, the allocation and the read of the head are one step, the write of
\* the head another.
Inserts(r, from, to, got) ==
    /\ pc[r] = from /\ FindsNone(r)
    /\ \E n \in Nodes \ DOMAIN cell :
        /\ cell' = [m \in DOMAIN cell \cup {n} |->
                      IF m = n THEN [name |-> [doc |-> DocOf[r], process |-> ProcessOf[r]],
                                     got |-> got, next |-> head]
                      ELSE cell[m]]
        /\ Holds(r, n, "nil")
    /\ Comes(r, to)
    /\ asked' = [asked EXCEPT ![r] = TRUE]
    /\ UNCHANGED <<head, exiting, broken, missed>> /\ ThreadFrame

Publishes(r, from, to) ==
    /\ pc[r] = from
    /\ head' = here[r] /\ Holds(r, "nil", "nil") /\ Comes(r, to)
    /\ UNCHANGED <<cell, asked, exiting, broken, missed>> /\ ThreadFrame

NoMemory(r, from, to) ==
    /\ pc[r] = from /\ FindsNone(r) /\ (Losses \/ DOMAIN cell = Nodes)
    /\ Comes(r, to) /\ missed' = TRUE /\ asked' = [asked EXCEPT ![r] = TRUE]
    /\ UNCHANGED <<head, cell, here, before, exiting, broken>> /\ ThreadFrame

\* There is an entry already: the password that is copied to it is NULL.
PlaceFinds(r) == pc[r] = "place" /\ FindsOne(r) /\ Broken

SendFinds(r) ==
    /\ pc[r] = "send"
    /\ \E n \in DOMAIN cell : Finds(r, n) /\ Holds(r, n, "nil")
    /\ Comes(r, "sendPut")
    /\ UNCHANGED <<asked, broken>> /\ TableFrame /\ ThreadFrame

SendPuts(r) ==
    /\ pc[r] = "sendPut" /\ here[r] \in DOMAIN cell
    /\ cell' = [cell EXCEPT ![here[r]].got = TRUE, ![here[r]].name.process = ProcessOf[r]]
    /\ Holds(r, "nil", "nil") /\ Comes(r, "poll")
    /\ UNCHANGED <<head, asked, exiting, broken, missed>> /\ ThreadFrame

Place(r) ==
    \/ Inserts(r, "place", "holdFill", FALSE) \/ Publishes(r, "holdFill", "dialog")
    \/ NoMemory(r, "place", "dialog") \/ PlaceFinds(r)

Send(r) ==
    \/ Inserts(r, "send", "sendFill", TRUE) \/ Publishes(r, "sendFill", "poll")
    \/ NoMemory(r, "send", "poll") \/ SendFinds(r) \/ SendPuts(r)

\* A walk, or a write, goes to freed memory.
UsesFreed(r) ==
    /\ \/ pc[r] \in {"test", "place", "send", "poll"} /\ Breaks(r)
       \/ pc[r] \in {"sendPut", "unlink"} /\ here[r] \notin DOMAIN cell
       \/ pc[r] = "unlink" /\ before[r] \notin DOMAIN cell \cup {"nil"}
    /\ Broken

-----------------------------------------------------------------------------
(* The service.                                                              *)

\* UninitCheapman.
Exits ==
    /\ ~exiting /\ exiting' = TRUE
    /\ UNCHANGED <<head, cell, pc, here, before, tries, asked, result, broken, overlapped, missed>>

Thread(r) ==
    \/ Arrives(r) \/ StationFails(r) \/ TestFinds(r) \/ TestFindsNone(r) \/ Place(r)
    \/ DialogCancelled(r) \/ PasswordTyped(r) \/ PasswordLost(r) \/ Send(r)
    \/ PollFinds(r) \/ PollGivesUp(r) \/ Unlinks(r) \/ UsesFreed(r)

Next ==
    /\ ~broken
    /\ (\E r \in Requests : Thread(r)) \/ Exits

Spec == Init /\ [][Next]_vars

-----------------------------------------------------------------------------
(* Properties.                                                               *)

Listed == LET at == Walk({}) IN {at[k] : k \in DOMAIN at}

(* As long as no two threads are in the table at once, from the test for an   *)
(* entry to the insertion of the place, from the find to the removal and in   *)
(* the insertion of a password, the list is sound: it holds what is allocated *)
(* and is not yet published, no name twice, and nothing has broken            *)
(* (GingkoServiceThread.cpp:568, :608).                                       *)
AloneIsSound ==
    ~overlapped =>
        /\ ~broken
        /\ Listed \cup {here[r] : r \in {q \in Requests : pc[q] \in {"holdFill", "sendFill"}}}
             = DOMAIN cell \cup {"nil"}
        /\ \A m, n \in DOMAIN cell : cell[m].name = cell[n].name => m = n

(* A request is refused without a dialog of its own only after one on behalf  *)
(* of the same process, for the same document: a process is not refused for   *)
(* what was asked on behalf of another.  Where threads meet in the table, the *)
(* entry that stands in the way may have its document from one request and    *)
(* its process from another (GingkoServiceThread.cpp:401, :579).              *)
RefusalIsOwn ==
    \A r \in Requests : result[r] = "refused" /\ ~asked[r] /\ ~missed =>
        \E p, q \in Requests :
            /\ asked[p] /\ DocOf[p] = DocOf[r] /\ asked[q] /\ ProcessOf[q] = ProcessOf[r]
            /\ p = q \/ overlapped

TableServes == AloneIsSound /\ RefusalIsOwn

(* A password that has been sent reaches its thread: a thread that polls finds *)
(* it in the table, unless two threads met there or something failed.         *)
(* Otherwise it polls until the service exits (GingkoServiceThread.cpp:475).  *)
PasswordArrives ==
    \A r \in Requests : pc[r] = "poll" /\ ~overlapped /\ ~missed =>
        \E n \in DOMAIN cell : Finds(r, n) /\ cell[n].got
=============================================================================
