---------------------------- MODULE ProcessTable ----------------------------
(***************************************************************************)
(* The table of the processes under decryption: what each process id may   *)
(* do, and the keys of the documents it has been given.                    *)
(*                                                                         *)
(* An answer of the service installs the key in the queue of the file, and *)
(* then makes or widens the entry of the process; the exit of a process    *)
(* removes its entry.  The create of a file looks its key up here before   *)
(* it asks the service, and GingkoWrite refuses a process that has an      *)
(* entry without the right to write.  Both go by the process id alone,     *)
(* which the system gives to another process later.                        *)
(*                                                                         *)
(* Changes are made under a spin lock.  IsProcessUnderDecryption walks the *)
(* list without it.                                                        *)
(***************************************************************************)
EXTENDS Naturals, Sequences

CONSTANTS Pids,       \* process ids
          MaxLives,   \* how many processes have each id, one after the other
          Files,      \* FILE_OBJECTs of protected documents
          Docs,       \* the documents, by hash
          Nodes,      \* memory for table entries
          Walkers,    \* threads in IsProcessUnderDecryption
          Rights,     \* the permissions of an answer; GingkoWrite asks for all of them
          Grants,     \* the sets of them that the service may answer
          Started,    \* those that START gives
          NoMemory,   \* whether allocations may fail
          Openers,    \* ids whose processes open protected documents
          Bootstrap   \* ids under which Bootstrap -Write may run

ASSUME TableAssumption ==
    /\ MaxLives \in [Pids -> Nat] /\ NoMemory \in BOOLEAN
    /\ Openers \subseteq Pids /\ Bootstrap \subseteq Pids
    /\ Nodes \cap {"out", "head"} = {}
    /\ Grants \subseteq SUBSET Rights /\ Started \subseteq Rights

VARIABLES
    table,      \* the entries behind the first one, which is no process's
    entry,      \* what the allocated nodes hold
    crashed,    \* a null pointer was read: the system has stopped
    alive,      \* the ids that a process has
    life,       \* how many processes have had each id
    file,       \* the open files
    at,         \* the node at which each walker is
    met,        \* history: an entry was removed since it began
    plain,      \* history: ids whose process has read decrypted bytes
    given,      \* history: what the process with an id has been answered
    late,       \* history: ids answered when the asking process had exited
    forgotten,  \* history: ids no entry could be allocated for, or that called END
    bare        \* history: an entry was made without a key

vars == <<table, entry, crashed, alive, life, file, at, met, plain, given,
          late, forgotten, bare>>

\* FileCryptoBlock of an entry: the key of each document.  A refusal is entered
\* as well, with a key that is none.
KeyStates == {"none", "bad", "good"}
Entries   == [pid : Pids, rights : SUBSET Rights, keys : [Docs -> KeyStates]]
NoKeys    == [d \in Docs |-> "none"]

\* What the service answers for certain: the key with some permissions, or none.
Refusal == [key |-> "bad", rights |-> {}]
Answers == [key : {"good"}, rights : Grants] \cup {Refusal}

\* A queue waits for the service until it is done; key: it has CryptoInfo.
Queues == [pid : Pids, life : Nat, doc : Docs, stage : {"asking", "installed", "done"},
           key : BOOLEAN, answer : Answers]

TypeOK ==
    /\ table \in Seq(Nodes) /\ crashed \in BOOLEAN
    /\ DOMAIN entry \subseteq Nodes /\ \A n \in DOMAIN entry : entry[n] \in Entries
    /\ alive \subseteq Pids /\ life \in [Pids -> Nat]
    /\ DOMAIN file \subseteq Files /\ \A f \in DOMAIN file : file[f] \in Queues
    /\ at \in [Walkers -> Nodes \cup {"out", "head"}] /\ met \in [Walkers -> BOOLEAN]
    /\ plain \subseteq alive /\ given \in [Pids -> SUBSET (Docs \cup Rights \cup {"any"})]
    /\ late \subseteq Pids /\ forgotten \subseteq Pids /\ bare \in BOOLEAN

Init ==
    /\ table = <<>> /\ entry = <<>> /\ crashed = FALSE
    /\ alive = {} /\ life = [p \in Pids |-> 0] /\ file = <<>>
    /\ at = [w \in Walkers |-> "out"] /\ met = [w \in Walkers |-> FALSE]
    /\ plain = {} /\ given = [p \in Pids |-> {}] /\ late = {} /\ forgotten = {} /\ bare = FALSE

-----------------------------------------------------------------------------
(* The table, under its lock.                                                *)

Listed == {table[i] : i \in 1..Len(table)}

EntryOf(p) == {n \in Listed : entry[n].pid = p}

\* GetPermissionUnderDecryptionByProcessId, as GingkoWrite uses it.
WriteRefused(p) == \E n \in EntryOf(p) : entry[n].rights # Rights

\* FindCryptoPermission: the key of a document, in any entry of the process.
KeysFound(p, d) == {entry[n].keys[d] : n \in EntryOf(p)} \ {"none"}

Sets(n, e) == entry' = [m \in DOMAIN entry \cup {n} |-> IF m = n THEN e ELSE entry[m]]

\* UpdateFileCryptoBlock: the keys with that of ds, if there is memory for it.
WithKey(ks, ds, k) ==
    {[d \in Docs |-> IF d \in ds THEN k ELSE ks[d]]}
        \cup (IF NoMemory /\ (\E d \in ds : ks[d] = "none") THEN {ks} ELSE {})

\* The entry of the process is widened.
Widens(p, r, ds, k) ==
    /\ \E n \in EntryOf(p) : \E ks \in WithKey(entry[n].keys, ds, k) :
        Sets(n, [pid |-> p, rights |-> entry[n].rights \cup r, keys |-> ks])
    /\ UNCHANGED <<table, forgotten, bare>>

\* A new entry goes behind the first one.
Inserts(p, r, ds, k) ==
    /\ EntryOf(p) = {}
    /\ \E n \in Nodes \ DOMAIN entry : \E ks \in WithKey(NoKeys, ds, k) :
        /\ table' = <<n>> \o table
        /\ Sets(n, [pid |-> p, rights |-> r, keys |-> ks])
        /\ bare' = (bare \/ ks = NoKeys)
    /\ UNCHANGED forgotten

Forgets(p) ==
    /\ NoMemory /\ EntryOf(p) = {}
    /\ forgotten' = forgotten \cup {p}
    /\ UNCHANGED <<table, entry, bare>>

\* UpdateProcessPermission, with the key of a document (ds) or without any.
Updates(p, r, ds, k) == Widens(p, r, ds, k) \/ Inserts(p, r, ds, k) \/ Forgets(p)

\* Mutant: the entry before is taken to be the first.
Unlinks_AfterFirst(n) ==
    table' = SubSeq(table, 1 + CHOOSE i \in 1..Len(table) : table[i] = n, Len(table))

Unlinks(n) ==
    \E i \in 1..Len(table) :
        /\ table[i] = n
        /\ table' = SubSeq(table, 1, i - 1) \o SubSeq(table, i + 1, Len(table))

Frees(n) == entry' = [m \in DOMAIN entry \ {n} |-> entry[m]]

\* RemoveProcessUnderDecryption.  The keys are freed without a look whether
\* there are any.
Removes(p) ==
    \/ EntryOf(p) = {} /\ UNCHANGED <<table, entry, crashed, met>>
    \/ \E n \in EntryOf(p) :
        \/ /\ entry[n].keys # NoKeys
           /\ Unlinks(n) /\ Frees(n)
           /\ met' = [w \in Walkers |-> at[w] # "out"]
           /\ UNCHANGED crashed
        \/ /\ entry[n].keys = NoKeys /\ crashed' = TRUE
           /\ UNCHANGED <<table, entry, met>>

-----------------------------------------------------------------------------
(* Processes.                                                                *)

Begins(p) ==
    /\ p \notin alive /\ life[p] < MaxLives[p]
    /\ alive' = alive \cup {p} /\ life' = [life EXCEPT ![p] = @ + 1]
    /\ UNCHANGED <<table, entry, crashed, file, at, met, plain, given, late, forgotten, bare>>

Current(f) == file[f].pid \in alive /\ file[f].life = life[file[f].pid]

\* Mutant: the monitor looks at the creations only.
Exits_Unseen(p) ==
    /\ p \in alive
    /\ alive' = alive \ {p} /\ plain' = plain \ {p}
    /\ given' = [given EXCEPT ![p] = {}] /\ forgotten' = forgotten \ {p}
    /\ UNCHANGED <<table, entry, crashed, life, file, at, met, late, bare>>

\* GingkoProcessCreationMonitor.  The calls of the process are over, its files
\* are closed later.
Exits(p) ==
    /\ p \in alive
    /\ Removes(p)
    /\ alive' = alive \ {p} /\ plain' = plain \ {p} /\ late' = late \ {p}
    /\ given' = [given EXCEPT ![p] = {}] /\ forgotten' = forgotten \ {p}
    /\ UNCHANGED <<life, file, at, bare>>

\* The ioctls of Bootstrap -Write.
EncryptStart(p) ==
    /\ p \in Bootstrap \cap alive
    /\ Updates(p, Started, {}, "none")
    /\ given' = [given EXCEPT ![p] = @ \cup {"any"} \cup Started]
    /\ UNCHANGED <<crashed, alive, life, file, at, met, plain, late>>

EncryptEnd(p) ==
    /\ p \in Bootstrap \cap alive
    /\ Removes(p)
    /\ forgotten' = forgotten \cup {p}
    /\ UNCHANGED <<alive, life, file, at, plain, given, late, bare>>

-----------------------------------------------------------------------------
(* Files: from the create to the close, with the service's answer.           *)

Changes(f, q) == file' = [g \in DOMAIN file \cup {f} |-> IF g = f THEN q ELSE file[g]]

FileFrame == UNCHANGED <<crashed, alive, life, at, met>>

\* ReadPrimaryKey makes no use of a key that is none, or without memory.
KeyRead(k) == {k = "good"} \cup (IF NoMemory THEN {FALSE} ELSE {})

\* EncryptedIoQueueStart looks for the key of the document, and lists the queue
\* that has none for the service.
Opens(f) ==
    /\ f \notin DOMAIN file
    /\ \E p \in Openers \cap alive, d \in Docs :
        \E k \in IF KeysFound(p, d) = {} THEN {"none"} ELSE KeysFound(p, d) : \E got \in KeyRead(k) :
            Changes(f, [pid |-> p, life |-> life[p], doc |-> d, key |-> got, answer |-> Refusal,
                        stage |-> IF got THEN "done" ELSE "asking"])
    /\ FileFrame /\ UNCHANGED <<table, entry, plain, given, late, forgotten, bare>>

\* GingkoPublicKeyResponse with an answer that is not for certain, or that finds
\* the queue stopping.
AnsweredNothing(f) ==
    /\ file[f].stage = "asking"
    /\ Changes(f, [file[f] EXCEPT !.stage = "done"])
    /\ FileFrame /\ UNCHANGED <<table, entry, plain, given, late, forgotten, bare>>

Gives(f, a) ==
    given' = IF Current(f)
             THEN [given EXCEPT ![file[f].pid] = @ \cup {"any"} \cup a.rights
                        \cup (IF a.key = "good" THEN {file[f].doc} ELSE {})]
             ELSE given

\* GingkoPublicKeyResponse installs the key in the queue first.
InstallsKey(f) ==
    /\ file[f].stage = "asking"
    /\ \E a \in Answers : \E got \in KeyRead(a.key) :
        /\ Changes(f, [file[f] EXCEPT !.key = got, !.answer = a, !.stage = "installed"])
        /\ Gives(f, a)
    /\ FileFrame /\ UNCHANGED <<table, entry, plain, late, forgotten, bare>>

\* Mutant: a permission that lets nothing be written is not recorded.
RecordsPermission_OnlyWrites(f) ==
    LET q == file[f] IN
    /\ q.stage = "installed"
    /\ IF q.answer.rights = Rights
       THEN Updates(q.pid, q.answer.rights, {q.doc}, q.answer.key)
       ELSE UNCHANGED <<table, entry, forgotten, bare>>
    /\ Changes(f, [q EXCEPT !.answer = Refusal, !.stage = "done"])
    /\ late' = late \cup (IF Current(f) THEN {} ELSE {q.pid})
    /\ FileFrame /\ UNCHANGED <<plain, given>>

\* Its call of UpdateProcessPermission.  That the event of the queue is set comes after.
RecordsPermission(f) ==
    LET q == file[f] IN
    /\ q.stage = "installed"
    /\ Updates(q.pid, q.answer.rights, {q.doc}, q.answer.key)
    /\ Changes(f, [q EXCEPT !.answer = Refusal, !.stage = "done"])
    /\ late' = late \cup (IF Current(f) THEN {} ELSE {q.pid})
    /\ FileFrame /\ UNCHANGED <<plain, given>>

\* Mutant: a read is answered after its process has gone.
Reads_OfGone(f) ==
    /\ file[f].key
    /\ plain' = plain \cup {file[f].pid}
    /\ FileFrame /\ UNCHANGED <<table, entry, file, given, late, forgotten, bare>>

\* A read of the process is answered with decrypted bytes: the main thread finds
\* the key as soon as it is in the queue, or when it is woken.
Reads(f) ==
    /\ file[f].key /\ Current(f)
    /\ plain' = plain \cup {file[f].pid}
    /\ FileFrame /\ UNCHANGED <<table, entry, file, given, late, forgotten, bare>>

\* EncryptedIoQueueStop takes the request back, or waits for the answer.
Closes(f) ==
    /\ file[f].stage \in {"asking", "done"}
    /\ file' = [g \in DOMAIN file \ {f} |-> file[g]]
    /\ FileFrame /\ UNCHANGED <<table, entry, plain, given, late, forgotten, bare>>

File(f) ==
    \/ AnsweredNothing(f) \/ InstallsKey(f) \/ RecordsPermission(f) \/ Reads(f) \/ Closes(f)

-----------------------------------------------------------------------------
(* GetPermissionUnderDecryptionByProcessId without the lock.                 *)

WalkFrame ==
    UNCHANGED <<table, entry, crashed, alive, life, file, plain, given, late, forgotten, bare>>

WalkBegins(w) ==
    /\ at[w] = "out"
    /\ at' = [at EXCEPT ![w] = "head"]
    /\ WalkFrame /\ UNCHANGED met

NextEntry(n) ==
    IF n = "head" THEN IF table = <<>> THEN "out" ELSE table[1]
    ELSE LET i == CHOOSE j \in 1..Len(table) : table[j] = n
         IN  IF i = Len(table) THEN "out" ELSE table[i + 1]

\* It ends at the entry of the id it looks for, which may be any.  From a node
\* that has been freed the walk goes anywhere; here it ends.
WalkGoesOn(w) ==
    /\ at[w] # "out"
    /\ \E to \in {"out"} \cup (IF at[w] \in Listed \cup {"head"} THEN {NextEntry(at[w])} ELSE {}) :
        /\ at' = [at EXCEPT ![w] = to]
        /\ met' = [met EXCEPT ![w] = @ /\ to # "out"]
    /\ WalkFrame

Walk(w) == WalkBegins(w) \/ WalkGoesOn(w)

Next ==
    /\ ~crashed
    /\ \/ \E p \in Pids : Begins(p) \/ Exits(p) \/ EncryptStart(p) \/ EncryptEnd(p)
       \/ \E f \in Files : Opens(f)
       \/ \E f \in DOMAIN file : File(f)
       \/ \E w \in Walkers : Walk(w)

Spec == Init /\ [][Next]_vars

-----------------------------------------------------------------------------
(* Properties.                                                               *)

(* The table is sound: every entry on the list is allocated and every         *)
(* allocated one is on the list, once, and no process has two.  A walk        *)
(* without the lock stands on freed memory only if an entry has been removed  *)
(* since it began, and the exit of a process, or END, reads a null pointer    *)
(* only if an entry was made without a key: by START, or for lack of memory   *)
(* (gingko_interact.c:320, :377, :411, gingko_lib.h:783).                     *)
TableSound ==
    /\ Listed = DOMAIN entry
    /\ \A i, j \in 1..Len(table) : entry[table[i]].pid = entry[table[j]].pid => i = j
    /\ \A w \in Walkers : at[w] \in Nodes \ Listed => met[w]
    /\ crashed => bare

Excused(p) ==
    \/ p \in late \cup forgotten
    \/ \E f \in DOMAIN file : file[f].stage = "installed" /\ file[f].pid = p

(* A process that has read decrypted bytes can write nothing until an answer  *)
(* gives it the right, as long as its entry could be made and it did not call *)
(* END.  Between the two steps of an answer, when the key is in the queue but *)
(* the permission not yet in the table, it can (gingko_interact.c:244-245).   *)
PlaintextIsGated ==
    \A p \in plain : ~WriteRefused(p) => Rights \subseteq given[p] \/ Excused(p)

(* What the table gives a process has been answered to that process and not   *)
(* to another that had its id before, unless an answer came after the exit of *)
(* the process that had asked: nothing else outlives its process.             *)
RightsAreOwn ==
    \A p \in alive \ late :
        /\ \A n \in EntryOf(p) :
            /\ "any" \in given[p]
            /\ entry[n].rights \subseteq given[p]
            /\ \A d \in Docs : entry[n].keys[d] = "good" => d \in given[p]
        /\ \A f \in DOMAIN file : Current(f) /\ file[f].pid = p /\ file[f].key
            => file[f].doc \in given[p]
=============================================================================
