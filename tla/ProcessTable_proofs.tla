------------------------ MODULE ProcessTable_proofs ------------------------
(***************************************************************************)
(* Proofs about ProcessTable, for every set of process ids, files,         *)
(* documents, rights and table entries.                                    *)
(***************************************************************************)
EXTENDS ProcessTable, Integers, SequenceTheorems, TLAPS

-----------------------------------------------------------------------------
(* Sequences.                                                                *)

Distinct(s) == \A i, j \in 1..Len(s) : s[i] = s[j] => i = j

In(s, e) == \E i \in 1..Len(s) : s[i] = e

LEMMA SplicedOf ==
  ASSUME NEW S, NEW s \in Seq(S), NEW i \in 1..Len(s)
  PROVE  LET t == SubSeq(s, 1, i - 1) \o SubSeq(s, i + 1, Len(s))
         IN  /\ t \in Seq(S) /\ Len(t) = Len(s) - 1
             /\ \A k \in 1..(Len(s) - 1) : t[k] = IF k < i THEN s[k] ELSE s[k + 1]
<1> DEFINE u == SubSeq(s, 1, i - 1)
           v == SubSeq(s, i + 1, Len(s))
           t == u \o v
<1>0. Len(s) \in Nat /\ i \in Nat /\ i >= 1 /\ i <= Len(s)
  OBVIOUS
<1>1. Len(s) \in Nat /\ i \in Nat /\ (\A k \in 1..Len(s) : s[k] \in S)
  OBVIOUS
<1>2. /\ u \in Seq(S) /\ Len(u) = i - 1
      /\ \A k \in 1..(i - 1) : u[k] = s[k]
  <2>1. /\ 1 \in Int /\ i - 1 \in Int /\ (\A k \in 1..(i - 1) : s[k] \in S)
    BY <1>1
  <2>2. /\ u \in Seq(S)
        /\ Len(u) = IF 1 <= i - 1 THEN (i - 1) - 1 + 1 ELSE 0
        /\ \A k \in 1..((i - 1) - 1 + 1) : u[k] = s[1 + k - 1]
    BY <2>1, SubSeqProperties
  <2> HIDE DEF u
  <2> QED BY <1>1, <2>2
<1>3. /\ v \in Seq(S) /\ Len(v) = Len(s) - i
      /\ \A k \in 1..(Len(s) - i) : v[k] = s[k + i]
  <2>1. /\ i + 1 \in Int /\ Len(s) \in Int /\ (\A k \in (i + 1)..Len(s) : s[k] \in S)
    BY <1>1
  <2>2. /\ v \in Seq(S)
        /\ Len(v) = IF i + 1 <= Len(s) THEN Len(s) - (i + 1) + 1 ELSE 0
        /\ \A k \in 1..(Len(s) - (i + 1) + 1) : v[k] = s[(i + 1) + k - 1]
    BY <2>1, SubSeqProperties
  <2> HIDE DEF v
  <2> QED BY <1>1, <2>2
<1> HIDE DEF u, v
<1>5. /\ t \in Seq(S) /\ Len(t) = Len(s) - 1
      /\ \A k \in 1..(Len(s) - 1) : t[k] = IF k < i THEN s[k] ELSE s[k + 1]
  <2>1. /\ t \in Seq(S) /\ Len(t) = Len(u) + Len(v)
        /\ \A k \in 1..(Len(u) + Len(v)) : t[k] = IF k <= Len(u) THEN u[k] ELSE v[k - Len(u)]
    BY <1>2, <1>3, ConcatProperties
  <2> HIDE DEF t
  <2>3. Len(t) = Len(s) - 1
    BY <1>0, <1>2, <1>3, <2>1
  <2>2. ASSUME NEW k \in 1..(Len(s) - 1) PROVE t[k] = IF k < i THEN s[k] ELSE s[k + 1]
    <3>1. CASE k < i
      <4>1. k \in 1..(i - 1) /\ k <= Len(u) /\ k \in 1..(Len(u) + Len(v))
        BY <1>0, <1>2, <1>3, <3>1
      <4> QED BY <1>2, <2>1, <3>1, <4>1
    <3>2. CASE ~(k < i)
      <4>1. /\ k - (i - 1) \in 1..(Len(s) - i) /\ ~(k <= Len(u))
            /\ k \in 1..(Len(u) + Len(v)) /\ (k - (i - 1)) + i = k + 1
        BY <1>0, <1>2, <1>3, <3>2
      <4>2. t[k] = v[k - (i - 1)] BY <1>2, <2>1, <4>1
      <4> QED BY <1>3, <3>2, <4>1, <4>2
    <3> QED BY <3>1, <3>2
  <2> QED BY <2>1, <2>2, <2>3
<1> QED BY <1>5 DEF u, v

LEMMA WithoutOf ==
  ASSUME NEW S, NEW s \in Seq(S), Distinct(s), NEW i \in 1..Len(s),
         NEW t \in Seq(S), Len(t) = Len(s) - 1,
         \A k \in 1..(Len(s) - 1) : t[k] = IF k < i THEN s[k] ELSE s[k + 1]
  PROVE  /\ Distinct(t)
         /\ \A e : In(t, e) <=> In(s, e) /\ e # s[i]
<1>0. Len(s) \in Nat /\ i \in Nat /\ i >= 1 /\ i <= Len(s)
  OBVIOUS
<1>5. \A k \in 1..(Len(s) - 1) : t[k] = IF k < i THEN s[k] ELSE s[k + 1]
  OBVIOUS
<1>11. Len(t) = Len(s) - 1
  OBVIOUS
<1>6. ASSUME NEW k \in 1..Len(t)
      PROVE  \E j \in 1..Len(s) : j # i /\ t[k] = s[j] /\ j = IF k < i THEN k ELSE k + 1
  <2>1. CASE k < i
    <3>1. k \in 1..Len(s) /\ k # i /\ k \in 1..(Len(s) - 1) BY <1>0, <1>6, <2>1, <1>11
    <3>2. t[k] = s[k] BY <1>5, <2>1, <3>1
    <3> QED BY <2>1, <3>1, <3>2
  <2>2. CASE ~(k < i)
    <3>1. k + 1 \in 1..Len(s) /\ k + 1 # i /\ k \in 1..(Len(s) - 1) BY <1>0, <1>6, <2>2, <1>11
    <3>2. t[k] = s[k + 1] BY <1>5, <2>2, <3>1
    <3> QED BY <2>2, <3>1, <3>2
  <2> QED BY <2>1, <2>2
<1>7. ASSUME NEW j \in 1..Len(s), j # i PROVE \E k \in 1..Len(t) : t[k] = s[j]
  <2>1. CASE j < i
    <3>1. j \in 1..Len(t) /\ j \in 1..(Len(s) - 1) BY <1>0, <1>7, <2>1, <1>11
    <3>2. t[j] = s[j] BY <1>5, <2>1, <3>1
    <3> QED BY <3>1, <3>2
  <2>2. CASE j > i
    <3>1. /\ j - 1 \in 1..Len(t) /\ j - 1 \in 1..(Len(s) - 1)
          /\ ~(j - 1 < i) /\ (j - 1) + 1 = j
      BY <1>0, <1>7, <2>2, <1>11
    <3>2. t[j - 1] = s[j] BY <1>5, <3>1
    <3> QED BY <3>1, <3>2
  <2> QED BY <1>0, <1>7, <2>1, <2>2
<1>8. Distinct(t)
  <2> SUFFICES ASSUME NEW k \in 1..Len(t), NEW l \in 1..Len(t), t[k] = t[l] PROVE k = l
    BY DEF Distinct
  <2>1. PICK j \in 1..Len(s) : t[k] = s[j] /\ j = IF k < i THEN k ELSE k + 1 BY <1>6
  <2>2. PICK m \in 1..Len(s) : t[l] = s[m] /\ m = IF l < i THEN l ELSE l + 1 BY <1>6
  <2>3. j = m BY <2>1, <2>2 DEF Distinct
  <2>4. k \in Int /\ l \in Int BY <1>0, <1>11
  <2> QED BY <1>0, <2>1, <2>2, <2>3, <2>4
<1>9. \A e : In(t, e) => In(s, e) /\ e # s[i]
  <2> SUFFICES ASSUME NEW k \in 1..Len(t) PROVE In(s, t[k]) /\ t[k] # s[i]
    BY DEF In
  <2>1. PICK j \in 1..Len(s) : j # i /\ t[k] = s[j] BY <1>6
  <2> QED BY <2>1 DEF In, Distinct
<1>10. \A e : In(s, e) /\ e # s[i] => In(t, e)
  BY <1>7 DEF In
<1> QED BY <1>8, <1>9, <1>10

LEMMA PushOf ==
  ASSUME NEW S, NEW s \in Seq(S), Distinct(s), NEW n \in S, ~In(s, n)
  PROVE  /\ <<n>> \o s \in Seq(S) /\ Distinct(<<n>> \o s)
         /\ \A e : In(<<n>> \o s, e) <=> In(s, e) \/ e = n
<1> DEFINE t == <<n>> \o s
<1>1. /\ t \in Seq(S) /\ Len(s) \in Nat /\ Len(t) = Len(s) + 1
      /\ t[1] = n /\ \A k \in 2..(Len(s) + 1) : t[k] = s[k - 1]
  OBVIOUS
<1> HIDE DEF t
<1>2. \A k \in 1..Len(t) : k # 1 => k - 1 \in 1..Len(s) /\ t[k] = s[k - 1]
  BY <1>1
<1>3. \A k \in 1..Len(s) : k + 1 \in 1..Len(t) /\ t[k + 1] = s[k]
  BY <1>1
<1>4. Distinct(t)
  <2> SUFFICES ASSUME NEW k \in 1..Len(t), NEW l \in 1..Len(t), t[k] = t[l] PROVE k = l
    BY DEF Distinct
  <2>1. CASE k = 1 \/ l = 1 BY <1>1, <1>2, <2>1 DEF In
  <2>2. CASE k # 1 /\ l # 1
    <3>1. k - 1 = l - 1 BY <1>2, <2>2 DEF Distinct
    <3>2. k \in Int /\ l \in Int BY <1>1
    <3> QED BY <3>1, <3>2
  <2> QED BY <2>1, <2>2
<1>5. \A e : In(t, e) <=> In(s, e) \/ e = n
  <2>1. 1 \in 1..Len(t) BY <1>1
  <2> QED BY <1>1, <1>2, <1>3, <2>1 DEF In
<1> QED BY <1>1, <1>4, <1>5 DEF t

-----------------------------------------------------------------------------
(* The table.                                                                *)

\* The table as the steps below see it: typed, each entry once, one a process.
Shape ==
    /\ table \in Seq(Nodes) /\ Distinct(table)
    /\ DOMAIN entry \subseteq Nodes /\ \A n \in DOMAIN entry : entry[n] \in Entries

OnePerPid == \A n, m \in DOMAIN entry : entry[n].pid = entry[m].pid => n = m

Indexed == Shape /\ OnePerPid /\ \A n : In(table, n) <=> n \in DOMAIN entry

LEMMA EntryOfIs ==
  ASSUME Indexed
  PROVE  /\ Listed = DOMAIN entry
         /\ \A p : EntryOf(p) = {n \in DOMAIN entry : entry[n].pid = p}
<1>1. \A n : n \in Listed <=> In(table, n)
  BY DEF Listed, In
<1>2. Listed = DOMAIN entry
  BY <1>1 DEF Indexed
<1> QED BY <1>2 DEF EntryOf

LEMMA IndexedSound ==
  ASSUME Indexed
  PROVE  /\ Listed = DOMAIN entry
         /\ \A i, j \in 1..Len(table) : entry[table[i]].pid = entry[table[j]].pid => i = j
<1> SUFFICES ASSUME NEW i \in 1..Len(table), NEW j \in 1..Len(table),
                    entry[table[i]].pid = entry[table[j]].pid
             PROVE  i = j
  BY EntryOfIs
<1>1. table[i] \in DOMAIN entry /\ table[j] \in DOMAIN entry
  BY DEF Indexed, In
<1>2. table[i] = table[j]
  BY <1>1 DEF Indexed, OnePerPid
<1> QED BY <1>2 DEF Indexed, Shape, Distinct

\* An update keeps the table in shape, and what it writes is the old entry of
\* the process with what it was called for.
Source(p, r, ds, k, x) ==
    /\ x.pid = p
    /\ \A y \in x.rights : y \in r \/ \E m \in EntryOf(p) : y \in entry[m].rights
    /\ \A d \in Docs : x.keys[d] = "good" =>
            (d \in ds /\ k = "good") \/ \E m \in EntryOf(p) : entry[m].keys[d] = "good"

Keyless == \A n \in DOMAIN entry : entry[n].keys = NoKeys => bare

LEMMA WithKeyType ==
  ASSUME NEW ks \in [Docs -> KeyStates], NEW ds \in SUBSET Docs, NEW k \in KeyStates,
         NEW l \in WithKey(ks, ds, k)
  PROVE  /\ l \in [Docs -> KeyStates]
         /\ \A d \in Docs : l[d] = ks[d] \/ (d \in ds /\ l[d] = k)
         /\ l = NoKeys /\ k # "none" => ks = NoKeys
         /\ l = NoKeys /\ ds = {} => ks = NoKeys
<1>1. CASE l = [d \in Docs |-> IF d \in ds THEN k ELSE ks[d]]
  <2>1. l \in [Docs -> KeyStates] BY <1>1
  <2>2. \A d \in Docs : l[d] = IF d \in ds THEN k ELSE ks[d] BY <1>1
  <2>3. ASSUME l = NoKeys, k # "none" \/ ds = {} PROVE ks = NoKeys
    <3>1. \A d \in Docs : l[d] = "none" BY <2>3 DEF NoKeys
    <3>2. \A d \in Docs : d \notin ds BY <2>2, <2>3, <3>1
    <3>3. \A d \in Docs : ks[d] = "none" BY <2>2, <3>1, <3>2
    <3> QED BY <3>3 DEF NoKeys
  <2> QED BY <2>1, <2>2, <2>3
<1>2. CASE l = ks
  BY <1>2
<1> QED BY <1>1, <1>2 DEF WithKey

LEMMA SetsEffect ==
  ASSUME NEW n, NEW e, Sets(n, e)
  PROVE  /\ DOMAIN entry' = DOMAIN entry \cup {n} /\ entry'[n] = e
         /\ \A m \in DOMAIN entry : m # n => entry'[m] = entry[m]
  BY DEF Sets

\* What every outcome of UpdateProcessPermission leaves behind.
Kept == /\ DOMAIN entry \subseteq DOMAIN entry'
        /\ \A n \in DOMAIN entry : entry'[n].pid = entry[n].pid
        /\ (bare => bare') /\ forgotten \subseteq forgotten'

Written(p, r, ds, k) ==
    \A n \in DOMAIN entry' :
        (n \in DOMAIN entry /\ entry'[n] = entry[n]) \/ Source(p, r, ds, k, entry'[n])

LEMMA WidensEffect ==
  ASSUME Indexed, Keyless, bare \in BOOLEAN, NEW p \in Pids, NEW r \in SUBSET Rights,
         NEW ds \in SUBSET Docs, NEW k \in KeyStates, k # "none" \/ ds = {},
         Widens(p, r, ds, k)
  PROVE  /\ Indexed' /\ Keyless' /\ Kept /\ Written(p, r, ds, k)
         /\ (\E n \in DOMAIN entry' : entry'[n].pid = p)
         /\ bare' = bare /\ forgotten' = forgotten
<1>0. PICK n \in EntryOf(p) : \E ks \in WithKey(entry[n].keys, ds, k) :
         Sets(n, [pid |-> p, rights |-> entry[n].rights \cup r, keys |-> ks])
  BY DEF Widens
<1>1. PICK ks \in WithKey(entry[n].keys, ds, k) :
         Sets(n, [pid |-> p, rights |-> entry[n].rights \cup r, keys |-> ks])
  BY <1>0
<1>2. n \in DOMAIN entry /\ entry[n].pid = p
  BY EntryOfIs
<1>3. entry[n] \in Entries
  BY <1>2 DEF Indexed, Shape
<1> DEFINE e == [pid |-> p, rights |-> entry[n].rights \cup r, keys |-> ks]
<1>4. /\ DOMAIN entry' = DOMAIN entry /\ entry'[n] = e
      /\ \A m \in DOMAIN entry : m # n => entry'[m] = entry[m]
  BY <1>1, <1>2, SetsEffect
<1>5. /\ ks \in [Docs -> KeyStates]
      /\ \A d \in Docs : ks[d] = entry[n].keys[d] \/ (d \in ds /\ ks[d] = k)
      /\ (ks = NoKeys => entry[n].keys = NoKeys)
  <2>1. entry[n].keys \in [Docs -> KeyStates] BY <1>3 DEF Entries
  <2> QED BY <2>1, WithKeyType
<1>6. e \in Entries /\ e.pid = p /\ e.keys = ks /\ e.rights = entry[n].rights \cup r
  BY <1>3, <1>5 DEF Entries
<1> HIDE DEF e
<1>7. table' = table /\ bare' = bare /\ forgotten' = forgotten
  BY DEF Widens
<1>8. \A m \in DOMAIN entry : entry'[m].pid = entry[m].pid
  BY <1>2, <1>4, <1>6
<1>9. Shape'
  BY <1>4, <1>6, <1>7 DEF Indexed, Shape
<1>10. Indexed'
  BY <1>4, <1>7, <1>8, <1>9 DEF Indexed, OnePerPid
<1>11. Keyless'
  BY <1>2, <1>4, <1>5, <1>6, <1>7 DEF Keyless
<1>12. Source(p, r, ds, k, e)
  BY <1>5, <1>6 DEF Source
<1>13. Written(p, r, ds, k)
  BY <1>4, <1>12 DEF Written
<1> QED BY <1>2, <1>4, <1>7, <1>8, <1>10, <1>11, <1>13 DEF Kept

LEMMA InsertsEffect ==
  ASSUME Indexed, Keyless, bare \in BOOLEAN, NEW p \in Pids, NEW r \in SUBSET Rights,
         NEW ds \in SUBSET Docs, NEW k \in KeyStates, k # "none" \/ ds = {},
         Inserts(p, r, ds, k)
  PROVE  /\ Indexed' /\ Keyless' /\ Kept /\ Written(p, r, ds, k)
         /\ (\E n \in DOMAIN entry' : entry'[n].pid = p)
         /\ bare' \in BOOLEAN /\ forgotten' = forgotten
<1>1. PICK n \in Nodes \ DOMAIN entry, ks \in WithKey(NoKeys, ds, k) :
         /\ table' = <<n>> \o table
         /\ Sets(n, [pid |-> p, rights |-> r, keys |-> ks])
         /\ bare' = (bare \/ ks = NoKeys)
  BY DEF Inserts
<1> DEFINE e == [pid |-> p, rights |-> r, keys |-> ks]
<1>2. /\ DOMAIN entry' = DOMAIN entry \cup {n} /\ entry'[n] = e
      /\ \A m \in DOMAIN entry : entry'[m] = entry[m]
  BY <1>1, SetsEffect
<1>3. /\ ks \in [Docs -> KeyStates]
      /\ \A d \in Docs : ks[d] = "good" => d \in ds /\ k = "good"
  <2>1. NoKeys \in [Docs -> KeyStates] /\ \A d \in Docs : NoKeys[d] = "none"
    BY DEF NoKeys, KeyStates
  <2>2. /\ ks \in [Docs -> KeyStates]
        /\ \A d \in Docs : ks[d] = NoKeys[d] \/ (d \in ds /\ ks[d] = k)
    BY <2>1, WithKeyType
  <2> QED BY <2>1, <2>2
<1>4. e \in Entries /\ e.pid = p /\ e.keys = ks /\ e.rights = r
  BY <1>3 DEF Entries
<1> HIDE DEF e
<1>5. ~In(table, n) /\ n \in Nodes
  BY <1>1 DEF Indexed
<1>6. /\ table' \in Seq(Nodes) /\ Distinct(table')
      /\ \A m : In(table', m) <=> In(table, m) \/ m = n
  BY <1>1, <1>5, PushOf DEF Indexed, Shape
<1>7. Shape'
  BY <1>2, <1>4, <1>5, <1>6 DEF Indexed, Shape
<1>8. \A m \in DOMAIN entry : entry[m].pid # p
  BY EntryOfIs DEF Inserts
<1>9. OnePerPid'
  BY <1>2, <1>4, <1>8 DEF Indexed, OnePerPid
<1>10. Indexed'
  BY <1>2, <1>6, <1>7, <1>9 DEF Indexed
<1>11. bare' \in BOOLEAN /\ (bare => bare') /\ (ks = NoKeys => bare')
  BY <1>1
<1>12. Keyless'
  BY <1>2, <1>4, <1>11 DEF Keyless
<1>13. Source(p, r, ds, k, e)
  BY <1>3, <1>4 DEF Source
<1>14. Written(p, r, ds, k)
  BY <1>2, <1>13 DEF Written
<1> QED BY <1>2, <1>4, <1>10, <1>11, <1>12, <1>14 DEF Kept, Inserts

LEMMA UpdatesEffect ==
  ASSUME Indexed, Keyless, bare \in BOOLEAN, NEW p \in Pids, NEW r \in SUBSET Rights,
         NEW ds \in SUBSET Docs, NEW k \in KeyStates, k # "none" \/ ds = {},
         Updates(p, r, ds, k)
  PROVE  /\ Indexed' /\ Keyless' /\ Kept /\ Written(p, r, ds, k)
         /\ (\E n \in DOMAIN entry' : entry'[n].pid = p) \/ p \in forgotten'
         /\ bare' \in BOOLEAN /\ forgotten' \subseteq forgotten \cup {p}
<1>1. CASE Widens(p, r, ds, k)
  BY <1>1, WidensEffect
<1>2. CASE Inserts(p, r, ds, k)
  BY <1>2, InsertsEffect
<1>3. CASE Forgets(p)
  <2>1. table' = table /\ entry' = entry /\ bare' = bare /\ forgotten' = forgotten \cup {p}
    BY <1>3 DEF Forgets
  <2> QED BY <2>1 DEF Indexed, Shape, OnePerPid, Keyless, Kept, Written
<1> QED BY <1>1, <1>2, <1>3 DEF Updates

\* A walker off the list has met a removal.
WalkersMet == \A w \in Walkers : at[w] \in Nodes \ DOMAIN entry => met[w]

WalkTypes ==
    /\ at \in [Walkers -> Nodes \cup {"out", "head"}] /\ met \in [Walkers -> BOOLEAN]
    /\ crashed \in BOOLEAN /\ bare \in BOOLEAN /\ (crashed => bare)

LEMMA RemovesEffect ==
  ASSUME Indexed, Keyless, WalkTypes, WalkersMet, ~crashed,
         NEW p \in Pids, Removes(p), bare' = bare, at' = at
  PROVE  /\ Indexed' /\ Keyless' /\ WalkTypes' /\ WalkersMet'
         /\ DOMAIN entry' \subseteq DOMAIN entry
         /\ \A n \in DOMAIN entry' : entry'[n] = entry[n]
         /\ \A n \in DOMAIN entry : entry[n].pid # p => n \in DOMAIN entry'
         /\ crashed' \/ \A n \in DOMAIN entry' : entry'[n].pid # p
<1>1. CASE EntryOf(p) = {} /\ UNCHANGED <<table, entry, crashed, met>>
  <2>1. \A n \in DOMAIN entry : entry[n].pid # p BY <1>1, EntryOfIs
  <2> QED BY <1>1, <2>1 DEF Indexed, Shape, OnePerPid, Keyless, WalkTypes, WalkersMet
<1>2. ASSUME NEW n \in EntryOf(p), entry[n].keys = NoKeys, crashed' = TRUE,
             UNCHANGED <<table, entry, met>>
      PROVE  /\ Indexed' /\ Keyless' /\ WalkTypes' /\ WalkersMet' /\ crashed'
             /\ entry' = entry
  <2>1. bare BY <1>2, EntryOfIs DEF Keyless
  <2> QED BY <1>2, <2>1 DEF Indexed, Shape, OnePerPid, Keyless, WalkTypes, WalkersMet
<1>3. ASSUME NEW n \in EntryOf(p), Unlinks(n), Frees(n),
             met' = [w \in Walkers |-> at[w] # "out"], crashed' = crashed
      PROVE  /\ Indexed' /\ Keyless' /\ WalkTypes' /\ WalkersMet'
             /\ DOMAIN entry' = DOMAIN entry \ {n}
             /\ \A m \in DOMAIN entry' : entry'[m] = entry[m]
             /\ \A m \in DOMAIN entry' : entry'[m].pid # p
             /\ \A m \in DOMAIN entry : entry[m].pid # p => m \in DOMAIN entry'
  <2>1. n \in DOMAIN entry /\ entry[n].pid = p BY EntryOfIs
  <2>2. PICK i \in 1..Len(table) :
           /\ table[i] = n
           /\ table' = SubSeq(table, 1, i - 1) \o SubSeq(table, i + 1, Len(table))
    BY <1>3 DEF Unlinks
  <2>3. table \in Seq(Nodes) /\ Distinct(table)
    BY DEF Indexed, Shape
  <2>4. /\ table' \in Seq(Nodes) /\ Len(table') = Len(table) - 1
        /\ \A k \in 1..(Len(table) - 1) : table'[k] = IF k < i THEN table[k] ELSE table[k + 1]
    BY <2>2, <2>3, SplicedOf
  <2>5. /\ Distinct(table') /\ \A e : In(table', e) <=> In(table, e) /\ e # n
    <3>1. /\ Distinct(table') /\ \A e : In(table', e) <=> In(table, e) /\ e # table[i]
      BY <2>3, <2>4, WithoutOf, Zenon
    <3> QED BY <2>2, <3>1
  <2>6. /\ DOMAIN entry' = DOMAIN entry \ {n}
        /\ \A m \in DOMAIN entry' : entry'[m] = entry[m]
    BY <1>3 DEF Frees
  <2>7. Shape' BY <2>4, <2>5, <2>6 DEF Indexed, Shape
  <2>8. OnePerPid' BY <2>6 DEF Indexed, OnePerPid
  <2>9. Indexed' BY <2>5, <2>6, <2>7, <2>8 DEF Indexed
  <2>10. Keyless' BY <2>6 DEF Keyless
  <2>11. \A w \in Walkers : met'[w] = (at[w] # "out")
    BY <1>3
  <2>12. met' \in [Walkers -> BOOLEAN]
    BY <1>3, Zenon
  <2>13. WalkersMet' BY <2>11, TableAssumption DEF WalkersMet, TableAssumption
  <2>14. WalkTypes' BY <1>3, <2>12 DEF WalkTypes
  <2>15. \A m \in DOMAIN entry' : entry'[m].pid # p
    BY <2>1, <2>6 DEF Indexed, OnePerPid
  <2>16. \A m \in DOMAIN entry : entry[m].pid # p => m \in DOMAIN entry'
    BY <2>1, <2>6
  <2> QED BY <2>6, <2>9, <2>10, <2>13, <2>14, <2>15, <2>16
<1> QED
  <2>1. CASE \E n \in EntryOf(p) : entry[n].keys = NoKeys /\ crashed' = TRUE
                                   /\ UNCHANGED <<table, entry, met>>
    BY <1>2, <2>1
  <2>2. CASE \E n \in EntryOf(p) : Unlinks(n) /\ Frees(n)
               /\ met' = [w \in Walkers |-> at[w] # "out"] /\ UNCHANGED crashed
    BY <1>3, <2>2
  <2> QED BY <1>1, <2>1, <2>2 DEF Removes

-----------------------------------------------------------------------------
(* The inductive invariant.                                                  *)

ProcTypes ==
    /\ alive \subseteq Pids /\ life \in [Pids -> Nat] /\ plain \subseteq alive
    /\ given \in [Pids -> SUBSET (Docs \cup Rights \cup {"any"})]
    /\ late \subseteq Pids /\ forgotten \subseteq Pids

FileTypes == DOMAIN file \subseteq Files /\ \A f \in DOMAIN file : file[f] \in Queues

Base == Indexed /\ Keyless /\ WalkTypes /\ WalkersMet

\* As long as the system runs, what the table holds belongs to processes that
\* live, or to whom an answer came late.
OwnersKnown == crashed \/ \A n \in DOMAIN entry : entry[n].pid \in alive \cup late

\* No file is open in a life that its process id has not had yet.
LivesOrdered == \A f \in DOMAIN file : file[f].life <= life[file[f].pid]

\* An answer whose permission is still to be recorded has been given.
AnswersGiven ==
    \A f \in DOMAIN file :
        file[f].stage = "installed" /\ Current(f) =>
            /\ "any" \in given[file[f].pid]
            /\ file[f].answer.rights \subseteq given[file[f].pid]
            /\ (file[f].answer.key = "good" => file[f].doc \in given[file[f].pid])

\* The two halves of RightsAreOwn.
Owned(x) ==
    /\ "any" \in given[x.pid] /\ x.rights \subseteq given[x.pid]
    /\ \A d \in Docs : x.keys[d] = "good" => d \in given[x.pid]

EntriesOwned == \A n \in DOMAIN entry : entry[n].pid \in alive \ late => Owned(entry[n])

KeysOwned ==
    \A f \in DOMAIN file :
        file[f].key /\ Current(f) /\ file[f].pid \notin late => file[f].doc \in given[file[f].pid]

\* Who has read plaintext, or can read it once its answer has been recorded, has
\* an entry, or one of the excuses of PlaintextIsGated.
Has(p)       == \E n \in DOMAIN entry : entry[n].pid = p
Installed(p) == \E f \in DOMAIN file : file[f].stage = "installed" /\ file[f].pid = p
Known(p)     == Has(p) \/ p \in late \cup forgotten \/ Installed(p)

KeysKnown ==
    \A f \in DOMAIN file :
        file[f].key /\ file[f].stage # "installed" /\ Current(f) => Known(file[f].pid)

PlainKnown == \A p \in plain : Known(p)

IInv ==
    /\ Base /\ ProcTypes /\ FileTypes
    /\ OwnersKnown /\ LivesOrdered /\ AnswersGiven
    /\ EntriesOwned /\ KeysOwned /\ KeysKnown /\ PlainKnown

LEMMA InitInv == Init => IInv
<1> SUFFICES ASSUME Init PROVE IInv
  OBVIOUS
<1>1. table = <<>> /\ Len(table) = 0 /\ DOMAIN entry = {} /\ DOMAIN file = {} /\ table \in Seq(Nodes)
  BY DEF Init
<1>2. Indexed /\ Keyless
  BY <1>1 DEF Indexed, Shape, OnePerPid, Keyless, Distinct, In
<1>3. at \in [Walkers -> Nodes \cup {"out", "head"}] /\ \A w \in Walkers : at[w] = "out"
  BY DEF Init
<1>4. met \in [Walkers -> BOOLEAN]
  BY Zenon DEF Init
<1>5. crashed = FALSE /\ bare = FALSE
  BY DEF Init
<1>6. WalkTypes /\ WalkersMet
  BY <1>3, <1>4, <1>5, TableAssumption DEF WalkTypes, WalkersMet, TableAssumption
<1>7. ProcTypes /\ FileTypes
  BY <1>1 DEF Init, ProcTypes, FileTypes
<1>8. plain = {}
  BY DEF Init
<1> QED BY <1>1, <1>2, <1>6, <1>7, <1>8 DEF IInv, Base, OwnersKnown, LivesOrdered, AnswersGiven,
         EntriesOwned, KeysOwned, KeysKnown, PlainKnown

-----------------------------------------------------------------------------
(* Processes.                                                                *)

LEMMA QueueIs ==
  ASSUME NEW q \in Queues
  PROVE  /\ q.pid \in Pids /\ q.life \in Nat /\ q.doc \in Docs
         /\ q.stage \in {"asking", "installed", "done"} /\ q.key \in BOOLEAN
         /\ q.answer \in Answers
  BY DEF Queues

LEMMA BeginsKeeps ==
  ASSUME IInv, ~crashed, NEW p \in Pids, Begins(p)
  PROVE  IInv'
<1> USE DEF IInv
<1>1. /\ p \notin alive /\ alive' = alive \cup {p} /\ life' = [life EXCEPT ![p] = @ + 1]
      /\ UNCHANGED <<table, entry, crashed, file, at, met, plain, given, late, forgotten, bare>>
  BY DEF Begins
<1>2. \A f \in DOMAIN file : file[f].pid \in Pids /\ file[f].life \in Nat
  BY QueueIs DEF FileTypes
<1>3. life' \in [Pids -> Nat] /\ life'[p] = life[p] + 1 /\ \A q \in Pids : q # p => life'[q] = life[q]
  BY <1>1 DEF ProcTypes
<1>4. ProcTypes' /\ FileTypes' /\ Base'
  BY <1>1, <1>3 DEF ProcTypes, FileTypes, Base, Indexed, Shape, OnePerPid, Keyless, WalkTypes,
     WalkersMet
<1>5. LivesOrdered' /\ (\A f \in DOMAIN file : Current(f)' => Current(f))
  <2> SUFFICES ASSUME NEW f \in DOMAIN file
               PROVE  file[f].life <= life'[file[f].pid] /\ (Current(f)' => Current(f))
    BY <1>1 DEF LivesOrdered
  <2>1. file[f].life <= life[file[f].pid] /\ life[file[f].pid] \in Nat
    BY <1>2 DEF LivesOrdered, ProcTypes
  <2> QED BY <1>1, <1>2, <1>3, <2>1 DEF Current
<1>6. OwnersKnown'
  BY <1>1 DEF OwnersKnown
<1>7. AnswersGiven' /\ KeysOwned'
  BY <1>1, <1>5 DEF AnswersGiven, KeysOwned
<1>8. KeysKnown' /\ PlainKnown'
  BY <1>1, <1>5 DEF KeysKnown, PlainKnown, Known, Has, Installed
<1>9. EntriesOwned'
  BY <1>1 DEF EntriesOwned, Owned, OwnersKnown
<1> QED BY <1>4, <1>5, <1>6, <1>7, <1>8, <1>9

\* The exit of a process and END, which removes the entry as well.
LEMMA ExitsKeeps ==
  ASSUME IInv, ~crashed, NEW p \in Pids, Exits(p)
  PROVE  IInv'
<1> USE DEF IInv
<1>1. /\ p \in alive /\ Removes(p)
      /\ alive' = alive \ {p} /\ plain' = plain \ {p} /\ late' = late \ {p}
      /\ given' = [given EXCEPT ![p] = {}] /\ forgotten' = forgotten \ {p}
      /\ life' = life /\ file' = file /\ at' = at /\ bare' = bare
  BY DEF Exits
<1>2. /\ Indexed' /\ Keyless' /\ WalkTypes' /\ WalkersMet'
      /\ DOMAIN entry' \subseteq DOMAIN entry
      /\ \A n \in DOMAIN entry' : entry'[n] = entry[n]
      /\ \A n \in DOMAIN entry : entry[n].pid # p => n \in DOMAIN entry'
      /\ crashed' \/ \A n \in DOMAIN entry' : entry'[n].pid # p
  BY <1>1, RemovesEffect DEF Base
<1>3. Base'
  BY <1>2 DEF Base
<1>4. \A q \in Pids : q # p => given'[q] = given[q]
  BY <1>1 DEF ProcTypes
<1>5. ProcTypes' /\ FileTypes'
  BY <1>1 DEF ProcTypes, FileTypes
<1>6. \A f \in DOMAIN file :
         /\ file[f].pid \in Pids
         /\ (Current(f)' => Current(f) /\ file[f].pid # p)
  BY <1>1, QueueIs DEF FileTypes, Current
<1>7. \A n \in DOMAIN entry : entry[n].pid \in Pids
  BY DEF Base, Indexed, Shape, Entries
<1>8. OwnersKnown'
  BY <1>1, <1>2 DEF OwnersKnown
<1>9. LivesOrdered'
  BY <1>1 DEF LivesOrdered
<1>10. AnswersGiven' /\ KeysOwned'
  BY <1>1, <1>4, <1>6 DEF AnswersGiven, KeysOwned
<1>11. EntriesOwned'
  BY <1>1, <1>2, <1>4, <1>7 DEF EntriesOwned, Owned
<1>12. \A q : q # p /\ Known(q) => Known(q)'
  BY <1>1, <1>2 DEF Known, Has, Installed
<1>13. KeysKnown' /\ PlainKnown'
  BY <1>1, <1>6, <1>12 DEF KeysKnown, PlainKnown
<1> QED BY <1>3, <1>5, <1>8, <1>9, <1>10, <1>11, <1>13

LEMMA EncryptEndKeeps ==
  ASSUME IInv, ~crashed, NEW p \in Pids, EncryptEnd(p)
  PROVE  IInv'
<1> USE DEF IInv
<1>1. /\ Removes(p) /\ forgotten' = forgotten \cup {p}
      /\ alive' = alive /\ plain' = plain /\ late' = late /\ given' = given
      /\ life' = life /\ file' = file /\ at' = at /\ bare' = bare
  BY DEF EncryptEnd
<1>2. /\ Indexed' /\ Keyless' /\ WalkTypes' /\ WalkersMet'
      /\ DOMAIN entry' \subseteq DOMAIN entry
      /\ \A n \in DOMAIN entry' : entry'[n] = entry[n]
      /\ \A n \in DOMAIN entry : entry[n].pid # p => n \in DOMAIN entry'
  BY <1>1, RemovesEffect DEF Base
<1>3. Base' /\ ProcTypes' /\ FileTypes'
  BY <1>1, <1>2 DEF Base, ProcTypes, FileTypes
<1>4. \A f : Current(f)' <=> Current(f)
  BY <1>1 DEF Current
<1>5. OwnersKnown' /\ EntriesOwned'
  BY <1>1, <1>2 DEF OwnersKnown, EntriesOwned, Owned
<1>6. LivesOrdered' /\ AnswersGiven' /\ KeysOwned'
  BY <1>1, <1>4 DEF LivesOrdered, AnswersGiven, KeysOwned
<1>7. \A q : Known(q) => Known(q)'
  BY <1>1, <1>2 DEF Known, Has, Installed
<1>8. KeysKnown' /\ PlainKnown'
  BY <1>1, <1>4, <1>7 DEF KeysKnown, PlainKnown
<1> QED BY <1>3, <1>5, <1>6, <1>8

\* What an update writes is owned if what it was called for is.
LEMMA OwnedAfterUpdate ==
  ASSUME IInv, NEW p \in Pids, NEW r, NEW ds, NEW k, Written(p, r, ds, k),
         alive' = alive, late \subseteq late', given \in [Pids -> SUBSET (Docs \cup Rights \cup {"any"})],
         \A q \in Pids : given[q] \subseteq given'[q],
         p \in alive' \ late' =>
            /\ "any" \in given'[p] /\ r \subseteq given'[p]
            /\ (k = "good" => ds \subseteq given'[p])
  PROVE  EntriesOwned'
<1> SUFFICES ASSUME NEW n \in DOMAIN entry', entry'[n].pid \in alive' \ late'
             PROVE  Owned(entry[n])'
  BY DEF EntriesOwned
<1>1. \A m \in DOMAIN entry : entry[m].pid \in Pids
  BY DEF IInv, Base, Indexed, Shape, Entries
<1>2. CASE n \in DOMAIN entry /\ entry'[n] = entry[n]
  <2>1. Owned(entry[n]) BY <1>2 DEF IInv, EntriesOwned
  <2>2. given[entry[n].pid] \subseteq given'[entry[n].pid] BY <1>1, <1>2
  <2> QED BY <1>2, <2>1, <2>2 DEF Owned
<1>3. CASE Source(p, r, ds, k, entry'[n])
  <2>1. p \in alive \ late BY <1>3 DEF Source
  <2>2. \A m \in EntryOf(p) : Owned(entry[m]) /\ entry[m].pid = p
    BY <2>1, EntryOfIs DEF IInv, Base, EntriesOwned
  <2>3. \A m \in EntryOf(p) :
           /\ entry[m].rights \subseteq given'[p]
           /\ \A d \in Docs : entry[m].keys[d] = "good" => d \in given'[p]
    BY <2>2 DEF Owned
  <2>4. "any" \in given'[p] /\ r \subseteq given'[p] /\ (k = "good" => ds \subseteq given'[p])
    <3>1. p \in alive' \ late' BY <1>3 DEF Source
    <3> QED BY <3>1
  <2> QED BY <1>3, <2>3, <2>4 DEF Source, Owned
<1> QED BY <1>2, <1>3 DEF Written

LEMMA EncryptStartKeeps ==
  ASSUME IInv, ~crashed, NEW p \in Pids, EncryptStart(p)
  PROVE  IInv'
<1> USE DEF IInv
<1>1. /\ p \in alive /\ Updates(p, Started, {}, "none")
      /\ given' = [given EXCEPT ![p] = @ \cup {"any"} \cup Started]
      /\ UNCHANGED <<crashed, alive, life, file, at, met, plain, late>>
  BY DEF EncryptStart
<1>2. Started \in SUBSET Rights /\ {} \in SUBSET Docs /\ "none" \in KeyStates
  BY TableAssumption DEF TableAssumption, KeyStates
<1>3. /\ Indexed' /\ Keyless' /\ Kept /\ Written(p, Started, {}, "none")
      /\ bare' \in BOOLEAN /\ forgotten' \subseteq forgotten \cup {p}
  BY <1>1, <1>2, UpdatesEffect DEF Base, WalkTypes, ProcTypes
<1>4. Base'
  <2>1. WalkersMet' BY <1>1, <1>3 DEF Base, WalkersMet, WalkTypes, Kept
  <2>2. WalkTypes' BY <1>1, <1>3 DEF Base, WalkTypes, Kept
  <2> QED BY <1>3, <2>1, <2>2 DEF Base
<1>5. /\ given' \in [Pids -> SUBSET (Docs \cup Rights \cup {"any"})]
      /\ given'[p] = given[p] \cup {"any"} \cup Started
      /\ \A q \in Pids : given[q] \subseteq given'[q]
  BY <1>1, <1>2 DEF ProcTypes
<1>6. ProcTypes' /\ FileTypes'
  BY <1>1, <1>3, <1>5 DEF ProcTypes, FileTypes
<1>7. \A f \in DOMAIN file : file[f].pid \in Pids /\ (Current(f)' <=> Current(f))
  BY <1>1, QueueIs DEF FileTypes, Current
<1>8. EntriesOwned'
  BY <1>1, <1>3, <1>5, OwnedAfterUpdate DEF ProcTypes
<1>9. OwnersKnown'
  BY <1>1, <1>3 DEF OwnersKnown, Written, Source
<1>10. LivesOrdered' /\ AnswersGiven' /\ KeysOwned'
  BY <1>1, <1>5, <1>7 DEF LivesOrdered, AnswersGiven, KeysOwned
<1>11. \A q : Known(q) => Known(q)'
  BY <1>1, <1>3 DEF Known, Has, Installed, Kept
<1>12. KeysKnown' /\ PlainKnown'
  BY <1>1, <1>7, <1>11 DEF KeysKnown, PlainKnown
<1> QED BY <1>4, <1>6, <1>8, <1>9, <1>10, <1>12

-----------------------------------------------------------------------------
(* Files.                                                                    *)

LEMMA AnswerIs ==
  ASSUME NEW a \in Answers
  PROVE  a.key \in {"good", "bad"} /\ a.key \in KeyStates /\ a.rights \in SUBSET Rights
<1>1. CASE a = Refusal
  BY <1>1 DEF Refusal, KeyStates
<1>2. CASE a \in [key : {"good"}, rights : Grants]
  BY <1>2, TableAssumption DEF TableAssumption, KeyStates
<1> QED BY <1>1, <1>2 DEF Answers

LEMMA RefusalIs == Refusal \in Answers
  BY DEF Answers

LEMMA KeyReadIs ==
  ASSUME NEW k, NEW got \in KeyRead(k)
  PROVE  got \in BOOLEAN /\ (got => k = "good")
<1>1. CASE got = (k = "good")
  BY <1>1
<1>2. CASE got = FALSE
  BY <1>2
<1> QED BY <1>1, <1>2 DEF KeyRead

LEMMA ChangesEffect ==
  ASSUME NEW f, NEW q, Changes(f, q)
  PROVE  /\ DOMAIN file' = DOMAIN file \cup {f} /\ file'[f] = q
         /\ \A g \in DOMAIN file : g # f => file'[g] = file[g]
  BY DEF Changes

\* A step that leaves the table alone leaves what is said of it alone.
LEMMA TableStays ==
  ASSUME IInv, FileFrame, UNCHANGED <<table, entry, bare, late>>,
         given \in [Pids -> SUBSET (Docs \cup Rights \cup {"any"})],
         \A q \in Pids : given[q] \subseteq given'[q]
  PROVE  Base' /\ OwnersKnown' /\ EntriesOwned'
<1>1. /\ UNCHANGED <<table, entry, bare, late, crashed, alive, life, at, met>>
  BY DEF FileFrame
<1>2. \A n \in DOMAIN entry : entry[n].pid \in Pids
  BY DEF IInv, Base, Indexed, Shape, Entries
<1>3. Base' /\ OwnersKnown'
  BY <1>1 DEF IInv, Base, Indexed, Shape, OnePerPid, Keyless, WalkTypes, WalkersMet, OwnersKnown
<1>4. EntriesOwned'
  BY <1>1, <1>2 DEF IInv, EntriesOwned, Owned
<1> QED BY <1>3, <1>4

\* The type of the file that an answer changes, and what it keeps.
LEMMA QueueAnswered ==
  ASSUME NEW q \in Queues, NEW got \in BOOLEAN, NEW a \in Answers
  PROVE  /\ [q EXCEPT !.stage = "done"] \in Queues
         /\ [q EXCEPT !.answer = a, !.stage = "done"] \in Queues
         /\ [q EXCEPT !.key = got, !.answer = a, !.stage = "installed"] \in Queues
  BY DEF Queues

LEMMA OpensKeeps ==
  ASSUME IInv, ~crashed, NEW f \in Files, Opens(f)
  PROVE  IInv'
<1> USE DEF IInv
<1>0. /\ f \notin DOMAIN file /\ FileFrame
      /\ UNCHANGED <<table, entry, plain, given, late, forgotten, bare>>
  BY DEF Opens
<1>1. PICK p \in Openers \cap alive, d \in Docs :
        \E k \in IF KeysFound(p, d) = {} THEN {"none"} ELSE KeysFound(p, d) : \E got \in KeyRead(k) :
            Changes(f, [pid |-> p, life |-> life[p], doc |-> d, key |-> got, answer |-> Refusal,
                        stage |-> IF got THEN "done" ELSE "asking"])
  BY DEF Opens
<1>2. PICK k \in IF KeysFound(p, d) = {} THEN {"none"} ELSE KeysFound(p, d) : \E got \in KeyRead(k) :
            Changes(f, [pid |-> p, life |-> life[p], doc |-> d, key |-> got, answer |-> Refusal,
                        stage |-> IF got THEN "done" ELSE "asking"])
  BY <1>1
<1>3. PICK got \in KeyRead(k) :
            Changes(f, [pid |-> p, life |-> life[p], doc |-> d, key |-> got, answer |-> Refusal,
                        stage |-> IF got THEN "done" ELSE "asking"])
  BY <1>2
<1> DEFINE q == [pid |-> p, life |-> life[p], doc |-> d, key |-> got, answer |-> Refusal,
                 stage |-> IF got THEN "done" ELSE "asking"]
<1>4. got \in BOOLEAN /\ (got => k = "good")
  BY KeyReadIs
<1>5. q \in Queues
  <2>1. life[p] \in Nat /\ p \in Pids BY DEF ProcTypes
  <2>2. (IF got THEN "done" ELSE "asking") \in {"asking", "installed", "done"} OBVIOUS
  <2> QED BY <1>4, <2>1, <2>2, RefusalIs DEF Queues
<1>6. /\ q.pid = p /\ q.life = life[p] /\ q.doc = d /\ q.stage # "installed"
      /\ (q.key => k = "good")
  BY <1>4
<1>7. /\ DOMAIN file' = DOMAIN file \cup {f} /\ file'[f] = q
      /\ \A g \in DOMAIN file : g # f => file'[g] = file[g]
  BY <1>3, ChangesEffect
<1> HIDE DEF q
<1>8. q.key => \E n \in DOMAIN entry : entry[n].pid = p /\ entry[n].keys[d] = "good"
  <2> SUFFICES ASSUME k = "good" PROVE \E n \in DOMAIN entry : entry[n].pid = p /\ entry[n].keys[d] = "good"
    BY <1>6
  <2>1. k \in KeysFound(p, d) OBVIOUS
  <2>2. \E n \in EntryOf(p) : entry[n].keys[d] = "good" BY <2>1 DEF KeysFound
  <2> QED BY <2>2, EntryOfIs DEF Base
<1>9. Base' /\ OwnersKnown' /\ EntriesOwned'
  BY <1>0, TableStays DEF ProcTypes
<1>10. UNCHANGED <<alive, life, plain, given, late, forgotten>>
  BY <1>0 DEF FileFrame
<1>11. ProcTypes' /\ FileTypes'
  BY <1>5, <1>7, <1>10 DEF ProcTypes, FileTypes
<1>12. \A g \in DOMAIN file : g # f /\ (Current(g)' <=> Current(g))
  BY <1>0, <1>7, <1>10 DEF Current
<1>13. LivesOrdered'
  <2>1. life[p] \in Nat BY DEF ProcTypes
  <2> QED BY <1>6, <1>7, <1>10, <1>12, <2>1 DEF LivesOrdered
<1>14. AnswersGiven'
  BY <1>6, <1>7, <1>10, <1>12 DEF AnswersGiven
<1>15. KeysOwned'
  <2>1. q.key /\ p \notin late => d \in given[p]
    BY <1>8 DEF EntriesOwned, Owned
  <2> QED BY <1>6, <1>7, <1>10, <1>12, <2>1 DEF KeysOwned
<1>16. \A x : Known(x) => Known(x)'
  BY <1>0, <1>7, <1>10, <1>12 DEF Known, Has, Installed
<1>17. KeysKnown'
  <2>1. q.key => Known(p)' BY <1>8, <1>16 DEF Known, Has
  <2> QED BY <1>6, <1>7, <1>12, <1>16, <2>1 DEF KeysKnown
<1>18. PlainKnown'
  BY <1>10, <1>16 DEF PlainKnown
<1> QED BY <1>9, <1>11, <1>13, <1>14, <1>15, <1>17, <1>18

LEMMA AnsweredNothingKeeps ==
  ASSUME IInv, NEW f \in DOMAIN file, AnsweredNothing(f)
  PROVE  IInv'
<1> USE DEF IInv
<1> DEFINE q == [file[f] EXCEPT !.stage = "done"]
<1>1. /\ file[f].stage = "asking" /\ Changes(f, q) /\ FileFrame
      /\ UNCHANGED <<table, entry, plain, given, late, forgotten, bare>>
  BY DEF AnsweredNothing
<1>2. /\ q \in Queues /\ q.pid = file[f].pid /\ q.life = file[f].life /\ q.doc = file[f].doc
      /\ q.key = file[f].key /\ q.stage = "done"
  <2>1. file[f] \in Queues BY DEF FileTypes
  <2> QED BY <2>1, RefusalIs, QueueAnswered DEF Queues
<1>3. /\ DOMAIN file' = DOMAIN file /\ file'[f] = q
      /\ \A g \in DOMAIN file : g # f => file'[g] = file[g]
  BY <1>1, ChangesEffect
<1> HIDE DEF q
<1>4. Base' /\ OwnersKnown' /\ EntriesOwned'
  BY <1>1, TableStays DEF ProcTypes
<1>5. UNCHANGED <<alive, life, plain, given, late, forgotten>>
  BY <1>1 DEF FileFrame
<1>6. ProcTypes' /\ FileTypes'
  BY <1>2, <1>3, <1>5 DEF ProcTypes, FileTypes
<1>7. \A g \in DOMAIN file : Current(g)' <=> Current(g)
  BY <1>2, <1>3, <1>5 DEF Current
<1>8. LivesOrdered' /\ AnswersGiven' /\ KeysOwned'
  BY <1>2, <1>3, <1>5, <1>7 DEF LivesOrdered, AnswersGiven, KeysOwned
<1>9. \A x : Known(x) => Known(x)'
  BY <1>1, <1>3, <1>5 DEF Known, Has, Installed
<1>10. KeysKnown' /\ PlainKnown'
  BY <1>1, <1>2, <1>3, <1>5, <1>7, <1>9 DEF KeysKnown, PlainKnown
<1> QED BY <1>4, <1>6, <1>8, <1>10

LEMMA InstallsKeyKeeps ==
  ASSUME IInv, NEW f \in DOMAIN file, InstallsKey(f)
  PROVE  IInv'
<1> USE DEF IInv
<1>0. /\ file[f].stage = "asking" /\ FileFrame /\ file[f] \in Queues
      /\ UNCHANGED <<table, entry, plain, late, forgotten, bare>>
  BY DEF InstallsKey, FileTypes
<1>1. PICK a \in Answers : \E got \in KeyRead(a.key) :
        /\ Changes(f, [file[f] EXCEPT !.key = got, !.answer = a, !.stage = "installed"])
        /\ Gives(f, a)
  BY DEF InstallsKey
<1>2. PICK got \in KeyRead(a.key) :
        /\ Changes(f, [file[f] EXCEPT !.key = got, !.answer = a, !.stage = "installed"])
        /\ Gives(f, a)
  BY <1>1
<1> DEFINE q == [file[f] EXCEPT !.key = got, !.answer = a, !.stage = "installed"]
           o == file[f].pid
<1>3. got \in BOOLEAN /\ (got => a.key = "good")
  BY KeyReadIs
<1>4. /\ q \in Queues /\ q.pid = o /\ q.life = file[f].life /\ q.doc = file[f].doc
      /\ q.key = got /\ q.answer = a /\ q.stage = "installed"
  BY <1>0, <1>3, QueueAnswered DEF Queues
<1>5. /\ DOMAIN file' = DOMAIN file /\ file'[f] = q
      /\ \A g \in DOMAIN file : g # f => file'[g] = file[g]
  BY <1>2, ChangesEffect
<1> HIDE DEF q
<1>6. /\ o \in Pids /\ file[f].doc \in Docs /\ a.rights \in SUBSET Rights
  BY <1>0, AnswerIs, QueueIs
<1>7. /\ given' \in [Pids -> SUBSET (Docs \cup Rights \cup {"any"})]
      /\ \A x \in Pids : given[x] \subseteq given'[x]
      /\ Current(f) => /\ "any" \in given'[o] /\ a.rights \subseteq given'[o]
                       /\ (a.key = "good" => file[f].doc \in given'[o])
  <2>1. CASE Current(f)
    <3> DEFINE new == {"any"} \cup a.rights \cup (IF a.key = "good" THEN {file[f].doc} ELSE {})
    <3>1. new \subseteq Docs \cup Rights \cup {"any"} BY <1>6
    <3>2. /\ "any" \in new /\ a.rights \subseteq new /\ (a.key = "good" => file[f].doc \in new)
      OBVIOUS
    <3>3. given' = [given EXCEPT ![o] = @ \cup new]
      <4>1. given' = [given EXCEPT ![o] = @ \cup {"any"} \cup a.rights
                        \cup (IF a.key = "good" THEN {file[f].doc} ELSE {})]
        BY <1>2, <2>1 DEF Gives
      <4> QED BY <4>1 DEF ProcTypes
    <3> HIDE DEF new
    <3>4. given'[o] = given[o] \cup new /\ \A x \in Pids : x # o => given'[x] = given[x]
      BY <1>6, <3>3 DEF ProcTypes
    <3>5. given' \in [Pids -> SUBSET (Docs \cup Rights \cup {"any"})]
      BY <1>6, <3>1, <3>3 DEF ProcTypes
    <3> QED BY <3>2, <3>4, <3>5
  <2>2. CASE ~Current(f)
    BY <1>2, <2>2 DEF Gives, ProcTypes
  <2> QED BY <2>1, <2>2
<1>8. Base' /\ OwnersKnown' /\ EntriesOwned'
  BY <1>0, <1>7, TableStays DEF ProcTypes
<1>9. UNCHANGED <<alive, life, plain, late, forgotten>>
  BY <1>0 DEF FileFrame
<1>10. ProcTypes' /\ FileTypes'
  BY <1>4, <1>5, <1>7, <1>9 DEF ProcTypes, FileTypes
<1>11. \A g \in DOMAIN file : file[g].pid \in Pids /\ (Current(g)' <=> Current(g))
  BY <1>4, <1>5, <1>9, QueueIs DEF FileTypes, Current
<1>12. LivesOrdered'
  BY <1>4, <1>5, <1>9 DEF LivesOrdered
<1>13. AnswersGiven'
  BY <1>4, <1>5, <1>7, <1>11 DEF AnswersGiven
<1>14. KeysOwned'
  BY <1>3, <1>4, <1>5, <1>7, <1>9, <1>11 DEF KeysOwned
<1>15. \A x : Known(x) => Known(x)'
  BY <1>0, <1>4, <1>5, <1>9 DEF Known, Has, Installed
<1>16. KeysKnown' /\ PlainKnown'
  BY <1>4, <1>5, <1>9, <1>11, <1>15 DEF KeysKnown, PlainKnown
<1> QED BY <1>8, <1>10, <1>12, <1>13, <1>14, <1>16

LEMMA RecordsKeeps ==
  ASSUME IInv, ~crashed, NEW f \in DOMAIN file, RecordsPermission(f)
  PROVE  IInv'
<1> USE DEF IInv
<1> DEFINE o == file[f].pid
           a == file[f].answer
           q == [file[f] EXCEPT !.answer = Refusal, !.stage = "done"]
<1>1. /\ file[f].stage = "installed" /\ FileFrame /\ file[f] \in Queues
      /\ Updates(o, a.rights, {file[f].doc}, a.key) /\ Changes(f, q)
      /\ late' = late \cup (IF Current(f) THEN {} ELSE {o})
      /\ UNCHANGED <<plain, given>>
  BY DEF RecordsPermission, FileTypes
<1>2. /\ o \in Pids /\ file[f].doc \in Docs /\ a \in Answers
  BY <1>1, QueueIs
<1>3. a.key \in KeyStates /\ a.key # "none" /\ a.rights \in SUBSET Rights
  BY <1>2, AnswerIs
<1>4. /\ q \in Queues /\ q.pid = o /\ q.life = file[f].life /\ q.doc = file[f].doc
      /\ q.key = file[f].key /\ q.stage = "done"
  BY <1>1, RefusalIs, QueueAnswered DEF Queues
<1>5. /\ DOMAIN file' = DOMAIN file /\ file'[f] = q
      /\ \A g \in DOMAIN file : g # f => file'[g] = file[g]
  BY <1>1, ChangesEffect
<1> HIDE DEF q
<1>6. /\ Indexed' /\ Keyless' /\ Kept /\ Written(o, a.rights, {file[f].doc}, a.key)
      /\ (\E n \in DOMAIN entry' : entry'[n].pid = o) \/ o \in forgotten'
      /\ bare' \in BOOLEAN /\ forgotten' \subseteq forgotten \cup {o}
  <2>1. {file[f].doc} \in SUBSET Docs BY <1>2
  <2>2. bare \in BOOLEAN /\ Indexed /\ Keyless BY DEF Base, WalkTypes
  <2> QED BY <1>1, <1>2, <1>3, <2>1, <2>2, UpdatesEffect
<1>7. UNCHANGED <<crashed, alive, life, at, met, plain, given>>
  BY <1>1 DEF FileFrame
<1>8. Base'
  <2>1. WalkersMet' BY <1>6, <1>7 DEF Base, WalkersMet, WalkTypes, Kept
  <2>2. WalkTypes' BY <1>6, <1>7 DEF Base, WalkTypes, Kept
  <2> QED BY <1>6, <2>1, <2>2 DEF Base
<1>9. /\ late \subseteq late' /\ late' \subseteq late \cup {o}
      /\ ~Current(f) => o \in late'
  BY <1>1
<1>10. ProcTypes' /\ FileTypes'
  BY <1>2, <1>4, <1>5, <1>6, <1>7, <1>9 DEF ProcTypes, FileTypes
<1>11. \A g \in DOMAIN file : file[g].pid \in Pids /\ (Current(g)' <=> Current(g))
  BY <1>4, <1>5, <1>7, QueueIs DEF FileTypes, Current
<1>12. EntriesOwned'
  <2>1. o \in alive' \ late' =>
           /\ "any" \in given'[o] /\ a.rights \subseteq given'[o]
           /\ (a.key = "good" => {file[f].doc} \subseteq given'[o])
    BY <1>1, <1>7, <1>9 DEF AnswersGiven
  <2>2. \A x \in Pids : given[x] \subseteq given'[x]
    BY <1>7
  <2> QED BY <1>2, <1>6, <1>7, <1>9, <2>1, <2>2, OwnedAfterUpdate DEF ProcTypes
<1>13. OwnersKnown'
  <2>1. o \in alive' \cup late' BY <1>7, <1>9 DEF Current
  <2> QED BY <1>6, <1>7, <1>9, <2>1 DEF OwnersKnown, Written, Source
<1>14. LivesOrdered' /\ AnswersGiven' /\ KeysOwned'
  BY <1>4, <1>5, <1>7, <1>9, <1>11 DEF LivesOrdered, AnswersGiven, KeysOwned
<1>15. \A x : x = o => Known(x)'
  BY <1>6 DEF Known, Has
<1>16. \A x : x # o /\ Known(x) => Known(x)'
  BY <1>5, <1>6, <1>9 DEF Known, Has, Installed, Kept
<1>17. KeysKnown' /\ PlainKnown'
  BY <1>4, <1>5, <1>7, <1>11, <1>15, <1>16 DEF KeysKnown, PlainKnown
<1> QED BY <1>8, <1>10, <1>12, <1>13, <1>14, <1>17

LEMMA ReadsKeeps ==
  ASSUME IInv, NEW f \in DOMAIN file, Reads(f)
  PROVE  IInv'
<1> USE DEF IInv
<1>1. /\ file[f].key /\ Current(f) /\ plain' = plain \cup {file[f].pid} /\ FileFrame
      /\ UNCHANGED <<table, entry, file, given, late, forgotten, bare>>
  BY DEF Reads
<1>2. UNCHANGED <<alive, life, file, given, late, forgotten>>
  BY <1>1 DEF FileFrame
<1>3. Base' /\ OwnersKnown' /\ EntriesOwned'
  BY <1>1, TableStays DEF ProcTypes
<1>4. ProcTypes' /\ FileTypes'
  BY <1>1, <1>2 DEF ProcTypes, FileTypes, Current
<1>5. \A g : Current(g)' <=> Current(g)
  BY <1>2 DEF Current
<1>6. LivesOrdered' /\ AnswersGiven' /\ KeysOwned'
  BY <1>2, <1>5 DEF LivesOrdered, AnswersGiven, KeysOwned
<1>7. \A x : Known(x) => Known(x)'
  BY <1>1 DEF Known, Has, Installed
<1>8. Known(file[f].pid)
  <2>1. CASE file[f].stage = "installed" BY <2>1 DEF Known, Installed
  <2>2. CASE file[f].stage # "installed" BY <1>1, <2>2 DEF KeysKnown
  <2> QED BY <2>1, <2>2
<1>9. KeysKnown' /\ PlainKnown'
  BY <1>1, <1>2, <1>5, <1>7, <1>8 DEF KeysKnown, PlainKnown
<1> QED BY <1>3, <1>4, <1>6, <1>9

LEMMA ClosesKeeps ==
  ASSUME IInv, NEW f \in DOMAIN file, Closes(f)
  PROVE  IInv'
<1> USE DEF IInv
<1>1. /\ file[f].stage # "installed" /\ FileFrame
      /\ DOMAIN file' = DOMAIN file \ {f} /\ \A g \in DOMAIN file' : file'[g] = file[g]
      /\ UNCHANGED <<table, entry, plain, given, late, forgotten, bare>>
  BY DEF Closes
<1>2. UNCHANGED <<alive, life, plain, given, late, forgotten>>
  BY <1>1 DEF FileFrame
<1>3. Base' /\ OwnersKnown' /\ EntriesOwned'
  BY <1>1, TableStays DEF ProcTypes
<1>4. ProcTypes' /\ FileTypes'
  BY <1>1, <1>2 DEF ProcTypes, FileTypes
<1>5. \A g \in DOMAIN file' : g \in DOMAIN file /\ (Current(g)' <=> Current(g))
  BY <1>1, <1>2 DEF Current
<1>6. LivesOrdered' /\ AnswersGiven' /\ KeysOwned'
  BY <1>1, <1>2, <1>5 DEF LivesOrdered, AnswersGiven, KeysOwned
<1>7. \A x : Known(x) => Known(x)'
  BY <1>1 DEF Known, Has, Installed
<1>8. KeysKnown' /\ PlainKnown'
  BY <1>1, <1>2, <1>5, <1>7 DEF KeysKnown, PlainKnown
<1> QED BY <1>3, <1>4, <1>6, <1>8

-----------------------------------------------------------------------------
(* Walkers, and the rest of Next.                                            *)

LEMMA NextEntryIs ==
  ASSUME Indexed, NEW n, n \in DOMAIN entry \/ n = "head"
  PROVE  NextEntry(n) \in DOMAIN entry \cup {"out"}
<1>1. /\ Len(table) \in Nat
      /\ \A i \in 1..Len(table) : table[i] \in DOMAIN entry
      /\ table # <<>> => 1 \in 1..Len(table)
  BY DEF Indexed, Shape, In
<1>2. CASE n = "head"
  BY <1>1, <1>2 DEF NextEntry
<1>3. CASE n # "head"
  <2> DEFINE i == CHOOSE j \in 1..Len(table) : table[j] = n
  <2>1. i \in 1..Len(table) BY <1>3 DEF Indexed, In
  <2>2. NextEntry(n) = IF i = Len(table) THEN "out" ELSE table[i + 1]
    BY <1>3 DEF NextEntry
  <2> HIDE DEF i
  <2>3. i # Len(table) => i + 1 \in 1..Len(table) BY <1>1, <2>1
  <2> QED BY <1>1, <2>2, <2>3
<1> QED BY <1>2, <1>3

LEMMA WalkKeeps ==
  ASSUME IInv, NEW w \in Walkers, Walk(w)
  PROVE  IInv'
<1>1. /\ UNCHANGED <<table, entry, crashed, alive, life, file, plain, given, late, forgotten, bare>>
  BY DEF Walk, WalkBegins, WalkGoesOn, WalkFrame
<1>2. WalkTypes' /\ WalkersMet'
  <2>1. CASE WalkBegins(w)
    <3>1. at' = [at EXCEPT ![w] = "head"] /\ met' = met BY <2>1 DEF WalkBegins
    <3> QED BY <1>1, <3>1, TableAssumption
         DEF IInv, Base, WalkTypes, WalkersMet, TableAssumption
  <2>2. CASE WalkGoesOn(w)
    <3>1. PICK to \in {"out"} \cup (IF at[w] \in Listed \cup {"head"} THEN {NextEntry(at[w])} ELSE {}) :
             /\ at' = [at EXCEPT ![w] = to]
             /\ met' = [met EXCEPT ![w] = @ /\ to # "out"]
      BY <2>2 DEF WalkGoesOn
    <3>2. to \in DOMAIN entry \cup {"out"}
      <4>1. CASE at[w] \in Listed \cup {"head"}
        BY <4>1, EntryOfIs, NextEntryIs DEF IInv, Base
      <4> QED BY <4>1
    <3>3. DOMAIN entry \subseteq Nodes BY DEF IInv, Base, Indexed, Shape
    <3>4. at' \in [Walkers -> Nodes \cup {"out", "head"}] /\ at'[w] = to
          /\ \A v \in Walkers : v # w => at'[v] = at[v]
      BY <3>1, <3>2, <3>3 DEF IInv, Base, WalkTypes
    <3>5. met' \in [Walkers -> BOOLEAN] /\ \A v \in Walkers : v # w => met'[v] = met[v]
      <4>1. met \in [Walkers -> BOOLEAN] BY DEF IInv, Base, WalkTypes
      <4>2. PICK b \in BOOLEAN : met' = [met EXCEPT ![w] = b]
        <5>1. (met[w] /\ to # "out") \in BOOLEAN BY Zenon
        <5>2. met' = [met EXCEPT ![w] = (met[w] /\ to # "out")] BY <3>1, <4>1
        <5> QED BY <5>1, <5>2, Zenon
      <4> QED BY <4>1, <4>2
    <3>6. "out" \notin Nodes BY TableAssumption DEF TableAssumption
    <3>7. WalkersMet'
      <4> SUFFICES ASSUME NEW v \in Walkers, at'[v] \in Nodes \ DOMAIN entry PROVE met'[v]
        BY <1>1 DEF WalkersMet
      <4>1. v # w BY <3>2, <3>4, <3>6
      <4> QED BY <3>4, <3>5, <4>1 DEF IInv, Base, WalkersMet
    <3> QED BY <1>1, <3>4, <3>5, <3>7 DEF IInv, Base, WalkTypes
  <2> QED BY <2>1, <2>2 DEF Walk
<1>3. Base'
  BY <1>1, <1>2 DEF IInv, Base, Indexed, Shape, OnePerPid, Keyless
<1>4. \A g : Current(g)' <=> Current(g)
  BY <1>1 DEF Current
<1>5. \A x : Known(x)' <=> Known(x)
  BY <1>1 DEF Known, Has, Installed
<1>6. ProcTypes' /\ FileTypes' /\ OwnersKnown' /\ LivesOrdered' /\ EntriesOwned'
  BY <1>1 DEF IInv, ProcTypes, FileTypes, OwnersKnown, LivesOrdered, EntriesOwned, Owned
<1>7. AnswersGiven' /\ KeysOwned' /\ KeysKnown' /\ PlainKnown'
  BY <1>1, <1>4, <1>5 DEF IInv, AnswersGiven, KeysOwned, KeysKnown, PlainKnown
<1> QED BY <1>3, <1>6, <1>7 DEF IInv

LEMMA StutterKeeps == IInv /\ UNCHANGED vars => IInv'
  BY DEF vars, IInv, Base, Indexed, Shape, OnePerPid, Keyless, WalkTypes, WalkersMet, ProcTypes,
     FileTypes, OwnersKnown, LivesOrdered, AnswersGiven, EntriesOwned, Owned, KeysOwned,
     KeysKnown, PlainKnown, Known, Has, Installed, Current

(* Every reachable state satisfies the inductive invariant: what the table    *)
(* holds for a process that lives has been answered to it, and whoever has    *)
(* read plaintext has an entry or one of the named excuses.                   *)
THEOREM TableInvariant == Spec => []IInv
<1>1. ASSUME IInv, Next PROVE IInv'
  <2>1. CASE \E p \in Pids : Begins(p) \/ Exits(p) \/ EncryptStart(p) \/ EncryptEnd(p)
    BY <1>1, <2>1, BeginsKeeps, ExitsKeeps, EncryptStartKeeps, EncryptEndKeeps DEF Next
  <2>2. CASE \E f \in Files : Opens(f)
    BY <1>1, <2>2, OpensKeeps DEF Next
  <2>3. CASE \E f \in DOMAIN file : File(f)
    BY <1>1, <2>3, AnsweredNothingKeeps, InstallsKeyKeeps, RecordsKeeps, ReadsKeeps, ClosesKeeps
       DEF Next, File
  <2>4. CASE \E w \in Walkers : Walk(w)
    BY <1>1, <2>4, WalkKeeps
  <2> QED BY <1>1, <2>1, <2>2, <2>3, <2>4 DEF Next
<1>2. IInv /\ [Next]_vars => IInv'
  BY <1>1, StutterKeeps
<1> QED BY <1>2, InitInv, PTL DEF Spec

-----------------------------------------------------------------------------
(* The properties of the run.                                                *)

(* Every reachable state has the declared type (UpdateProcessPermission and   *)
(* RemoveProcessUnderDecryption, gingko_interact.c:411-581).                  *)
THEOREM TableTypeCorrect == Spec => []TypeOK
<1>1. IInv => TypeOK
  BY DEF IInv, Base, Indexed, Shape, WalkTypes, ProcTypes, FileTypes, TypeOK
<1> QED BY <1>1, TableInvariant, PTL

(* The table is sound: the list and the allocated entries are the same, no    *)
(* process has two, a walker stands on freed memory only after a removal, and *)
(* only an entry made without a key crashes the system (gingko_interact.c:431).*)
THEOREM TableSoundCorrect == Spec => []TableSound
<1>1. ASSUME IInv PROVE TableSound
  <2>1. /\ Listed = DOMAIN entry
        /\ \A i, j \in 1..Len(table) : entry[table[i]].pid = entry[table[j]].pid => i = j
    BY <1>1, IndexedSound DEF IInv, Base
  <2> QED BY <1>1, <2>1 DEF IInv, Base, WalkTypes, WalkersMet, TableSound
<1> QED BY <1>1, TableInvariant, PTL

(* What a process has in the table has been answered to it, unless an answer  *)
(* came after the exit of the process that asked (gingko_interact.c:245).     *)
THEOREM RightsAreOwnCorrect == Spec => []RightsAreOwn
<1>1. ASSUME IInv PROVE RightsAreOwn
  <2>1. \A p : \A n \in EntryOf(p) : n \in DOMAIN entry /\ entry[n].pid = p
    BY <1>1, EntryOfIs DEF IInv, Base
  <2> QED BY <1>1, <2>1 DEF IInv, EntriesOwned, Owned, KeysOwned, RightsAreOwn
<1> QED BY <1>1, TableInvariant, PTL

(* A process that has read plaintext writes nothing before an answer gives it *)
(* the right, outside the windows that the property names                     *)
(* (gingko_interact.c:244-245, gingko_readwrite.c:525-536).                   *)
THEOREM PlaintextIsGatedCorrect == Spec => []PlaintextIsGated
<1>1. ASSUME IInv, NEW p \in plain, ~WriteRefused(p), ~Excused(p)
      PROVE  Rights \subseteq given[p]
  <2>1. Has(p) /\ p \in alive \ late
    BY <1>1 DEF IInv, PlainKnown, Known, Installed, Excused, ProcTypes
  <2>2. PICK n \in DOMAIN entry : entry[n].pid = p
    BY <2>1 DEF Has
  <2>3. entry[n].rights = Rights
    BY <1>1, <2>2, EntryOfIs DEF IInv, Base, WriteRefused
  <2> QED BY <1>1, <2>1, <2>2, <2>3 DEF IInv, EntriesOwned, Owned
<1>2. IInv => PlaintextIsGated
  BY <1>1 DEF PlaintextIsGated
<1> QED BY <1>2, TableInvariant, PTL
=============================================================================
