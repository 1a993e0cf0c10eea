------------------------ MODULE FragmentRead_proofs ------------------------
(***************************************************************************)
(* ReadInv is an inductive invariant of FragmentRead, for every sector and *)
(* fragment size, every document and every read.                           *)
(***************************************************************************)
EXTENDS FragmentRead, TLAPS

-----------------------------------------------------------------------------
(* Arithmetic of sectors and fragments.                                      *)

\* Rounding down to a multiple of f.
LEMMA RoundDown ==
    ASSUME NEW f \in Nat \ {0}, NEW o \in Nat
    PROVE  /\ (o \div f) * f \in Nat
           /\ ((o \div f) * f) % f = 0
           /\ (o \div f) * f <= o /\ o < (o \div f) * f + f
<1>1. (o \div f) \in Nat BY SMT
<1>2. (o \div f) * f \in Nat BY <1>1, SMT
<1>3. ASSUME NEW q \in Nat PROVE (q * f) % f = 0 BY SMT
<1>4. ((o \div f) * f) % f = 0 BY <1>1, <1>3
<1>5. (o \div f) * f <= o /\ o < (o \div f) * f + f BY SMT
<1> QED BY <1>2, <1>4, <1>5

\* A multiple of f is one.
LEMMA Multiple ==
    ASSUME NEW f \in Nat \ {0}, NEW x \in Nat, x % f = 0
    PROVE  \E q \in Nat : x = q * f
<1>1. (x \div f) \in Nat BY SMT
<1>2. x = (x \div f) * f BY SMT
<1> QED BY <1>1, <1>2

LEMMA MultipleMod ==
    ASSUME NEW f \in Nat \ {0}, NEW q \in Nat
    PROVE  (q * f) % f = 0
BY SMT

\* The multiple that follows a multiple.
LEMMA NextMultiple ==
    ASSUME NEW f \in Nat \ {0}, NEW x \in Nat, x % f = 0
    PROVE  (x + f) % f = 0
<1>1. PICK q \in Nat : x = q * f BY Multiple
<1>2. q + 1 \in Nat /\ x + f = (q + 1) * f BY <1>1, SMT
<1>3. ((q + 1) * f) % f = 0 BY <1>2, MultipleMod
<1> QED BY <1>2, <1>3

\* A multiple of a multiple.
LEMMA MultipleOfMultiple ==
    ASSUME NEW u \in Nat \ {0}, NEW f \in Nat \ {0}, f % u = 0,
           NEW x \in Nat, x % f = 0
    PROVE  x % u = 0
<1>1. PICK q \in Nat : x = q * f BY Multiple
<1>2. PICK p \in Nat : f = p * u BY Multiple
<1>3. x = (q * p) * u /\ q * p \in Nat BY <1>1, <1>2, SMT
<1> QED BY <1>3, MultipleMod

\* Nothing fits between two neighbouring multiples.
LEMMA MultiplesApart ==
    ASSUME NEW u \in Nat \ {0}, NEW p \in Nat, NEW q \in Nat, p * u < q * u
    PROVE  p * u + u <= q * u
<1>1. p < q BY SMT
<1>2. PICK r \in Nat : q = p + 1 + r BY <1>1, SMT
<1>3. q * u = p * u + u + r * u BY <1>2, SMT
<1>4. r * u \in Nat BY SMT
<1> QED BY <1>3, <1>4, SMT

\* Rounding s up to a multiple of u, and what lies between the two.
LEMMA RoundUp ==
    ASSUME NEW u \in Nat \ {0}, NEW s \in Nat
    PROVE  LET r == ((s + u - 1) \div u) * u IN
           /\ r \in Nat /\ s <= r
           /\ \A x \in Nat : x % u = 0 /\ x >= s => x >= r
<1> DEFINE q == (s + u - 1) \div u
           r == q * u
<1>1. s + u - 1 \in Nat BY SMT
<1>2. q \in Nat /\ r = q * u BY <1>1, SMT
<1>3. r \in Nat /\ r <= s + u - 1 /\ s + u - 1 < r + u BY <1>1, RoundDown
<1>4. ASSUME NEW x \in Nat, x % u = 0, x >= s, x < r PROVE FALSE
  <2>1. PICK p \in Nat : x = p * u BY <1>4, Multiple
  <2>2. p * u < q * u BY <1>2, <1>4, <2>1
  <2>3. x + u <= r
    <3> HIDE DEF q, r
    <3> QED BY <1>2, <2>1, <2>2, MultiplesApart
  <2> QED BY <1>3, <1>4, <2>3, SMT
<1>5. s <= r BY <1>3, SMT
<1>6. \A x \in Nat : x % u = 0 /\ x >= s => x >= r
  <2> SUFFICES ASSUME NEW x \in Nat, x % u = 0, x >= s PROVE x >= r
    OBVIOUS
  <2>1. ~(x < r) BY <1>4
  <2> QED BY <1>3, <2>1, SMT
<1> QED BY <1>3, <1>5, <1>6

-----------------------------------------------------------------------------
(* The stored document.                                                      *)

\* The document is stored in whole sectors, and the padding is less than one.
LEMMA StoredSectors ==
    ASSUME TypeOK
    PROVE  /\ size \in Nat /\ Stored \in Nat /\ size <= Stored
           /\ \A x \in Nat : x % Fragment = 0 /\ x >= size => x >= Stored
<1>1. size \in Nat BY InputsAssumption DEF TypeOK
<1>2. Sector \in Nat \ {0} /\ Fragment \in Nat \ {0} /\ Fragment % Sector = 0
  BY FragmentAssumption
<1>3. /\ Stored \in Nat /\ size <= Stored
      /\ \A x \in Nat : x % Sector = 0 /\ x >= size => x >= Stored
  BY <1>1, <1>2, RoundUp DEF Stored
<1>4. \A x \in Nat : x % Fragment = 0 => x % Sector = 0
  BY <1>2, MultipleOfMultiple
<1> QED BY <1>1, <1>3, <1>4

-----------------------------------------------------------------------------
(* The cached fragment.                                                      *)

CacheTypeOK ==
    /\ cacheOffset \in Nat /\ cacheLength \in Nat
    /\ cacheStatus \in {"success", "endOfFile"}
    /\ buffer \in [base : Nat, bytes : 0..Fragment]

\* A load at a fragment boundary leaves a fragment, or nothing, in the cache.
LEMMA LoadKeepsCache ==
    ASSUME TypeOK, size' = size, NEW from \in Nat, from % Fragment = 0, Load(from)
    PROVE  CacheTypeOK' /\ CacheHoldsFragment'
<1> DEFINE bytes == Smaller(Fragment, Stored - from)
<1>0. Fragment \in Nat \ {0} BY FragmentAssumption
<1>1. size \in Nat /\ Stored \in Nat /\ size <= Stored
  BY StoredSectors
<1>2. Stored' = Stored BY DEF Stored
<1>3. CASE LoadSucceeds(from)
  <2>1. from < Stored /\ from < size BY <1>1, <1>3, StoredSectors, SMT DEF LoadSucceeds
  <2>2. /\ bytes \in 0..Fragment /\ bytes # 0
        /\ bytes < Fragment => bytes = Stored - from
        /\ ~(bytes < Fragment) => bytes = Fragment /\ from + Fragment <= Stored
    BY <1>0, <1>1, <2>1, SMT DEF Smaller
  <2> HIDE DEF bytes
  <2>3. /\ buffer' = [base |-> from, bytes |-> bytes]
        /\ cacheOffset' = from
        /\ cacheLength' = IF bytes < Fragment THEN size - from ELSE bytes
        /\ cacheStatus' = IF bytes < Fragment THEN "endOfFile" ELSE "success"
    BY <1>3 DEF LoadSucceeds, bytes
  <2>4. buffer'.base = from /\ buffer'.bytes = bytes BY <2>3
  <2>5. CASE bytes < Fragment
    <3>1. cacheLength' = size - from /\ cacheStatus' = "endOfFile" BY <2>3, <2>5
    <3>2. size - from \in Nat /\ size - from <= bytes /\ from + (size - from) = size
      BY <1>1, <2>1, <2>2, <2>5, SMT
    <3>3. CacheTypeOK' BY <2>2, <2>3, <3>1, <3>2 DEF CacheTypeOK
    <3>4. CacheHoldsFragment'
      BY <2>2, <2>3, <2>4, <3>1, <3>2 DEF CacheHoldsFragment
    <3> QED BY <3>3, <3>4
  <2>6. CASE ~(bytes < Fragment)
    <3>1. cacheLength' = Fragment /\ cacheStatus' = "success" /\ bytes = Fragment
      BY <2>2, <2>3, <2>6
    <3>2. CacheTypeOK' BY <1>0, <2>2, <2>3, <3>1 DEF CacheTypeOK
    <3>3. CacheHoldsFragment'
      BY <1>0, <1>2, <2>2, <2>3, <2>4, <2>6, <3>1 DEF CacheHoldsFragment
    <3> QED BY <3>2, <3>3
  <2> QED BY <2>5, <2>6
<1>4. CASE LoadFails(from)
  <2>1. buffer' = [base |-> from, bytes |-> 0] /\ cacheOffset' = from
        /\ cacheLength' = 0 /\ cacheStatus' = "endOfFile"
    BY <1>4 DEF LoadFails
  <2>2. buffer'.base = from /\ buffer'.bytes = 0 BY <2>1
  <2>3. CacheTypeOK' BY <1>0, <2>1, SMT DEF CacheTypeOK
  <2>4. CacheHoldsFragment' BY <2>1, <2>2 DEF CacheHoldsFragment
  <2> QED BY <2>3, <2>4
<1> QED BY <1>3, <1>4 DEF Load

-----------------------------------------------------------------------------
(* The read at hand.                                                         *)

ReadTypeOK ==
    /\ pc \in {"idle", "reading", "answered"}
    /\ start \in Nat /\ length \in Nat /\ commit \in 0..length
    /\ data \in [0..(length - 1) -> Nat \cup {NoByte}]
    /\ status \in {"success", "endOfFile"}

LEMMA TypeParts == TypeOK <=> size \in Sizes /\ CacheTypeOK /\ ReadTypeOK
BY DEF TypeOK, CacheTypeOK, ReadTypeOK

\* What is copied from the cached fragment is the document from the offset on.
LEMMA CopyDelivers ==
    ASSUME TypeOK, CacheHoldsFragment, DeliversDocument, PaddingStaysInside,
           InFragment, UNCHANGED <<size, start, length>>,
           NEW n \in Nat, n <= remaining, offset - cacheOffset + n <= cacheLength,
           Copy(n)
    PROVE  /\ commit' = commit + n /\ commit' \in 0..length'
           /\ data' \in [0..(length' - 1) -> Nat \cup {NoByte}]
           /\ DeliversDocument' /\ PaddingStaysInside'
<1> DEFINE new(i) == IF i \in commit..(commit + n - 1)
                     THEN Byte(offset - cacheOffset + (i - commit)) ELSE data[i]
<1>1. /\ start \in Nat /\ length \in Nat /\ commit \in 0..length
      /\ cacheOffset \in Nat /\ cacheLength \in Nat
      /\ data \in [0..(length - 1) -> Nat \cup {NoByte}]
      /\ buffer.bytes \in 0..Fragment
  BY DEF TypeOK
<1>2. cacheOffset <= start + commit BY DEF InFragment, offset
<1>3. n <= length - commit /\ start + commit - cacheOffset + n <= cacheLength
  BY <1>1 DEF remaining, offset
<1>4. Fragment \in Nat \ {0} BY FragmentAssumption
<1>5. commit' = commit + n /\ commit' \in 0..length'
  <2>1. commit + n \in 0..length BY <1>1, <1>3, SMT
  <2> QED BY <2>1 DEF Copy
<1>6. data' = [i \in 0..(length - 1) |-> new(i)]
  <2>1. DOMAIN data = 0..(length - 1) BY <1>1
  <2> QED BY <2>1 DEF Copy
<1>7. \A i \in commit..(commit + n - 1) : new(i) = start + i
  <2> SUFFICES ASSUME NEW i \in commit..(commit + n - 1) PROVE new(i) = start + i
    OBVIOUS
  <2>1. buffer.base = cacheOffset /\ cacheOffset % Fragment = 0
        /\ cacheLength <= buffer.bytes
    BY DEF CacheHoldsFragment
  <2>2. offset - cacheOffset + (i - commit) \in 0..(buffer.bytes - 1)
    BY <1>1, <1>2, <1>3, <1>4, <2>1, SMT DEF offset
  <2>3. Byte(offset - cacheOffset + (i - commit))
          = cacheOffset + (offset - cacheOffset + (i - commit))
    BY <2>1, <2>2 DEF Byte
  <2>4. cacheOffset + (offset - cacheOffset + (i - commit)) = start + i
    BY <1>1, SMT DEF offset
  <2> QED BY <2>3, <2>4
<1>8. \A i \in 0..(length - 1) : new(i) \in Nat \cup {NoByte}
  <2> SUFFICES ASSUME NEW i \in 0..(length - 1) PROVE new(i) \in Nat \cup {NoByte}
    OBVIOUS
  <2>1. CASE i \in commit..(commit + n - 1)
    <3>1. new(i) = start + i BY <1>7, <2>1
    <3>2. start + i \in Nat BY <1>1, SMT
    <3> QED BY <3>1, <3>2
  <2>2. CASE i \notin commit..(commit + n - 1)
    BY <1>1, <2>2
  <2> QED BY <2>1, <2>2
<1>9. data' \in [0..(length' - 1) -> Nat \cup {NoByte}]
  <2> HIDE DEF new
  <2> QED BY <1>6, <1>8
<1>10. DeliversDocument'
  <2> SUFFICES ASSUME NEW i \in 0..(commit' - 1) PROVE data'[i] = start' + i
    BY DEF DeliversDocument
  <2>1. i \in 0..(length - 1) BY <1>1, <1>5, SMT
  <2>2. data'[i] = new(i)
    <3> HIDE DEF new
    <3> QED BY <1>6, <2>1
  <2>3. CASE i \in commit..(commit + n - 1) BY <1>7, <2>2, <2>3
  <2>4. CASE i \notin commit..(commit + n - 1)
    <3>1. i \in 0..(commit - 1) BY <1>1, <1>5, <2>4, SMT
    <3>2. new(i) = data[i] BY <2>4
    <3> QED BY <2>2, <3>1, <3>2 DEF DeliversDocument
  <2> QED BY <2>3, <2>4
<1>11. PaddingStaysInside'
  <2> SUFFICES ASSUME commit' > 0, start + (commit + n) > size
               PROVE  Stored % Fragment = 0 /\ start + (commit + n) <= Stored
    BY <1>5 DEF PaddingStaysInside, Stored
  <2>1. CASE n = 0
    BY <1>1, <1>5, <2>1 DEF PaddingStaysInside
  <2>2. CASE n # 0
    <3>1. size \in Nat /\ Stored \in Nat
          /\ \A x \in Nat : x % Fragment = 0 /\ x >= size => x >= Stored
      BY StoredSectors
    <3>2. cacheLength > 0 /\ start + (commit + n) <= cacheOffset + cacheLength
      BY <1>1, <1>2, <1>3, <2>2, SMT
    <3>3. CASE cacheStatus = "endOfFile"
      <4>1. cacheOffset + cacheLength = size
        BY <3>2, <3>3 DEF CacheHoldsFragment
      <4> QED BY <1>1, <3>1, <3>2, <4>1, SMT
    <3>4. CASE cacheStatus = "success"
      <4>1. cacheLength = Fragment /\ cacheOffset + Fragment <= Stored
            /\ cacheOffset % Fragment = 0
        BY <3>4 DEF CacheHoldsFragment, InFragment
      <4>2. cacheOffset + Fragment \in Nat /\ (cacheOffset + Fragment) % Fragment = 0
        BY <1>1, <1>4, <4>1, NextMultiple
      <4>3. cacheOffset + Fragment >= size
        BY <1>1, <1>4, <3>1, <3>2, <4>1, SMT
      <4>4. cacheOffset + Fragment = Stored
        BY <3>1, <4>1, <4>2, <4>3, SMT
      <4> QED BY <3>2, <4>1, <4>2, <4>4
    <3> QED BY <3>3, <3>4 DEF TypeOK
  <2> QED BY <2>1, <2>2
<1> QED BY <1>5, <1>9, <1>10, <1>11

\* Where the cache says the file ends, a short read may stop.
LEMMA EndOfCache ==
    ASSUME TypeOK, CacheHoldsFragment, cacheStatus = "endOfFile",
           NEW o \in Nat, o >= cacheOffset + cacheLength
    PROVE  o >= size \/ (LastLoadFailed /\ cacheLength = 0)
<1>1. /\ size \in Nat /\ Stored \in Nat /\ size <= Stored
  BY StoredSectors
<1>2. cacheOffset \in Nat BY DEF TypeOK
<1>3. CASE buffer.bytes # 0
  <2>1. cacheOffset + cacheLength = size BY <1>3 DEF CacheHoldsFragment
  <2> QED BY <2>1
<1>4. CASE buffer.bytes = 0
  <2>1. CASE cacheOffset < Stored
    BY <1>4, <2>1 DEF LastLoadFailed, NothingLoaded, CacheHoldsFragment
  <2>2. CASE ~(cacheOffset < Stored)
    <3>1. cacheLength = 0 BY <1>4 DEF CacheHoldsFragment
    <3> QED BY <1>1, <1>2, <2>2, <3>1, SMT
  <2> QED BY <2>1, <2>2
<1> QED BY <1>3, <1>4

-----------------------------------------------------------------------------
(* ReadInv is inductive.                                                     *)

LEMMA InitInv == Init => ReadInv
<1> SUFFICES ASSUME Init PROVE ReadInv
  OBVIOUS
<1>0. Fragment \in Nat \ {0} BY FragmentAssumption
<1>1. buffer = [base |-> 0, bytes |-> 0] /\ commit = 0 /\ length = 0
  BY DEF Init
<1>2. buffer.base = 0 /\ buffer.bytes = 0 BY <1>1
<1>3. buffer \in [base : Nat, bytes : 0..Fragment] BY <1>0, <1>1, SMT
<1>4. data \in [0..(length - 1) -> Nat \cup {NoByte}] BY DEF Init
<1>5. commit \in 0..length BY <1>1, SMT
<1>6. TypeOK BY <1>1, <1>3, <1>4, <1>5 DEF Init, TypeOK
<1>7. 0 % Fragment = 0 BY <1>0, SMT
<1>8. CacheHoldsFragment
  BY <1>2, <1>7 DEF Init, CacheHoldsFragment, NothingLoaded
<1>9. DeliversDocument
  <2>1. 0..(commit - 1) = {} BY <1>1, SMT
  <2> QED BY <2>1 DEF DeliversDocument
<1>10. ~(commit > 0) BY <1>1, SMT
<1> QED BY <1>6, <1>8, <1>9, <1>10
        DEF ReadInv, GoesOnAtBase, ShortOnlyAtEnd, PaddingStaysInside, Init

\* The cached fragment stays: a step of the read alone.
LEMMA CacheStays ==
    ASSUME TypeOK, CacheHoldsFragment, UNCHANGED <<size, cacheVars>>
    PROVE  CacheTypeOK' /\ CacheHoldsFragment' /\ size' \in Sizes /\ Stored' = Stored
<1>1. CacheTypeOK' BY TypeParts DEF CacheTypeOK, cacheVars
<1>2. Stored' = Stored BY DEF Stored
<1>3. CacheHoldsFragment'
  BY <1>2 DEF CacheHoldsFragment, NothingLoaded, cacheVars
<1>4. size' \in Sizes BY DEF TypeOK
<1> QED BY <1>1, <1>2, <1>3, <1>4

LEMMA CopyRestKeeps ==
    ASSUME ReadInv, pc = "reading", CopyRest, UNCHANGED <<size, start, length>>
    PROVE  ReadInv'
<1>1. /\ TypeOK /\ CacheHoldsFragment /\ DeliversDocument /\ PaddingStaysInside
      /\ commit < length
  BY DEF ReadInv
<1>2. start \in Nat /\ length \in Nat /\ commit \in 0..length BY <1>1 DEF TypeOK
<1>3. InFragment /\ offset - cacheOffset + remaining <= cacheLength
      /\ Copy(remaining) /\ pc' = "answered" /\ status' = "success"
      /\ UNCHANGED cacheVars
  BY DEF CopyRest, Answer
<1>4. remaining \in Nat /\ remaining <= remaining /\ commit + remaining = length
  BY <1>2, SMT DEF remaining
<1>5. /\ commit' = commit + remaining /\ commit' \in 0..length'
      /\ data' \in [0..(length' - 1) -> Nat \cup {NoByte}]
      /\ DeliversDocument' /\ PaddingStaysInside'
  BY <1>1, <1>3, <1>4, CopyDelivers
<1>6. CacheTypeOK' /\ CacheHoldsFragment' /\ size' \in Sizes BY <1>1, <1>3, CacheStays
<1>7. ReadTypeOK' BY <1>2, <1>3, <1>5 DEF ReadTypeOK
<1>8. TypeOK' BY <1>6, <1>7 DEF TypeOK, CacheTypeOK, ReadTypeOK
<1>9. ShortOnlyAtEnd'
  <2>1. Transferred' = length' BY <1>3, <1>4, <1>5 DEF Transferred
  <2>2. ~(length' < length') BY <1>2, SMT
  <2> QED BY <2>1, <2>2 DEF ShortOnlyAtEnd
<1> QED BY <1>3, <1>5, <1>6, <1>8, <1>9 DEF ReadInv, GoesOnAtBase

LEMMA CopyTailKeeps ==
    ASSUME ReadInv, pc = "reading", CopyTail, UNCHANGED <<size, start, length>>
    PROVE  ReadInv'
<1> DEFINE n == cacheLength - (offset - cacheOffset)
<1>1. /\ TypeOK /\ CacheHoldsFragment /\ DeliversDocument /\ PaddingStaysInside
      /\ commit < length
  BY DEF ReadInv
<1>2. /\ start \in Nat /\ length \in Nat /\ commit \in 0..length
      /\ cacheOffset \in Nat /\ cacheLength \in Nat
  BY <1>1 DEF TypeOK
<1>3. InFragment /\ offset - cacheOffset + remaining > cacheLength /\ Copy(n)
  BY DEF CopyTail
<1>4. /\ n \in Nat /\ n <= remaining /\ offset - cacheOffset + n <= cacheLength
      /\ n < remaining /\ offset + n = cacheOffset + cacheLength
  BY <1>2, <1>3, SMT DEF InFragment, offset, remaining
<1>5. /\ commit' = commit + n /\ commit' \in 0..length'
      /\ data' \in [0..(length' - 1) -> Nat \cup {NoByte}]
      /\ DeliversDocument' /\ PaddingStaysInside'
  <2> HIDE DEF n
  <2> QED BY <1>1, <1>3, <1>4, CopyDelivers
<1>6. commit' < length'
  <2>1. commit + n < length BY <1>2, <1>4, SMT DEF remaining
  <2> QED BY <1>5, <2>1
<1>7. offset' = cacheOffset + cacheLength
  <2>1. start + (commit + n) = cacheOffset + cacheLength
    BY <1>2, <1>4, SMT DEF offset
  <2> QED BY <1>5, <2>1 DEF offset
<1> HIDE DEF n
<1>8. CASE cacheStatus = "endOfFile"
  <2>1. pc' = "answered" /\ status' = "success" /\ UNCHANGED cacheVars
    BY <1>8 DEF CopyTail, Answer
  <2>2. CacheTypeOK' /\ CacheHoldsFragment' /\ size' \in Sizes /\ Stored' = Stored
    BY <1>1, <2>1, CacheStays
  <2>3. ReadTypeOK' BY <1>2, <1>5, <2>1 DEF ReadTypeOK
  <2>4. TypeOK' BY <2>2, <2>3 DEF TypeOK, CacheTypeOK, ReadTypeOK
  <2>5. ShortOnlyAtEnd'
    <3>1. Transferred' = commit' BY <2>1 DEF Transferred
    <3>2. \/ start + (commit + n) >= size
          \/ LastLoadFailed /\ cacheOffset = start + (commit + n)
      <4>1. start + (commit + n) = cacheOffset + cacheLength
        BY <1>2, <1>4, SMT DEF offset
      <4>2. start + (commit + n) \in Nat /\ start + (commit + n) >= cacheOffset + cacheLength
        BY <1>2, <1>4, <4>1, SMT
      <4>3. cacheLength = 0 => cacheOffset = start + (commit + n)
        BY <1>2, <4>1, SMT
      <4> QED BY <1>1, <1>8, <4>2, <4>3, EndOfCache
    <3>3. LastLoadFailed' = LastLoadFailed
      BY <2>1, <2>2 DEF LastLoadFailed, NothingLoaded, cacheVars
    <3>4. Transferred' = 0 => start + (commit + n) <= start
      BY <1>2, <1>5, <3>1, SMT
    <3>5. cacheOffset' = cacheOffset /\ start' = start /\ size' = size
      BY <2>1 DEF cacheVars
    <3> QED BY <1>5, <3>1, <3>2, <3>3, <3>4, <3>5 DEF ShortOnlyAtEnd
  <2> QED BY <1>5, <2>1, <2>2, <2>4, <2>5 DEF ReadInv, GoesOnAtBase
<1>9. CASE cacheStatus # "endOfFile"
  <2>1. Load(cacheOffset + cacheLength) /\ UNCHANGED <<pc, status>>
    BY <1>9 DEF CopyTail
  <2>2. cacheStatus = "success" BY <1>1, <1>9 DEF TypeOK
  <2>3. cacheLength = Fragment /\ cacheOffset % Fragment = 0
    BY <1>1, <1>3, <2>2 DEF CacheHoldsFragment, InFragment
  <2>4. cacheOffset + Fragment \in Nat /\ (cacheOffset + Fragment) % Fragment = 0
    <3>1. Fragment \in Nat \ {0} BY FragmentAssumption
    <3>2. cacheOffset \in Nat /\ cacheOffset % Fragment = 0 BY <1>2, <2>3
    <3>3. cacheOffset + Fragment \in Nat BY <3>1, <3>2, SMT
    <3>4. (cacheOffset + Fragment) % Fragment = 0 BY <3>1, <3>2, NextMultiple
    <3> QED BY <3>3, <3>4
  <2>5. CacheTypeOK' /\ CacheHoldsFragment'
    BY <1>1, <2>1, <2>3, <2>4, LoadKeepsCache
  <2>6. size' \in Sizes BY <1>1 DEF TypeOK
  <2>7. ReadTypeOK' BY <1>1, <1>2, <1>5, <2>1 DEF ReadTypeOK, TypeOK
  <2>8. TypeOK' BY <2>5, <2>6, <2>7 DEF TypeOK, CacheTypeOK, ReadTypeOK
  <2>9. cacheOffset' = offset' BY <1>7, <2>1 DEF Load, LoadSucceeds, LoadFails
  <2> QED BY <1>5, <1>6, <2>1, <2>5, <2>8, <2>9 DEF ReadInv, GoesOnAtBase, ShortOnlyAtEnd
<1> QED BY <1>8, <1>9

LEMMA BehindEndKeeps ==
    ASSUME ReadInv, pc = "reading", BehindEnd, UNCHANGED <<size, start, length>>
    PROVE  ReadInv'
<1>1. TypeOK /\ CacheHoldsFragment /\ DeliversDocument /\ PaddingStaysInside
  BY DEF ReadInv
<1>2. /\ offset > cacheOffset + cacheLength /\ cacheStatus = "endOfFile"
      /\ pc' = "answered" /\ status' = IF commit # 0 THEN "success" ELSE "endOfFile"
      /\ UNCHANGED cacheVars /\ UNCHANGED <<commit, data>>
  BY DEF BehindEnd, Answer
<1>3. CacheTypeOK' /\ CacheHoldsFragment' /\ size' \in Sizes /\ Stored' = Stored
  BY <1>1, <1>2, CacheStays
<1>4. ReadTypeOK' BY <1>1, <1>2 DEF ReadTypeOK, TypeOK
<1>5. TypeOK' BY <1>3, <1>4 DEF TypeOK, CacheTypeOK, ReadTypeOK
<1>6. DeliversDocument' /\ PaddingStaysInside'
  BY <1>1, <1>2, <1>3 DEF DeliversDocument, PaddingStaysInside
<1>7. ShortOnlyAtEnd'
  <2>1. Transferred' = commit BY <1>2 DEF Transferred
  <2>2. offset \in Nat /\ offset >= cacheOffset + cacheLength
    <3>1. start \in Nat /\ commit \in Nat /\ cacheOffset \in Nat /\ cacheLength \in Nat
      BY <1>1 DEF TypeOK
    <3> QED BY <1>2, <3>1, SMT DEF offset
  <2>3. start + commit >= size \/ LastLoadFailed
    BY <1>1, <1>2, <2>2, EndOfCache DEF offset
  <2>5. commit = 0 /\ cacheOffset <= start
    <3>1. /\ start \in Nat /\ commit \in Nat /\ cacheOffset \in Nat /\ cacheLength \in Nat
      BY <1>1 DEF TypeOK
    <3>2. ~(commit > 0)
      BY <1>2, <3>1 DEF ReadInv, GoesOnAtBase
    <3> QED BY <1>2, <3>1, <3>2, SMT DEF offset
  <2>4. LastLoadFailed' = LastLoadFailed
    BY <1>2, <1>3 DEF LastLoadFailed, NothingLoaded, cacheVars
  <2>6. UNCHANGED <<cacheOffset, start, size>>
    BY <1>2 DEF cacheVars
  <2> QED BY <2>1, <2>3, <2>4, <2>5, <2>6 DEF ShortOnlyAtEnd
<1> QED BY <1>2, <1>3, <1>5, <1>6, <1>7 DEF ReadInv, GoesOnAtBase

LEMMA LoadOtherKeeps ==
    ASSUME ReadInv, pc = "reading", LoadOther, UNCHANGED <<size, start, length>>
    PROVE  ReadInv'
<1>1. /\ TypeOK /\ DeliversDocument /\ PaddingStaysInside /\ commit < length
  BY DEF ReadInv
<1>2. Load(FragmentOf(offset)) /\ UNCHANGED <<pc, commit, data, status>>
  BY DEF LoadOther
<1>3. FragmentOf(offset) \in Nat /\ FragmentOf(offset) % Fragment = 0
  <2>1. start \in Nat /\ commit \in Nat BY <1>1 DEF TypeOK
  <2>2. offset \in Nat BY <2>1, SMT DEF offset
  <2> QED BY <2>2, FragmentAssumption, RoundDown DEF FragmentOf
<1>4. CacheTypeOK' /\ CacheHoldsFragment'
  BY <1>1, <1>2, <1>3, LoadKeepsCache
<1>5. size' \in Sizes /\ Stored' = Stored BY <1>1 DEF TypeOK, Stored
<1>6. ReadTypeOK' BY <1>1, <1>2 DEF ReadTypeOK, TypeOK
<1>7. TypeOK' BY <1>4, <1>5, <1>6 DEF TypeOK, CacheTypeOK, ReadTypeOK
<1>8. DeliversDocument' /\ PaddingStaysInside'
  BY <1>1, <1>2, <1>5 DEF DeliversDocument, PaddingStaysInside
<1>9. ~(commit > 0)
  <2>1. /\ start \in Nat /\ commit \in Nat /\ cacheOffset \in Nat /\ cacheLength \in Nat
    BY <1>1 DEF TypeOK
  <2>2. cacheOffset # offset \/ NothingLoaded
    BY <2>1, SMT DEF LoadOther, offset
  <2>3. NothingLoaded /\ commit > 0 => cacheOffset # offset
    BY <2>1, SMT DEF NothingLoaded, offset
  <2> QED BY <2>2, <2>3 DEF ReadInv, GoesOnAtBase
<1> QED BY <1>1, <1>2, <1>4, <1>7, <1>8, <1>9
        DEF ReadInv, GoesOnAtBase, ShortOnlyAtEnd

LEMMA ReadKeeps ==
    ASSUME ReadInv, NEW o \in Offsets, NEW l \in Lengths, Read(o, l)
    PROVE  ReadInv'
<1>1. TypeOK /\ CacheHoldsFragment BY DEF ReadInv
<1>2. o \in Nat /\ l \in Nat \ {0} BY InputsAssumption
<1>3. /\ pc' = "reading" /\ start' = o /\ length' = l /\ commit' = 0
      /\ data' = [i \in 0..(l - 1) |-> NoByte]
      /\ UNCHANGED <<size, cacheVars>> /\ status' = status
  BY DEF Read
<1>4. CacheTypeOK' /\ CacheHoldsFragment' /\ size' \in Sizes
  BY <1>1, <1>3, CacheStays
<1>5. 0 \in 0..l /\ 0 < l BY <1>2, SMT
<1>6. data' \in [0..(length' - 1) -> Nat \cup {NoByte}] BY <1>3
<1>7. ReadTypeOK' BY <1>1, <1>2, <1>3, <1>5, <1>6 DEF ReadTypeOK, TypeOK
<1>8. TypeOK' BY <1>4, <1>7 DEF TypeOK, CacheTypeOK, ReadTypeOK
<1>9. DeliversDocument'
  <2>1. 0..(0 - 1) = {} BY SMT
  <2> QED BY <1>3, <2>1 DEF DeliversDocument
<1>10. ~(0 > 0) BY SMT
<1> QED BY <1>3, <1>4, <1>5, <1>8, <1>9, <1>10
        DEF ReadInv, GoesOnAtBase, ShortOnlyAtEnd, PaddingStaysInside

LEMMA NextInv == ReadInv /\ [Next]_vars => ReadInv'
<1> SUFFICES ASSUME ReadInv, [Next]_vars PROVE ReadInv'
  OBVIOUS
<1>1. CASE Round
  BY <1>1, CopyRestKeeps, CopyTailKeeps, BehindEndKeeps, LoadOtherKeeps DEF Round
<1>2. ASSUME NEW o \in Offsets, NEW l \in Lengths, Read(o, l) PROVE ReadInv'
  BY <1>2, ReadKeeps
<1>3. CASE UNCHANGED vars
  <2>1. TypeOK /\ CacheHoldsFragment BY DEF ReadInv
  <2>2. UNCHANGED <<size, cacheVars>> /\ UNCHANGED <<pc, readVars>> BY <1>3 DEF vars
  <2>3. CacheHoldsFragment' /\ Stored' = Stored BY <2>1, <2>2, CacheStays
  <2>4. TypeOK' BY <2>1, <2>2 DEF TypeOK, cacheVars, readVars
  <2> QED BY <2>2, <2>3, <2>4
          DEF ReadInv, GoesOnAtBase, offset, readVars, cacheVars, DeliversDocument,
              ShortOnlyAtEnd, PaddingStaysInside, Transferred, LastLoadFailed, NothingLoaded
<1> QED BY <1>1, <1>2, <1>3 DEF Next

-----------------------------------------------------------------------------
(* The theorems.                                                             *)

(* The cache of a queue (gingko_ioqueue.c:526-538) always holds one fragment *)
(* of the document, or nothing, and what it says of it is right.             *)
THEOREM ReadInvariantCorrect == Spec => []ReadInv
BY InitInv, NextInv, PTL DEF Spec

(* Every variable keeps its type: the cached length is never negative, and a *)
(* read never gets more than it asked for (gingko_ioqueue.c:446-459, 530).   *)
THEOREM ReadTypeCorrect == Spec => []TypeOK
<1>1. ReadInv => TypeOK BY DEF ReadInv
<1> QED BY <1>1, ReadInvariantCorrect, PTL

(* What a read is given is the document, at whatever offset and over however *)
(* many fragments it goes (gingko_ioqueue.c:439-476, 502-526).               *)
THEOREM DeliversDocumentCorrect == Spec => []DeliversDocument
<1>1. ReadInv => DeliversDocument BY DEF ReadInv
<1> QED BY <1>1, ReadInvariantCorrect, PTL

(* A read is cut short only by the end of the document, or by a failed load: *)
(* where the failed fragment begins, or, if it gets nothing, anywhere in it  *)
(* or behind it (gingko_ioqueue.c:460-473, 534-539).                         *)
THEOREM ShortOnlyAtEndCorrect == Spec => []ShortOnlyAtEnd
<1>1. ReadInv => ShortOnlyAtEnd BY DEF ReadInv
<1> QED BY <1>1, ReadInvariantCorrect, PTL

(* Padding is given out at most to the end of a full last fragment, which is *)
(* what the comparison of gingko_ioqueue.c:528 misses.                       *)
THEOREM PaddingStaysInsideCorrect == Spec => []PaddingStaysInside
<1>1. ReadInv => PaddingStaysInside BY DEF ReadInv
<1> QED BY <1>1, ReadInvariantCorrect, PTL

-----------------------------------------------------------------------------
(* No round is for nothing: what ReadEnds rests on.                          *)

\* The next round copies something, or answers.
Ready ==
    /\ ~NothingLoaded /\ cacheOffset <= offset
    /\ cacheStatus = "endOfFile" \/ offset < cacheOffset + cacheLength

\* A round answers, or copies, or loads what the next round copies.
RoundGoesOn ==
    pc = "reading" =>
        \/ pc' = "answered"
        \/ commit' > commit
        \/ commit' = commit /\ ~Ready /\ Ready'

\* A load around the offset leaves something to copy, or the end of the file.
LEMMA LoadMakesReady ==
    ASSUME TypeOK, TypeOK', CacheHoldsFragment', NEW from \in Nat, Load(from),
           from <= offset', offset' < from + Fragment
    PROVE  Ready'
<1>1. Fragment \in Nat \ {0} BY FragmentAssumption
<1>2. cacheOffset' = from /\ cacheStatus' \in {"success", "endOfFile"}
  BY DEF Load, LoadSucceeds, LoadFails, TypeOK
<1>3. CASE cacheStatus' = "endOfFile"
  BY <1>2, <1>3 DEF Ready, NothingLoaded
<1>4. CASE cacheStatus' = "success"
  <2>1. LoadSucceeds(from) BY <1>4 DEF Load, LoadFails
  <2>2. cacheLength' = Fragment
    <3> DEFINE bytes == Smaller(Fragment, Stored - from)
    <3>1. cacheLength' = (IF bytes < Fragment THEN size - from ELSE bytes)
          /\ cacheStatus' = (IF bytes < Fragment THEN "endOfFile" ELSE "success")
      BY <2>1 DEF LoadSucceeds
    <3>2. ~(bytes < Fragment) BY <1>4, <3>1
    <3>3. Stored - from \in Int /\ from < Stored
      BY <2>1, StoredSectors, SMT DEF LoadSucceeds
    <3>4. bytes = Fragment BY <1>1, <3>2, <3>3, SMT DEF Smaller
    <3> QED BY <3>1, <3>2, <3>4
  <2> QED BY <1>1, <1>2, <2>2 DEF Ready, NothingLoaded
<1> QED BY <1>2, <1>3, <1>4

LEMMA RoundProgress ==
    ASSUME ReadInv, ReadInv', Round
    PROVE  RoundGoesOn
<1>0. /\ TypeOK /\ TypeOK' /\ CacheHoldsFragment /\ CacheHoldsFragment'
      /\ commit < length /\ pc = "reading" /\ UNCHANGED <<size, start, length>>
  BY DEF ReadInv, Round
<1>1. /\ start \in Nat /\ length \in Nat /\ commit \in Nat
      /\ cacheOffset \in Nat /\ cacheLength \in Nat
      /\ cacheStatus \in {"success", "endOfFile"} /\ Fragment \in Nat \ {0}
  BY <1>0, FragmentAssumption DEF TypeOK
<1>2. CASE CopyRest BY <1>2 DEF CopyRest, Answer, RoundGoesOn
<1>3. CASE BehindEnd BY <1>3 DEF BehindEnd, Answer, RoundGoesOn
<1>4. CASE CopyTail
  <2> DEFINE n == cacheLength - (offset - cacheOffset)
  <2>1. InFragment /\ commit' = commit + n BY <1>4 DEF CopyTail, Copy
  <2>2. n \in Nat BY <1>1, <2>1, SMT DEF InFragment, offset
  <2>3. CASE n # 0
    <3> HIDE DEF n
    <3> QED BY <1>1, <2>1, <2>2, <2>3 DEF RoundGoesOn
  <2>4. CASE n = 0 /\ cacheStatus # "endOfFile"
    <3>1. commit' = commit /\ offset = cacheOffset + cacheLength
      BY <1>1, <2>1, <2>4, SMT DEF offset
    <3>2. Load(cacheOffset + cacheLength) BY <1>4, <2>4 DEF CopyTail
    <3>3. offset' = cacheOffset + cacheLength /\ cacheOffset + cacheLength \in Nat
      BY <1>0, <1>1, <3>1 DEF offset
    <3>4. Ready' BY <1>0, <1>1, <3>2, <3>3, LoadMakesReady
    <3>5. ~Ready BY <1>1, <2>4, <3>1 DEF Ready
    <3> QED BY <3>1, <3>4, <3>5 DEF RoundGoesOn
  <2>5. CASE cacheStatus = "endOfFile"
    BY <1>4, <2>5 DEF CopyTail, Answer, RoundGoesOn
  <2> QED BY <2>3, <2>4, <2>5
<1>5. CASE LoadOther
  <2>1. commit' = commit /\ offset' = offset /\ offset \in Nat
    BY <1>0, <1>1, <1>5 DEF LoadOther, offset
  <2>2. /\ FragmentOf(offset) \in Nat
        /\ FragmentOf(offset) <= offset /\ offset < FragmentOf(offset) + Fragment
    BY <2>1, FragmentAssumption, RoundDown DEF FragmentOf
  <2>3. Load(FragmentOf(offset)) BY <1>5 DEF LoadOther
  <2>4. Ready' BY <1>0, <2>1, <2>2, <2>3, LoadMakesReady
  <2>5. ~Ready
    <3>1. NothingLoaded \/ offset < cacheOffset
          \/ (offset > cacheOffset + cacheLength /\ cacheStatus # "endOfFile")
      BY <1>5 DEF LoadOther
    <3> QED BY <1>1, <2>1, <3>1 DEF Ready
  <2> QED BY <2>1, <2>4, <2>5 DEF RoundGoesOn
<1> QED BY <1>0, <1>2, <1>3, <1>4, <1>5 DEF Round

(* The loop of ProcessRead cannot go round for nothing, whatever loads fail: *)
(* at most two rounds answer the read or copy a byte of it, and it is short  *)
(* of only length - commit bytes (gingko_ioqueue.c:439-546).                 *)
THEOREM RoundGoesOnCorrect == Spec => [][RoundGoesOn]_vars
<1>1. ReadInv /\ ReadInv' /\ [Next]_vars => [RoundGoesOn]_vars
  BY RoundProgress DEF Next, Read, RoundGoesOn
<1> QED BY <1>1, ReadInvariantCorrect, PTL DEF Spec
=============================================================================
