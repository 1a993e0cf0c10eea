---------------------------- MODULE FragmentRead ----------------------------
(***************************************************************************)
(* How the main thread of a queue answers a read with decrypted bytes      *)
(* (ProcessRead, gingko_ioqueue.c:419-546).                                *)
(*                                                                         *)
(* GingkoLibrary encrypts a document fragment by fragment, each with data  *)
(* units numbered from 0, and rounds the last fragment up to whole         *)
(* sectors.  The driver keeps one decrypted fragment in FragmentBufferA    *)
(* and answers a read of any offset and length by copying from it, loading *)
(* the fragments it needs one after the other.  A fragment is read from    *)
(* the lower driver and decrypted with data units numbered from 0, so that *)
(* only a load that begins at a fragment boundary yields the document.     *)
(*                                                                         *)
(* A byte is abstracted to its position in the document.  An action is one *)
(* round of ProcessRead's loop: nobody else uses the buffer.               *)
(***************************************************************************)
EXTENDS Integers

CONSTANTS Sector,     \* BYTES_OF_SECTOR, ENCRYPTION_DATA_UNIT_SIZE
          Fragment,   \* TC_ENC_IO_QUEUE_MAX_FRAGMENT_SIZE
          Sizes,      \* what GingkoHeader->SizeOfFile may be
          Offsets,    \* where a read may begin
          Lengths     \* how long a read may be

ASSUME FragmentAssumption == /\ Sector \in Nat \ {0} /\ Fragment \in Nat \ {0}
                             /\ Fragment % Sector = 0
ASSUME InputsAssumption   == /\ Sizes \subseteq Nat
                             /\ Offsets \subseteq Nat /\ Lengths \subseteq Nat \ {0}

VARIABLES
    size,         \* GingkoHeader->SizeOfFile
    cacheOffset,  \* CurrentOffset
    cacheLength,  \* CurrentLength
    cacheStatus,  \* CurrentStatus
    buffer,       \* FragmentBufferA: from where, and how many bytes, were loaded
    pc,           \* "idle", "reading" or "answered"
    start,        \* the offset of the read
    length,       \* its length
    commit,       \* commitLength
    data,         \* dataBuffer
    status        \* the status the read is completed with

cacheVars == <<cacheOffset, cacheLength, cacheStatus, buffer>>
readVars  == <<start, length, commit, data, status>>
vars == <<size, cacheVars, pc, readVars>>

NoByte == -1      \* what is not a byte of the document

TypeOK ==
    /\ size \in Sizes
    /\ cacheOffset \in Nat /\ cacheLength \in Nat
    /\ cacheStatus \in {"success", "endOfFile"}
    /\ buffer \in [base : Nat, bytes : 0..Fragment]
    /\ pc \in {"idle", "reading", "answered"}
    /\ start \in Nat /\ length \in Nat /\ commit \in 0..length
    /\ data \in [0..(length - 1) -> Nat \cup {NoByte}]
    /\ status \in {"success", "endOfFile"}

Init ==
    /\ size \in Sizes
    /\ cacheOffset = 0 /\ cacheLength = 0 /\ cacheStatus = "success"
    /\ buffer = [base |-> 0, bytes |-> 0]
    /\ pc = "idle"
    /\ start = 0 /\ length = 0 /\ commit = 0 /\ status = "success"
    /\ data = [i \in 0..(length - 1) |-> NoByte]

-----------------------------------------------------------------------------
(* The stored document.                                                      *)

\* The bytes behind the header: each fragment is written in whole sectors.
Stored == ((size + Sector - 1) \div Sector) * Sector

\* The byte at index k of the buffer, decrypted with data units numbered from 0.
Byte(k) ==
    IF k \in 0..(buffer.bytes - 1) /\ buffer.base % Fragment = 0
    THEN buffer.base + k ELSE NoByte

-----------------------------------------------------------------------------
(* One round of the loop.                                                    *)

offset    == start + commit      \* alignedOffset
remaining == length - commit     \* dataRemaining

\* Mutant: the load begins at the sector, not at the fragment, of the offset.
FragmentOf_Sector(o) == (o \div Sector) * Sector

FragmentOf(o) == (o \div Fragment) * Fragment

\* CurrentOffset, CurrentLength and CurrentStatus as Start leaves them.
NothingLoaded == cacheOffset = 0 /\ cacheLength = 0 /\ cacheStatus = "success"

Smaller(a, b) == IF a <= b THEN a ELSE b

\* Mutant: the last fragment is given out with its padding.
LoadSucceeds_Padded(from) ==
    LET bytes == Smaller(Fragment, Stored - from) IN
    /\ from < Stored
    /\ buffer' = [base |-> from, bytes |-> bytes]
    /\ cacheOffset' = from
    /\ cacheLength' = bytes
    /\ cacheStatus' = IF bytes < Fragment THEN "endOfFile" ELSE "success"

\* A load that gets less than a fragment has met the end of the stored file.
LoadSucceeds(from) ==
    LET bytes == Smaller(Fragment, Stored - from) IN
    /\ from < Stored
    /\ buffer' = [base |-> from, bytes |-> bytes]
    /\ cacheOffset' = from
    /\ cacheLength' = IF bytes < Fragment THEN size - from ELSE bytes
    /\ cacheStatus' = IF bytes < Fragment THEN "endOfFile" ELSE "success"

\* Mutant: a load that fails leaves the status of the last one.
LoadFails_StatusKept(from) ==
    /\ buffer' = [base |-> from, bytes |-> 0]
    /\ cacheOffset' = from /\ cacheLength' = 0
    /\ UNCHANGED cacheStatus

\* The lower driver fails: behind the end of the file, or anywhere.
LoadFails(from) ==
    /\ buffer' = [base |-> from, bytes |-> 0]
    /\ cacheOffset' = from /\ cacheLength' = 0 /\ cacheStatus' = "endOfFile"

Load(from) == LoadSucceeds(from) \/ LoadFails(from)

Copy(bytes) ==
    /\ commit' = commit + bytes
    /\ data' = [i \in DOMAIN data |->
                  IF i \in commit..(commit + bytes - 1)
                  THEN Byte(offset - cacheOffset + (i - commit)) ELSE data[i]]

Answer(s) == pc' = "answered" /\ status' = s

\* Mutant: the end of what is cached is not looked at.
InFragment_Above == ~NothingLoaded /\ cacheOffset <= offset

InFragment ==
    ~NothingLoaded /\ cacheOffset <= offset /\ offset <= cacheOffset + cacheLength

\* The rest of the request is in the buffer.
CopyRest ==
    /\ InFragment
    /\ offset - cacheOffset + remaining <= cacheLength
    /\ Copy(remaining)
    /\ Answer("success")
    /\ UNCHANGED cacheVars

\* What the buffer has of it; the file ends there, or the next fragment follows.
CopyTail ==
    /\ InFragment
    /\ offset - cacheOffset + remaining > cacheLength
    /\ Copy(cacheLength - (offset - cacheOffset))
    /\ IF cacheStatus = "endOfFile"
       THEN Answer("success") /\ UNCHANGED cacheVars
       ELSE Load(cacheOffset + cacheLength) /\ UNCHANGED <<pc, status>>

\* Mutant: any offset behind the cached fragment is behind the end of the file.
BehindEnd_AnyStatus ==
    /\ offset > cacheOffset + cacheLength /\ ~NothingLoaded
    /\ Answer(IF commit # 0 THEN "success" ELSE "endOfFile")
    /\ UNCHANGED <<cacheVars, commit, data>>

\* The request goes on behind the end of the file.
BehindEnd ==
    /\ offset > cacheOffset + cacheLength
    /\ cacheStatus = "endOfFile"
    /\ Answer(IF commit # 0 THEN "success" ELSE "endOfFile")
    /\ UNCHANGED <<cacheVars, commit, data>>

\* Nothing is loaded yet, or another fragment is.
LoadOther ==
    /\ \/ NothingLoaded
       \/ offset < cacheOffset
       \/ offset > cacheOffset + cacheLength /\ cacheStatus # "endOfFile"
    /\ Load(FragmentOf(offset))
    /\ UNCHANGED <<pc, commit, data, status>>

Round ==
    /\ pc = "reading"
    /\ CopyRest \/ CopyTail \/ BehindEnd \/ LoadOther
    /\ UNCHANGED <<size, start, length>>

\* MainThreadProc hands the next read IRP to ProcessRead.
Read(o, l) ==
    /\ pc # "reading"
    /\ pc' = "reading"
    /\ start' = o /\ length' = l /\ commit' = 0
    /\ data' = [i \in 0..(l - 1) |-> NoByte]
    /\ UNCHANGED <<size, cacheVars, status>>

Next == Round \/ \E o \in Offsets, l \in Lengths : Read(o, l)

Spec == Init /\ [][Next]_vars

\* The thread keeps running; nobody has to send a read.
FairSpec == Spec /\ WF_vars(Round)

-----------------------------------------------------------------------------
(* Properties.                                                               *)

(* Whatever has been copied into a read's buffer is the document, from the   *)
(* read's offset on, whichever fragments were cached and whichever loads     *)
(* failed before (gingko_ioqueue.c:449-476, 487-535).                        *)
DeliversDocument == \A i \in 0..(commit - 1) : data[i] = start + i

\* The fragment at hand was not read, although the stored file has it.
LastLoadFailed == buffer.bytes = 0 /\ ~NothingLoaded /\ cacheOffset < Stored

\* What the IRP is completed with (gingko_ioqueue.c:778).
Transferred == IF status = "success" THEN commit ELSE 0

(* A read is answered in full, or up to the end of the document; if it is    *)
(* not, the last load failed.  A read that gets anything stops exactly where *)
(* the failed fragment begins.  One that gets nothing begins in the failed   *)
(* fragment, or anywhere behind it: a failure is taken for the end of the    *)
(* file, and what lies behind it is not tried (gingko_ioqueue.c:461-473,     *)
(* 534-539).                                                                 *)
ShortOnlyAtEnd ==
    pc = "answered" /\ Transferred < length =>
        \/ start + Transferred >= size
        \/ LastLoadFailed /\ IF Transferred = 0 THEN cacheOffset <= start
                             ELSE cacheOffset = start + Transferred

(* Bytes behind the end of the document are given out only if its last       *)
(* fragment, padded to whole sectors, is a full one.                         *)
PaddingStaysInside ==
    commit > 0 /\ start + commit > size =>
        Stored % Fragment = 0 /\ start + commit <= Stored

(* Every read is answered, whatever loads fail (under FairSpec).             *)
ReadEnds == pc = "reading" ~> pc = "answered"

-----------------------------------------------------------------------------
(* The inductive invariant behind the safety properties.                     *)

\* The buffer holds a fragment, and the cache says how much of it counts.
CacheHoldsFragment ==
    /\ cacheOffset % Fragment = 0
    /\ buffer.base = cacheOffset
    /\ cacheLength <= buffer.bytes
    /\ cacheStatus = "success" /\ ~NothingLoaded =>
          cacheLength = Fragment /\ cacheOffset + Fragment <= Stored
    /\ cacheStatus = "endOfFile" /\ buffer.bytes # 0 =>
          cacheOffset + cacheLength = size
    /\ cacheStatus = "endOfFile" /\ buffer.bytes = 0 => cacheLength = 0

\* A read that has got something goes on with the fragment it has tried to load.
GoesOnAtBase == pc = "reading" /\ commit > 0 => cacheOffset = offset

ReadInv ==
    /\ TypeOK /\ CacheHoldsFragment /\ GoesOnAtBase
    /\ pc = "reading" => commit < length
    /\ DeliversDocument /\ ShortOnlyAtEnd /\ PaddingStaysInside

-----------------------------------------------------------------------------
(* What a comment of the source says: SizeOfFile is "the file size of file"  *)
(* (gingko_lib.h:85); a read does not transfer bytes behind it.              *)
NothingBehindEnd == pc = "answered" /\ commit > 0 => start + commit <= size
=============================================================================
