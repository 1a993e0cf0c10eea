-------------------------- MODULE PendedIrpService --------------------------
(***************************************************************************)
(* What the driver promises the I/O manager about the IRPs of one          *)
(* encrypted file: an IRP is either answered on the spot (handed to the    *)
(* lower driver, or refused with STATUS_DEVICE_NOT_READY) or pended;       *)
(* pended IRPs are answered exactly once, in the order in which they were  *)
(* pended; and whether reads return the stored bytes ("raw") or the        *)
(* decrypted ones ("plain") is decided once for the life of the file       *)
(* object.  EncryptedIoQueue implements this.                              *)
(***************************************************************************)
EXTENDS Sequences

CONSTANT Irps       \* the IRPs sent to one file object

VARIABLES pending,  \* the IRPs pended and not yet answered, oldest first
          result,   \* the answer each IRP got, "none" before
          mode      \* how reads are answered, "undecided" at first

Results == {"none", "raw", "plain", "other", "notReady", "passed"}
Modes   == {"undecided", "raw", "plain"}

\* "other" covers every answer that carries no file data: CLEANUP, a
\* cancelled IRP, STATUS_INSUFFICIENT_RESOURCES, a failed lower read.
Answers == {"other"} \cup (Modes \ {"undecided"})

Unpended(i) == result[i] = "none" /\ \A k \in DOMAIN pending : pending[k] # i

Init ==
    /\ pending = <<>>
    /\ result = [i \in Irps |-> "none"]
    /\ mode = "undecided"

Pend(i) ==
    /\ Unpended(i)
    /\ pending' = Append(pending, i)
    /\ UNCHANGED <<result, mode>>

AnswerAtOnce(i) ==
    /\ Unpended(i)
    /\ \E r \in {"notReady", "passed"} : result' = [result EXCEPT ![i] = r]
    /\ UNCHANGED <<pending, mode>>

AnswerOldest ==
    /\ pending # <<>>
    /\ \E r \in Answers :
          /\ r \in {"other", mode}
          /\ result' = [result EXCEPT ![Head(pending)] = r]
    /\ pending' = Tail(pending)
    /\ UNCHANGED mode

Decide ==
    /\ mode = "undecided"
    /\ mode' \in {"raw", "plain"}
    /\ UNCHANGED <<pending, result>>

Next ==
    \/ \E i \in Irps : Pend(i) \/ AnswerAtOnce(i)
    \/ AnswerOldest
    \/ Decide

vars == <<pending, result, mode>>

Spec == Init /\ [][Next]_vars
=============================================================================
