---------------------------- MODULE StreamChannel ----------------------------
(***************************************************************************)
(* What the upload hand-off of curlftpfs promises, without threads or     *)
(* semaphores: the single-slot channel of spec section 9. A write puts    *)
(* its chunk into an empty slot and waits; the upload takes bytes from    *)
(* the front of the slot; the write is acknowledged as written only once  *)
(* the slot is empty again, and refused once the upload has failed. A     *)
(* failure stays latched until the handle is freed.                       *)
(***************************************************************************)
EXTENDS Naturals, Sequences

CONSTANTS
  Chunks            \* the byte sequences one write may carry

VARIABLES
  slot,             \* bytes handed over and not yet taken by the upload
  taken,            \* bytes the current upload has taken, in order
  inflight,         \* a write has put its chunk and waits for its answer
  failed            \* the upload has failed (the latched error cause)

vars == <<slot, taken, inflight, failed>>

Init ==
  /\ slot = <<>>
  /\ taken = <<>>
  /\ inflight = FALSE
  /\ failed = FALSE

\* A write hands over a chunk: only into an empty slot.
Put(d) ==
  /\ ~inflight /\ slot = <<>>
  /\ slot' = d
  /\ inflight' = TRUE
  /\ UNCHANGED <<taken, failed>>

\* The upload takes the first k bytes of the slot.
Take(k) ==
  /\ k \in 1..Len(slot)
  /\ taken' = taken \o SubSeq(slot, 1, k)
  /\ slot' = SubSeq(slot, k + 1, Len(slot))
  /\ UNCHANGED <<inflight, failed>>

\* The write returns success: all of its bytes were taken.
Ack ==
  /\ inflight /\ slot = <<>> /\ ~failed
  /\ inflight' = FALSE
  /\ UNCHANGED <<slot, taken, failed>>

\* The write returns an error: the upload has failed.
Nack ==
  /\ inflight /\ failed
  /\ inflight' = FALSE
  /\ UNCHANGED <<slot, taken, failed>>

Fail ==
  /\ ~failed
  /\ failed' = TRUE
  /\ UNCHANGED <<slot, taken, inflight>>

\* A new upload starts with nothing taken.
NewUpload ==
  /\ ~inflight /\ slot = <<>>
  /\ taken' = <<>>
  /\ UNCHANGED <<slot, inflight, failed>>

\* The handle is freed: whatever is left is dropped and the latch cleared.
Discard ==
  /\ ~inflight
  /\ slot' = <<>>
  /\ failed' = FALSE
  /\ UNCHANGED <<taken, inflight>>

Next ==
  \/ \E d \in Chunks : Put(d)
  \/ \E k \in 1..Len(slot) : Take(k)
  \/ Ack \/ Nack \/ Fail \/ NewUpload \/ Discard

Spec == Init /\ [][Next]_vars
=============================================================================
