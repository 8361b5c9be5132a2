----------------------------- MODULE ByteQueue -----------------------------
(***************************************************************************)
(* What a stream's pending buffer promises: the accepted bytes that no     *)
(* unit has taken yet, first in, first out, and never more than MaxBytes.  *)
(***************************************************************************)
EXTENDS Naturals, Sequences

CONSTANTS Bytes, MaxBytes

VARIABLE queue

Init == queue = <<>>

AppendBytes ==
    /\ queue' \in Seq(Bytes)
    /\ Len(queue) <= Len(queue') /\ Len(queue') <= MaxBytes
    /\ SubSeq(queue', 1, Len(queue)) = queue

ConsumeBytes ==
    \E n \in 1..Len(queue) : queue' = SubSeq(queue, n + 1, Len(queue))

ClearBytes == queue' = <<>>

Next == AppendBytes \/ ConsumeBytes \/ ClearBytes

Spec == Init /\ [][Next]_queue
=============================================================================
