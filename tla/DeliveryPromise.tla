-------------------------- MODULE DeliveryPromise --------------------------
(***************************************************************************)
(* What GuardDelivery promises its caller: exactly one answer, whose error,*)
(* decision and deliverability agree.  Delivery.tla implements it, and     *)
(* StreamProcessor.tla relies on it.                                       *)
(***************************************************************************)
EXTENDS Reports

VARIABLE answer   \* <<>> until GuardDelivery returns

Init == answer = <<>>

Reply ==
    /\ answer = <<>>
    /\ \E a \in Answers : answer' = <<a>>

Spec == Init /\ [][Reply]_answer
=============================================================================
