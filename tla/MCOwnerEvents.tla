--------------------------- MODULE MCOwnerEvents ---------------------------
(* OwnerEvents for TLC: two events of one consumer, which refuses the first. *)
EXTENDS OwnerEvents, TLC

CONSTANTS e1, e2, build

MCEvent == {e1, e2}
MCConsumer == {build}
MCDelivery == {<<e1, build>>, <<e2, build>>}
MCRefused == {<<e1, build>>}
=============================================================================
