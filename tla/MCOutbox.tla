------------------------------ MODULE MCOutbox ------------------------------
(* Small instances of Outbox.                                              *)
EXTENDS Outbox

MCOneEvent == {1}
MCEvents == 1..2
MCThreeEvents == 1..3
=============================================================================
