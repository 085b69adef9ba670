------------------------------- MODULE MCInvites ------------------------------
(* One coordinator, two peers that hold its codes; names play no part. *)
EXTENDS Invites

MCNode == 1 .. 3
MCHex == {"f1", "f2", "f3"}
MCName == MCHex \cup {"x-f1", "x-f2", "x-f3"}
MCFallback == <<"f1", "f2", "f3">>
MCLabel == [s \in MCName |-> s]
MCNumbered == [h \in MCName |-> [k \in 1 .. 0 |-> h]]
MCLastResort == [h \in MCName |-> <<"x-f1", "x-f2", "x-f3">>]
=============================================================================
