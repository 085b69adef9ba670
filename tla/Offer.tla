-------------------------------- MODULE Offer ---------------------------------
(***************************************************************************)
(* What a file offer promises (daemon/src/files/mod.rs and transfer.rs): a *)
(* sender learns the fate of its offer, and the fate it learns agrees with *)
(* what happened at the receiver.                                          *)
(*                                                                         *)
(* `fate' is what `quix file list' shows the sender (OfferState), with two *)
(* more values: "none" before the offer is made, "forgotten" once its      *)
(* entry is gone.  `saved' says that the file is in place, verified, on    *)
(* the receiver's disk.                                                    *)
(***************************************************************************)
VARIABLES fate, saved

vars == <<fate, saved>>

Live == {"offered", "transferring"}

Init == fate = "none" /\ saved = FALSE

Make == fate = "none" /\ fate' = "offered" /\ UNCHANGED saved

Accept == fate = "offered" /\ fate' = "transferring" /\ UNCHANGED saved

\* Only an accepted file is saved, and not once the sender was told that the
\* offer was rejected, withdrawn or too late.
Save ==
  /\ fate \in {"transferring", "failed", "forgotten"}
  /\ ~saved /\ saved' = TRUE
  /\ UNCHANGED fate

\* A delivery is only reported once the file is saved, and never for one that
\* was not accepted.
Deliver == fate = "transferring" /\ saved /\ fate' = "done" /\ UNCHANGED saved

Refuse ==
  /\ fate = "offered" /\ ~saved
  /\ fate' \in {"rejected", "expired"}
  /\ UNCHANGED saved

Withdraw ==
  /\ fate \in Live /\ ~saved
  /\ fate' = "cancelled"
  /\ UNCHANGED saved

\* The only end that leaves open whether the file arrived.
Fail == fate \in Live /\ fate' = "failed" /\ UNCHANGED saved

Forget == fate' = "forgotten" /\ UNCHANGED saved

Next ==
  Make \/ Accept \/ Save \/ Deliver \/ Refuse \/ Withdraw \/ Fail \/ Forget

Spec == Init /\ [][Next]_vars
===============================================================================
