---------------------------- MODULE LatestValue ----------------------------
(***************************************************************************)
(* What a last-value channel promises its one consumer: offers are         *)
(* numbered, the consumer takes the newest offer there is, may skip some,  *)
(* never goes back, and is never left behind for good.  The cloud          *)
(* supervisor is shown to implement this (CloudLink).                      *)
(***************************************************************************)
EXTENDS Naturals

VARIABLES offered,  \* number of the newest offer
          taken     \* number of the offer the consumer works with

Init == offered = 1 /\ taken = 0

Offer == offered' = offered + 1 /\ UNCHANGED taken

Take == taken # offered /\ taken' = offered /\ UNCHANGED offered

Spec == Init /\ [][Offer \/ Take]_<<offered, taken>>
             /\ WF_<<offered, taken>>(Take)
=============================================================================
