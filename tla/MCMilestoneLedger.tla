------------------------- MODULE MCMilestoneLedger -------------------------
(***************************************************************************)
(* A milestone of a few attempts for TLC: the first one is accepted by the *)
(* host's checks alone, the others need a review.                          *)
(***************************************************************************)
EXTENDS MilestoneLedger

MCT0 == {1}
=============================================================================
