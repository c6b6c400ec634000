---------------------------- MODULE MCMiniTimer ----------------------------
(***************************************************************************)
(* Small instances of MiniTimer.  The clock starts one millisecond before  *)
(* a full second, so that intervals cross it and hit it exactly, and may be *)
(* looked at less than a millisecond before they expire.                    *)
(***************************************************************************)
EXTENDS MiniTimer, TLC

MCInstants == {999500, 999700, 3500000}
\* One look within the first millisecond, and one jump over everything.
MCTwoInstants == {999500, 3500000}

MCSymmetry == Permutations(Clients)
=============================================================================
