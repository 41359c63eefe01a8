--------------------------- MODULE MCSlidingWindow ---------------------------
(* SlidingWindow on two stored keys out of three, half-second ticks and a   *)
(* window of a second and a half.                                           *)
EXTENDS SlidingWindow, TLC

(* Keys are only ever compared, so any renaming of them is a symmetry. *)
KeySymmetry == Permutations(Keys)
=============================================================================
