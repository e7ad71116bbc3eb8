------------------------------ MODULE MCUrumt ------------------------------
(* Urumt for TLC: either one process with three pages, which follows the   *)
(* ring round several times, or two processes of two pages, one frame      *)
(* being hidden, which share the statistics file.                          *)
EXTENDS Urumt, TLC

CONSTANTS p1, p2, b1, b2

MCOne    == {p1}
MCTwo    == {p1, p2}
MCHidden == {3}
MCLast   == {2}
MCBits   == {b1, b2}

(* Processes are interchangeable, and so are the bits of a frame. *)
MCSymmetry == Permutations(Procs) \cup Permutations(MCBits)
=============================================================================
