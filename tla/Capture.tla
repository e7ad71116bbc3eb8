------------------------------ MODULE Capture ------------------------------
(***************************************************************************)
(* What the recorder of 7inch-mp3/record.cpp promises its user: the sound  *)
(* read from the card goes to the encoder complete, once and in order, and *)
(* the encoder's pipe is closed only when all of it has been delivered.    *)
(***************************************************************************)
EXTENDS Naturals, Sequences

CONSTANT Chunks  \* what the card may hand over

VARIABLES
  captured,   \* the chunks read from the card, in order
  delivered,  \* the chunks written to the encoder
  closed      \* the encoder's pipe has been closed

vars == <<captured, delivered, closed>>

Init ==
  /\ captured = << >>
  /\ delivered = << >>
  /\ closed = FALSE

(* The card hands over another chunk. *)
Read ==
  /\ ~closed
  /\ \E chunk \in Chunks : captured' = Append(captured, chunk)
  /\ UNCHANGED <<delivered, closed>>

(* The oldest chunk not yet delivered is written to the encoder. *)
Deliver ==
  /\ ~closed
  /\ Len(delivered) < Len(captured)
  /\ delivered' = Append(delivered, captured[Len(delivered) + 1])
  /\ UNCHANGED <<captured, closed>>

Close ==
  /\ ~closed
  /\ delivered = captured
  /\ closed' = TRUE
  /\ UNCHANGED <<captured, delivered>>

Next == Read \/ Deliver \/ Close

Spec == Init /\ [][Next]_vars
=============================================================================
