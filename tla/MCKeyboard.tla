----------------------------- MODULE MCKeyboard -----------------------------
(* The left Ctrl and the right Alt stand for the keys (an old 69 may stand  *)
(* behind the Ctrl), the release of Up for a byte beyond the tables.        *)
EXTENDS Keyboard

MCPlain    == {29, 56}
MCExtended == {56}
MCBeyond   == {200}
MCKeys     == {<<29>>, <<224, 56>>, <<224, 200>>}
=============================================================================
