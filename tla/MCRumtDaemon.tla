---------------------------- MODULE MCRumtDaemon ----------------------------
(* RumtDaemon for TLC: the lowest bit of a byte and the highest one that   *)
(* rumt_trymem looks at.                                                   *)
EXTENDS RumtDaemon

MCBits   == {<<0, 0>>, <<0, 6>>}
MCStop   == {"stop"}
MCFaults == {"stop", "fusion"}
=============================================================================
