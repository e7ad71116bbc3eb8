------------------------------ MODULE MCEeprom ------------------------------
(* Four words of two bits: two images, a table that begins behind the first *)
(* word, as a MAC address does, and the program that reads everything.      *)
EXTENDS Eeprom

MCWrite(first, table) == [reads |-> FALSE, first |-> first, table |-> table]

MCJobs == {MCWrite(0, <<3, 3, 3, 3>>), MCWrite(0, <<2, 1, 0, 3>>), MCWrite(1, <<2, 1>>),
           [reads |-> TRUE, first |-> 0, table |-> <<0, 0, 0, 0>>]}

MCContents == {[a \in Locs |-> 3], [a \in Locs |-> (a + 1) % 4]}
=============================================================================
