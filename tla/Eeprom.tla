------------------------------- MODULE Eeprom -------------------------------
(***************************************************************************)
(* eeprom/eeprom.c: the 93C46 EEPROM of a network card, read and written   *)
(* by driving its three pins through the card's register Cfg9346, built    *)
(* for 16 bit words (BITS16).  The program is one thread; what runs beside *)
(* it is the chip, which writes a word by itself for some milliseconds     *)
(* after its command and hears nothing meanwhile, and the user, who may    *)
(* interrupt a program at any access to the port and start the next one.   *)
(*                                                                         *)
(* An action of the program is one access to the port.  The width of an    *)
(* address and of a word are parameters (6 and 16 in the source) and the   *)
(* commands and the lengths of the loops are written in terms of them.     *)
(*                                                                         *)
(* Two assumptions on time: the empty loop after a word (600000 counts)    *)
(* outlasts the chip's writing, and so does starting a program by hand.    *)
(***************************************************************************)
EXTENDS Integers, Sequences

CONSTANTS AddrBits,   \* width of an address
          DataBits,   \* width of a word
          Jobs,       \* the programs, see JobType
          Contents,   \* what the memory may hold at first
          MaxRuns     \* bound: programs started

Locs  == 0 .. 2^AddrBits - 1
Words == 0 .. 2^DataBits - 1

\* A program reads every word or writes the words of a table, from `first' on:
\* the whole memory (clear_rom, write_rom) or the three words of a MAC address.
JobType == [reads : BOOLEAN, first : Locs, table : Seq(Words)]

ASSUME EepromAssumption ==
  /\ AddrBits \in Nat \ {0, 1} /\ DataBits \in Nat \ {0} /\ MaxRuns \in Nat
  /\ Jobs \subseteq JobType
  /\ \A j \in Jobs : j.table # << >> /\ j.first + Len(j.table) <= 2^AddrBits
  /\ Contents \subseteq [Locs -> Words]

VARIABLES
  job,     \* the program that runs or ran last
  word,    \* main's loop: the word of the table, from 1
  fn,      \* the function that drives the pins
  pc,      \* its next access to the port
  i,       \* its loop variable
  retval,  \* read_eeprom's result so far
  got,     \* what read_eeprom returned, word by word
  pins,    \* the register: chip select, clock, data in
  chip,    \* the 93C46, see ChipType
  runs,    \* programs started
  whole,   \* the chip held no command that changes it when the program started
  asked    \* history: the words write_eeprom was called with, by location

prog == <<job, word, fn, i, retval, got, runs, whole, asked>>
vars == <<prog, pc, pins, chip>>

Bit == {0, 1}
ChipType == [sr : Nat, wen : BOOLEAN, mem : [Locs -> Words], writing : BOOLEAN,
             next : [Locs -> Words]]

-----------------------------------------------------------------------------
(* The chip.  It takes a bit at every rising edge of the clock while it is  *)
(* selected.  What it has taken is the number sr: zeros before the start    *)
(* bit leave it 0, and its first one is the start bit.                      *)

BitOf(n, k) == (n \div 2^k) % 2

\* A bit clocked in: the two commands that switch writing work at once.
Clocked(c, b) ==
  LET s == 2 * c.sr + b
      switch == s \div 2^(AddrBits - 2)
  IN  IF c.writing THEN c
      ELSE [c EXCEPT !.sr = s, !.wen = IF switch \in {16, 19} THEN switch = 19 ELSE @]

\* The words a complete command changes: write, write all, erase, erase all.
Targets(s) ==
  {a \in Locs :
     \/ s \div 2^(AddrBits + DataBits) = 5 /\ a = (s \div 2^DataBits) % 2^AddrBits
     \/ s \div 2^(AddrBits + DataBits - 2) = 17
     \/ s \div 2^AddrBits = 7 /\ a = s % 2^AddrBits
     \/ s \div 2^(AddrBits - 2) = 18}

Erased == 2^DataBits - 1

\* A command as short as an erase has no data.
Datum(s) == IF s < 2^(AddrBits + 3) THEN Erased ELSE s % 2^DataBits

\* Deselected: a complete command starts the writing, if it is switched on.
Deselected(c) ==
  LET starts == c.wen /\ Targets(c.sr) # {}
  IN  [c EXCEPT !.sr = 0,
                !.writing = @ \/ starts,
                !.next = IF starts
                         THEN [a \in Locs |-> IF a \in Targets(c.sr) THEN Datum(c.sr) ELSE c.mem[a]]
                         ELSE @]

\* The data pin is low while the chip writes, and for a 0 of the word asked for,
\* whose k-th bit comes k bits after the address.
DataOut ==
  LET zero(k) == /\ chip.sr \div 2^(AddrBits + k) = 6
                 /\ BitOf(chip.mem[(chip.sr \div 2^k) % 2^AddrBits], DataBits - k) = 0
  IN  IF chip.writing \/ \E k \in 1 .. DataBits : zero(k) THEN 0 ELSE 1

Finish ==
  /\ chip.writing
  /\ chip' = [chip EXCEPT !.mem = chip.next, !.writing = FALSE]
  /\ UNCHANGED <<prog, pc, pins>>

\* myoutb and RTL_W8: the register is written and the chip sees the edges.
Out(cs, clk, di) ==
  /\ pins' = [cs |-> cs, clk |-> clk, di |-> di]
  /\ chip' = IF cs = 0
             THEN IF pins.cs = 1 THEN Deselected(chip) ELSE chip
             ELSE IF clk = 1 /\ pins.clk = 0 THEN Clocked(chip, di) ELSE chip

-----------------------------------------------------------------------------
(* The program.                                                             *)

Init ==
  /\ job \in Jobs /\ word = 1 /\ fn = "read" /\ pc = "idle"
  /\ i = 0 /\ retval = 0 /\ got = << >> /\ runs = 0 /\ whole = TRUE
  /\ asked = [a \in Locs |-> {}]
  /\ pins = [cs |-> 0, clk |-> 0, di |-> 0]
  /\ chip \in {[sr |-> 0, wen |-> FALSE, mem |-> m, writing |-> FALSE, next |-> m] : m \in Contents}

location == job.first + word - 1

\* Mutant: the word goes to the index in its table.
WriteAtIndex == (5 * 2^AddrBits + word - 1) * 2^DataBits + job.table[word]

WriteCommand == (5 * 2^AddrBits + location) * 2^DataBits + job.table[word]

\* EE_WEN_CMD, EE_WDS_CMD, EE_READ_CMD with a location, EE_WRITE_CMD with a word too.
Command ==
  CASE fn = "enable"  -> 4 * 2^AddrBits + 3 * 2^(AddrBits - 2)
    [] fn = "disable" -> 4 * 2^AddrBits
    [] fn = "read"    -> 6 * 2^AddrBits + location
    [] fn = "write"   -> WriteCommand

\* The loops shift 11 bits, two before the start bit, and 27 with a word.
LastBit == AddrBits + 4 + (IF fn = "write" THEN DataBits ELSE 0)

\* The function is called: i, retval and the pins are its own business.
Call(f) ==
  /\ fn' = f
  /\ pc' = "low"

\* main's loop: the next word, or the program ends.
NextWord ==
  /\ word' = word + 1
  /\ IF word < Len(job.table) THEN Call(IF job.reads THEN "read" ELSE "enable")
     ELSE pc' = "idle" /\ fn' = fn

Start ==
  /\ pc = "idle" /\ runs < MaxRuns /\ ~chip.writing
  /\ job' \in Jobs /\ word' = 1 /\ got' = << >> /\ runs' = runs + 1
  /\ whole' = (Targets(chip.sr) = {})
  /\ Call(IF job'.reads THEN "read" ELSE "enable")
  /\ UNCHANGED <<i, retval, asked, pins, chip>>

\* Every function starts by taking the chip select down and up.
Low ==
  /\ pc = "low" /\ pc' = "high"
  /\ Out(0, 0, 0)
  /\ asked' = IF fn = "write" THEN [asked EXCEPT ![location] = @ \cup {job.table[word]}] ELSE asked
  /\ UNCHANGED <<job, word, fn, i, retval, got, runs, whole>>

High ==
  /\ pc = "high" /\ pc' = "put"
  /\ Out(1, 0, 0)
  /\ i' = LastBit /\ retval' = 0
  /\ UNCHANGED <<job, word, fn, got, runs, whole, asked>>

\* A bit: on the pin with the clock low, then the clock goes up.
Put ==
  /\ pc = "put" /\ pc' = "clock"
  /\ Out(1, 0, BitOf(Command, i))
  /\ UNCHANGED prog

Clock ==
  /\ pc = "clock"
  /\ pc' = IF i > 0 THEN "put" ELSE IF fn = "read" THEN "settle" ELSE "end"
  /\ Out(1, 1, BitOf(Command, i))
  /\ i' = i - 1
  /\ UNCHANGED <<job, word, fn, retval, got, runs, whole, asked>>

\* write(~EE_CS): select down, clock and data up; then what write_eeprom calls next.
End ==
  /\ pc = "end"
  /\ Out(0, 1, 1)
  /\ \/ fn = "enable" /\ Call("write")
     \/ fn = "write" /\ Call("disable")
     \/ fn = "disable" /\ pc' = "wait" /\ fn' = fn
  /\ UNCHANGED <<job, word, i, retval, got, runs, whole, asked>>

\* Mutant: without the empty loop.
NoPause == TRUE

\* while(j++<600000): see the assumptions on time.
Pause == ~chip.writing

Wait ==
  /\ pc = "wait" /\ Pause
  /\ NextWord
  /\ UNCHANGED <<job, i, retval, got, runs, whole, asked, pins, chip>>

Settle ==
  /\ pc = "settle" /\ pc' = "strobe"
  /\ Out(1, 0, 0)
  /\ i' = DataBits
  /\ UNCHANGED <<job, word, fn, retval, got, runs, whole, asked>>

Strobe ==
  /\ pc = "strobe" /\ pc' = "sample"
  /\ Out(1, 1, 0)
  /\ UNCHANGED prog

\* The data pin is read and the clock goes down, until i is at last.
SampleUntil(last) ==
  /\ pc = "sample" /\ pc' = IF i > last THEN "strobe" ELSE "return"
  /\ retval' = 2 * retval + DataOut
  /\ Out(1, 0, 0)
  /\ i' = i - 1
  /\ UNCHANGED <<job, word, fn, got, runs, whole, asked>>

\* Mutants: a bit too many, a bit too few.
SampleMore == SampleUntil(0)

SampleLess == SampleUntil(2)

Sample == SampleUntil(1)

\* RTL_W8(ioaddr, ~EE_CS, ee_addr): register and value are swapped, the pins stay.
Return ==
  /\ pc = "return"
  /\ got' = Append(got, retval)
  /\ NextWord
  /\ UNCHANGED <<job, i, retval, runs, whole, asked, pins, chip>>

\* The user interrupts the program.
Interrupt ==
  /\ pc # "idle" /\ pc' = "idle"
  /\ UNCHANGED <<prog, pins, chip>>

Program == Low \/ High \/ Put \/ Clock \/ End \/ Wait \/ Settle \/ Strobe \/ Sample \/ Return

Next == Start \/ Program \/ Finish \/ Interrupt

Spec == Init /\ [][Next]_vars

-----------------------------------------------------------------------------
(* Properties.                                                              *)

TypeOK ==
  /\ job \in Jobs /\ word \in 1 .. Len(job.table) + 1
  /\ fn \in {"enable", "write", "disable", "read"}
  /\ pc \in {"idle", "low", "high", "put", "clock", "end", "wait",
             "settle", "strobe", "sample", "return"}
  /\ i \in -1 .. AddrBits + DataBits + 4
  /\ retval \in Words /\ got \in Seq(Words)
  /\ runs \in 0 .. MaxRuns /\ whole \in BOOLEAN
  /\ asked \in [Locs -> SUBSET Words]
  /\ pins \in [cs : Bit, clk : Bit, di : Bit]
  /\ chip \in ChipType

\* What main's loop has passed is in the memory, word for word, whatever the
\* chip missed while it was writing (eeprom.c, 459 to 461 and write_eeprom).
WordsWritten ==
  whole /\ ~job.reads =>
    \A k \in 1 .. word - 1 : chip.mem[job.first + k - 1] = job.table[k]

\* What read_eeprom has returned is what the memory holds, from its first bit
\* to its last (eeprom.c, 240 to 292).
ReadsTrue ==
  whole /\ job.reads => \A k \in 1 .. Len(got) : got[k] = chip.mem[job.first + k - 1]

\* Wherever the programs are interrupted, a word of the memory changes only to
\* one that write_eeprom was called with for its location, or to all ones in a
\* program that found a command in the chip: the chip writes that first, may be
\* ready in the middle of the next command, and can take its end for an erase.
OnlyAsked ==
  [][\A a \in Locs : chip.mem[a]' # chip.mem[a] =>
       chip.mem[a]' \in asked[a] \/ (~whole /\ chip.mem[a]' = Erased)]_vars
=============================================================================
