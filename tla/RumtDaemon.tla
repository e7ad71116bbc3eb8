----------------------------- MODULE RumtDaemon -----------------------------
(***************************************************************************)
(* rumt/rumt_daemon with the two programs it runs: rumt_trymem, which      *)
(* checks disabled memory against the stream of one seed and refills it    *)
(* from another, and rumt_fusion, which merges the bad bits it printed     *)
(* into the table BAD_BITS.                                                *)
(*                                                                         *)
(* A bit of the memory is "ok", or has changed since it was written: "+"   *)
(* when it reads 1, "-" when it reads 0.  A file is NoFile or its content, *)
(* a function from the bits it lists.  Seeds and stamps are loop numbers.  *)
(*                                                                         *)
(* A kill of the script leaves the rumt_trymem it is waiting for running:  *)
(* a stray, which goes on to check and to fill the memory, next to a       *)
(* daemon started meanwhile.  It is assumed to end before that one has     *)
(* slept its first INTERVAL (the configuration has 30 minutes).            *)
(***************************************************************************)
EXTENDS Integers, FiniteSets

CONSTANTS
  Bits,       \* the bits of the areas that may change, <<byte, bit number>>
  NoFile,     \* no such file
  Faults,     \* what may go wrong: "stop" or kill the daemon, "fusion" dies
  MaxRounds,  \* bound of the model: seeds used
  MaxFlips    \* bound of the model: changes of the memory

ASSUME RumtDaemonAssumption ==
  /\ Bits \subseteq Nat \X (0..7)
  /\ Faults \subseteq {"stop", "fusion"}
  /\ MaxRounds \in Nat /\ MaxFlips \in Nat

VARIABLES
  pc,          \* where the script is
  mem,         \* the state of each bit
  SEED,        \* seed of this round
  OLD_SEED,    \* 0 stands for the empty string
  written,     \* the seed the memory was last filled from, 0 if no single one
  strays,      \* the rumt_trymem whose script has been killed
  crowded,     \* history: one was running when the daemon was last started
  TRYMEM_OUT, BAD_BITS, BAD_NEW, BAD_OLD,
  flips,       \* changes of the memory so far
  reported,    \* history: <<bit, sign, stamp>> for every line given to rumt_fusion
  known,       \* history: the bits of the table at the beginning of some round
  faulted      \* history: something has gone wrong

history == <<reported, known, faulted>>
late   == <<strays, crowded>>
files  == <<TRYMEM_OUT, BAD_BITS, BAD_NEW, BAD_OLD>>
memory == <<mem, written, flips>>
vars   == <<pc, memory, late, SEED, OLD_SEED, files, history>>

At(place) == pc = place

Sound == [b \in Bits |-> "ok"]
Empty == << >>

Init ==
  /\ pc = "off"
  /\ mem = Sound
  /\ SEED = 0 /\ OLD_SEED = 0 /\ written = 0
  /\ TRYMEM_OUT = NoFile
  /\ BAD_BITS = NoFile /\ BAD_NEW = NoFile /\ BAD_OLD = NoFile
  /\ flips = 0
  /\ strays = {} /\ crowded = FALSE
  /\ reported = {} /\ known = {} /\ faulted = FALSE

-----------------------------------------------------------------------------
(* rumt_trymem *)

(* The loop over the bits of a differing byte stops before bit 7.          *)
Tested == {b \in Bits : b[2] < 7}

(* What check_areas prints. *)
Printed(m) == [b \in {c \in Tested : m[c] # "ok"} |-> m[b]]

(* write_areas.  Where the daemon and a stray write at the same time, some *)
(* pages may end with the one's content and some with the other's.         *)
WriteAreas(seed) ==
  /\ mem' = Sound
  /\ written' \in IF crowded THEN {seed, 0} ELSE {seed}

(* check_areas: against the seed the memory was filled from, the bits that *)
(* have changed; against another, any bits.                                *)
CheckAreas(seed) ==
  TRYMEM_OUT' \in IF written = seed THEN {Printed(mem)}
                  ELSE UNION {[B -> {"+", "-"}] : B \in SUBSET Tested}

-----------------------------------------------------------------------------
(* rumt_fusion *)

(* Mutant: a bit seen both ways keeps the sign seen last. *)
FusionLast(old, new, stamp) ==
  [b \in DOMAIN old \cup DOMAIN new |->
     IF b \in DOMAIN new THEN [sign |-> new[b], stamp |-> stamp] ELSE old[b]]

(* Mutant: a bit seen again becomes "*" whatever its sign. *)
FusionTwice(old, new, stamp) ==
  [b \in DOMAIN old \cup DOMAIN new |->
     IF b \notin DOMAIN old THEN [sign |-> new[b], stamp |-> stamp]
     ELSE IF b \in DOMAIN new THEN [old[b] EXCEPT !.sign = "*"] ELSE old[b]]

(* Mutant: a new bit gets no stamp. *)
FusionUnstamped(old, new, stamp) ==
  [b \in DOMAIN old \cup DOMAIN new |->
     IF b \notin DOMAIN old THEN [sign |-> new[b], stamp |-> 0] ELSE old[b]]

(* The union of the known and the new bad bits: a bit seen both ways       *)
(* becomes "*", a known bit keeps its stamp.                               *)
Fusion(old, new, stamp) ==
  [b \in DOMAIN old \cup DOMAIN new |->
     IF b \notin DOMAIN old THEN [sign |-> new[b], stamp |-> stamp]
     ELSE IF b \in DOMAIN new /\ old[b].sign \notin {"*", new[b]}
          THEN [old[b] EXCEPT !.sign = "*"]
          ELSE old[b]]

Merged == Fusion(BAD_BITS, TRYMEM_OUT, SEED)
is_new == Merged # BAD_BITS

-----------------------------------------------------------------------------
(* The script up to the loop. *)
Start ==
  /\ At("off")
  /\ BAD_BITS' = IF BAD_BITS = NoFile THEN Empty ELSE BAD_BITS
  /\ OLD_SEED' = 0
  /\ crowded' = (strays # {})
  /\ pc' = "loop"
  /\ UNCHANGED <<memory, strays, SEED, TRYMEM_OUT, BAD_NEW, BAD_OLD, history>>

(* The date is another one in every round. *)
Loop ==
  /\ At("loop")
  /\ SEED < MaxRounds
  /\ SEED' = SEED + 1
  /\ pc' = IF OLD_SEED = 0 THEN "prepare" ELSE "check"
  /\ known' = known \cup DOMAIN BAD_BITS
  /\ UNCHANGED <<memory, late, OLD_SEED, files, reported, faulted>>

Prepare ==
  /\ At("prepare")
  /\ WriteAreas(SEED)
  /\ pc' = "sleep"
  /\ UNCHANGED <<late, SEED, OLD_SEED, files, flips, history>>

(* rumt_trymem -i -o checks the areas and then writes them.                *)
Check ==
  /\ At("check")
  /\ CheckAreas(OLD_SEED)
  /\ pc' = "write"
  /\ UNCHANGED <<memory, late, SEED, OLD_SEED, BAD_BITS, BAD_NEW, BAD_OLD, history>>

Write ==
  /\ At("write")
  /\ WriteAreas(SEED)
  /\ pc' = IF TRYMEM_OUT = Empty THEN "sleep" ELSE "fusion"
  /\ UNCHANGED <<late, SEED, OLD_SEED, files, flips, history>>

(* rumt_fusion leaves at once if nothing is new, else it opens the file    *)
(* it writes.                                                              *)
FusionOpen ==
  /\ At("fusion")
  /\ reported' = reported \cup {<<b, TRYMEM_OUT[b], SEED>> : b \in DOMAIN TRYMEM_OUT}
  /\ IF is_new
     THEN /\ BAD_NEW' = Empty
          /\ pc' = "close"
     ELSE /\ pc' = "test"
          /\ UNCHANGED BAD_NEW
  /\ UNCHANGED <<memory, late, SEED, OLD_SEED, TRYMEM_OUT, BAD_BITS, BAD_OLD, known,
                 faulted>>

(* A full output buffer brings some more of the table to the file.         *)
FusionPrints ==
  /\ At("close")
  /\ \E B \in SUBSET DOMAIN Merged :
       /\ DOMAIN BAD_NEW \subseteq B /\ B # DOMAIN BAD_NEW
       /\ BAD_NEW' = [b \in B |-> Merged[b]]
  /\ UNCHANGED <<pc, memory, late, SEED, OLD_SEED, TRYMEM_OUT, BAD_BITS, BAD_OLD,
                 history>>

FusionClose ==
  /\ At("close")
  /\ BAD_NEW' = Merged
  /\ pc' = "test"
  /\ UNCHANGED <<memory, late, SEED, OLD_SEED, TRYMEM_OUT, BAD_BITS, BAD_OLD, history>>

(* It dies half way; the script does not look at its exit status.          *)
FusionDies ==
  /\ "fusion" \in Faults
  /\ pc \in {"fusion", "close"}
  /\ pc' = "test"
  /\ faulted' = TRUE
  /\ UNCHANGED <<memory, late, SEED, OLD_SEED, files, reported, known>>

(* [ -f $BAD_BITS.new ] *)
Test ==
  /\ At("test")
  /\ pc' = IF BAD_NEW = NoFile THEN "sleep" ELSE "mv1"
  /\ UNCHANGED <<memory, late, SEED, OLD_SEED, files, history>>

Mv1 ==
  /\ At("mv1")
  /\ BAD_OLD' = BAD_BITS
  /\ BAD_BITS' = NoFile
  /\ pc' = "mv2"
  /\ UNCHANGED <<memory, late, SEED, OLD_SEED, TRYMEM_OUT, BAD_NEW, history>>

Mv2 ==
  /\ At("mv2")
  /\ BAD_BITS' = BAD_NEW
  /\ BAD_NEW' = NoFile
  /\ pc' = "sleep"
  /\ UNCHANGED <<memory, late, SEED, OLD_SEED, TRYMEM_OUT, BAD_OLD, history>>

(* Mutant: the old seed is not kept up to date. *)
SleepSame ==
  /\ At("sleep")
  /\ strays = {}
  /\ OLD_SEED' = IF OLD_SEED = 0 THEN SEED ELSE OLD_SEED
  /\ pc' = "loop"
  /\ UNCHANGED <<memory, late, SEED, files, history>>

Sleep ==
  /\ At("sleep")
  /\ strays = {}
  /\ OLD_SEED' = SEED
  /\ pc' = "loop"
  /\ UNCHANGED <<memory, late, SEED, files, history>>

(* The daemon is killed while nothing is in progress: its normal end.      *)
Quit ==
  /\ pc \in {"sleep", "loop"}
  /\ pc' = "off"
  /\ UNCHANGED <<memory, late, SEED, OLD_SEED, files, history>>

(* A command of the script fails (|| exit $?), or everything is stopped,   *)
(* with the machine or without, perhaps with the memory half filled; the   *)
(* files stay (the next check empties TRYMEM_OUT before it prints).        *)
Stop ==
  /\ "stop" \in Faults
  /\ ~At("off") \/ strays # {}
  /\ strays' \in {strays, {}}
  /\ written' \in {written, 0}
  /\ pc' = "off"
  /\ faulted' = TRUE
  /\ UNCHANGED <<mem, flips, crowded, SEED, OLD_SEED, files, reported, known>>

(* The script alone is killed while it waits for rumt_trymem, and leaves   *)
(* it running.  (A rumt_fusion or mv left behind ends as if the script had *)
(* been killed a little later.)                                            *)
Kill ==
  /\ "stop" \in Faults
  /\ pc \in {"prepare", "check", "write"}
  /\ strays' = strays \cup {[at   |-> IF At("check") THEN "check" ELSE "write",
                             old  |-> OLD_SEED,
                             seed |-> SEED]}
  /\ pc' = "off"
  /\ faulted' = TRUE
  /\ UNCHANGED <<memory, crowded, SEED, OLD_SEED, files, reported, known>>

StrayCheck ==
  \E s \in strays :
    /\ s.at = "check"
    /\ CheckAreas(s.old)
    /\ strays' = (strays \ {s}) \cup {[s EXCEPT !.at = "write"]}
    /\ UNCHANGED <<pc, memory, crowded, SEED, OLD_SEED, BAD_BITS, BAD_NEW, BAD_OLD,
                   history>>

StrayWrite ==
  \E s \in strays :
    /\ s.at = "write"
    /\ WriteAreas(s.seed)
    /\ strays' = strays \ {s}
    /\ UNCHANGED <<pc, flips, crowded, SEED, OLD_SEED, files, history>>

(* A bit of the memory changes by itself, or back again. *)
Flip ==
  \E b \in Bits, s \in {"+", "-"} :
    /\ flips < MaxFlips
    /\ flips' = flips + 1
    /\ mem' = [mem EXCEPT ![b] = IF @ = "ok" THEN s ELSE "ok"]
    /\ UNCHANGED <<pc, late, SEED, OLD_SEED, written, files, history>>

Next ==
  \/ Start \/ Loop \/ Prepare \/ Check \/ Write
  \/ FusionOpen \/ FusionPrints \/ FusionClose \/ FusionDies \/ Test
  \/ Mv1 \/ Mv2 \/ Sleep
  \/ Quit \/ Stop \/ Kill \/ StrayCheck \/ StrayWrite \/ Flip

Spec == Init /\ [][Next]_vars

-----------------------------------------------------------------------------
Signs  == {"+", "-"}
Entry  == [sign : Signs \cup {"*"}, stamp : 1..MaxRounds]
Stray  == [at : {"check", "write"}, old : 0..MaxRounds, seed : 1..MaxRounds]
Tables == {NoFile} \cup UNION {[B -> Entry] : B \in SUBSET Bits}

TypeOK ==
  /\ pc \in {"off", "loop", "prepare", "check", "write", "fusion", "close", "test", "mv1",
             "mv2", "sleep"}
  /\ mem \in [Bits -> Signs \cup {"ok"}]
  /\ SEED \in 0..MaxRounds /\ OLD_SEED \in 0..MaxRounds /\ written \in 0..MaxRounds
  /\ TRYMEM_OUT \in {NoFile} \cup UNION {[B -> Signs] : B \in SUBSET Tested}
  /\ BAD_BITS \in Tables /\ BAD_NEW \in Tables /\ BAD_OLD \in Tables
  /\ flips \in 0..MaxFlips /\ faulted \in BOOLEAN
  /\ strays \subseteq Stray /\ crowded \in BOOLEAN
  /\ reported \subseteq Tested \X Signs \X (1..MaxRounds)

(* The memory is never checked against another seed than it was filled     *)
(* from, across rounds, kills and restarts (every byte would be reported), *)
(* unless the daemon was started while a rumt_trymem of a killed one was   *)
(* still at work: nothing in the script keeps that one from filling the    *)
(* memory last.                                                            *)
SeedsMatch == pc = "check" /\ ~crowded => written = OLD_SEED

(* The lines of one bit, and what the table has to say of them all.        *)
SignsOf(b)  == {r[2] : r \in {q \in reported : q[1] = b}}
StampsOf(b) == {r[3] : r \in {q \in reported : q[1] = b}}

Summary ==
  [b \in {r[1] : r \in reported} |->
     [sign  |-> IF SignsOf(b) = Signs THEN "*" ELSE CHOOSE s \in SignsOf(b) : TRUE,
      stamp |-> CHOOSE t \in StampsOf(b) : \A u \in StampsOf(b) : t <= u]]

(* "keeps a nice table of detected bad bits" (rumt.html:94): merged round  *)
(* by round with rumt_fusion and renamed twice, the table says of every    *)
(* bit ever reported which ways it was wrong and when it first was, as     *)
(* long as nothing goes wrong on the way.                                  *)
TableIsSummary ==
  pc \in {"loop", "sleep", "check"} /\ ~faulted => BAD_BITS = Summary

(* No table in any file, whatever the daemon was doing when it or          *)
(* rumt_fusion stopped, says anything of a bit that was not reported.      *)
NothingInvented ==
  \A T \in {BAD_BITS, BAD_NEW, BAD_OLD} \ {NoFile} : \A b \in DOMAIN T :
    /\ T[b].stamp \in StampsOf(b)
    /\ IF T[b].sign = "*" THEN SignsOf(b) = Signs ELSE T[b].sign \in SignsOf(b)

(* "keeps a nice table of detected bad bits" (rumt.html:94): a bit that    *)
(* was in the table when a round began is in it when a later one does.     *)
TableKept == pc = "loop" => known \subseteq DOMAIN BAD_BITS
=============================================================================
