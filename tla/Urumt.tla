------------------------------- MODULE Urumt -------------------------------
(***************************************************************************)
(* rumt/urumt.c: several urumt processes test memory at once and record    *)
(* what they find in one shared statistics file.                           *)
(*                                                                         *)
(* A process locks NPages pages of memory, finds out which physical frame  *)
(* each one lies in, and goes round them for ever: it fills page ipage     *)
(* with a stream seeded by <<page, pass, pid>> and checks the page filled  *)
(* longest ago, opage, against the stream of its own fill.  The first      *)
(* NPages - 1 fills are not followed by a check (retard).                  *)
(*                                                                         *)
(* A frame's content is the seed it was last filled from and the set of    *)
(* its bits that have flipped since.  The file is an array of INT_SIZE     *)
(* byte counters, two for each frame; record_incr reads a counter and      *)
(* writes it back in two system calls, with no lock on the file.           *)
(***************************************************************************)
EXTENDS Integers, FiniteSets

LOCAL INSTANCE Functions

CONSTANTS
  Procs,        \* urumt processes
  NPages,       \* n_pages, the -p option
  NFrames,      \* frames of physical memory
  Hidden,       \* frames /dev/mem does not show: their pages are not found
  Bits,         \* the bits of a frame that may flip
  MaxBugsPanic, \* max_bugs_panic, the -b option
  IntMod,       \* a counter in the file is a number modulo this (2^32)
  LongMod,      \* an unsigned long is a number modulo this
  MaxPass,      \* bound of the model: fills by one process
  MaxFlips      \* bound of the model: flips in all frames together

Frames == 0..(NFrames - 1)
Pages  == 0..(NPages - 1)

ASSUME UrumtAssumption ==
  /\ NPages \in Nat /\ NPages >= 2
  /\ NFrames \in Nat \ {0}
  /\ Hidden \subseteq Frames
  /\ IsFiniteSet(Bits)
  /\ MaxBugsPanic \in Nat \ {0}
  /\ IntMod \in Nat \ {0} /\ LongMod \in Nat \ {0}
  /\ LongMod >= IntMod
  /\ MaxPass \in Nat /\ MaxFlips \in Nat

VARIABLES
  pc,       \* where each process is in do_tests
  frame,    \* the frame each page of a process lies in
  ipage, ipass, opage, opass, retard,
  n_errors,
  v,        \* the counter record_incr has read
  cell,     \* the content of each frame
  stats,    \* the statistics file: counters 2f (tests) and 2f + 1 (bad bits)
  tested,   \* history: tests of each frame completed, up to IntMod - 1
  flips     \* history: bits of each frame that have flipped

ring == <<ipage, ipass, opage, opass, retard>>
file == <<stats, tested>>
vars == <<pc, frame, ring, n_errors, v, cell, file, flips>>

At(p, place) == pc[p] = place
Goto(p, place) == pc' = [pc EXCEPT ![p] = place]

(* Mutant: the page number does not wrap round. *)
NextPageStraight(g) == g + 1

NextPage(g) == (g + 1) % NPages

NoSeed == <<>>
Seed(p, page, pass) == <<p, page, pass>>
Blank == [seed |-> NoSeed, bad |-> {}]

Running == {p \in Procs : pc[p] # "off"}
Locked  == UNION {{frame[p][g] : g \in Pages} : p \in Running}

(* page_map[opage] >= 0, and that frame. *)
OFrame(p) == frame[p][opage[p]]
Found(p)  == OFrame(p) \notin Hidden

(* The process ends: its variables go, and its frames back to the kernel.  *)
Exit(p) ==
  /\ Goto(p, "off")
  /\ ipage' = [ipage EXCEPT ![p] = 0] /\ ipass' = [ipass EXCEPT ![p] = 0]
  /\ opage' = [opage EXCEPT ![p] = 0] /\ opass' = [opass EXCEPT ![p] = 0]
  /\ retard' = [retard EXCEPT ![p] = 0]
  /\ n_errors' = [n_errors EXCEPT ![p] = 0]
  /\ v' = [v EXCEPT ![p] = 0]
  /\ frame' = [frame EXCEPT ![p] = [g \in Pages |-> 0]]
  /\ cell' = [f \in Frames |->
                IF \E g \in Pages : frame[p][g] = f THEN Blank ELSE cell[f]]
  /\ UNCHANGED <<file, flips>>

Init ==
  /\ pc = [p \in Procs |-> "off"]
  /\ frame = [p \in Procs |-> [g \in Pages |-> 0]]
  /\ ipage = [p \in Procs |-> 0] /\ ipass = [p \in Procs |-> 0]
  /\ opage = [p \in Procs |-> 0] /\ opass = [p \in Procs |-> 0]
  /\ retard = [p \in Procs |-> 0]
  /\ n_errors = [p \in Procs |-> 0]
  /\ v = [p \in Procs |-> 0]
  /\ cell = [f \in Frames |-> Blank]
  /\ stats = [k \in 0..(2 * NFrames - 1) |-> 0]
  /\ tested = [f \in Frames |-> 0]
  /\ flips = [f \in Frames |-> 0]

-----------------------------------------------------------------------------
(* main up to do_tests: the kernel gives the process zeroed frames nobody  *)
(* else has locked, and look_for_pages finds those that are not hidden.    *)
Start(p) ==
  /\ At(p, "off")
  /\ \E place \in [Pages -> Frames \ Locked] :
       /\ \A g, h \in Pages : g # h => place[g] # place[h]
       /\ frame' = [frame EXCEPT ![p] = place]
  /\ retard' = [retard EXCEPT ![p] = NPages - 1]
  /\ Goto(p, "fill")
  /\ UNCHANGED <<ipage, ipass, opage, opass, n_errors, v, cell, file, flips>>

(* The first half of an iteration: fill a page, then continue while the    *)
(* ring is not full.                                                       *)
Fill(p) ==
  /\ At(p, "fill")
  /\ ipass[p] < MaxPass
  /\ cell' = [cell EXCEPT ![frame[p][ipage[p]]] =
                [seed |-> Seed(p, ipage[p], ipass[p]), bad |-> {}]]
  /\ ipage' = [ipage EXCEPT ![p] = NextPage(@)]
  /\ ipass' = [ipass EXCEPT ![p] = @ + 1]
  /\ IF retard[p] > 0
     THEN /\ retard' = [retard EXCEPT ![p] = @ - 1]
          /\ UNCHANGED pc
     ELSE /\ Goto(p, "compare")
          /\ UNCHANGED retard
  /\ UNCHANGED <<frame, opage, opass, n_errors, v, file, flips>>

(* Mutant: the stream is prepared from the pass being filled. *)
ExpectedNow(p) == Seed(p, opage[p], ipass[p])

Expected(p) == Seed(p, opage[p], opass[p])

(* The bits of the page that differ from the expected stream now.  A page  *)
(* filled from another seed differs in so many that all are counted.       *)
Differing(p) ==
  IF cell[OFrame(p)].seed = Expected(p) THEN cell[OFrame(p)].bad ELSE Bits

(* After the comparison, or after the bad bits: record_checked if the page *)
(* was found, else the end of the iteration.                               *)
GoOn(p) ==
  IF Found(p)
  THEN /\ Goto(p, "checkread")
       /\ UNCHANGED <<opage, opass>>
  ELSE /\ Goto(p, "fill")
       /\ opage' = [opage EXCEPT ![p] = NextPage(@)]
       /\ opass' = [opass EXCEPT ![p] = @ + 1]

(* memcmp *)
Compare(p) ==
  /\ At(p, "compare")
  /\ IF Differing(p) = {}
     THEN GoOn(p)
     ELSE /\ Goto(p, "count")
          /\ UNCHANGED <<opage, opass>>
  /\ UNCHANGED <<frame, ipage, ipass, retard, n_errors, v, cell, file, flips>>

(* Mutant: n_errors is not reset before the loop. *)
CountOn(p) ==
  /\ At(p, "count")
  /\ n_errors' = [n_errors EXCEPT ![p] = @ + Cardinality(Differing(p))]
  /\ Cardinality(Differing(p)) <= MaxBugsPanic
  /\ IF Found(p)
     THEN /\ Goto(p, "badread")
          /\ UNCHANGED <<opage, opass>>
     ELSE GoOn(p)
  /\ UNCHANGED <<frame, ipage, ipass, retard, v, cell, file, flips>>

(* Mutant: no limit on the bad bits of a page. *)
CountAll(p) ==
  /\ At(p, "count")
  /\ n_errors' = [n_errors EXCEPT ![p] = Cardinality(Differing(p))]
  /\ IF Found(p)
     THEN /\ Goto(p, "badread")
          /\ UNCHANGED <<opage, opass>>
     ELSE GoOn(p)
  /\ UNCHANGED <<frame, ipage, ipass, retard, v, cell, file, flips>>

(* The loop over the bytes, which reads the memory again; with too many    *)
(* bad bits at once the process exits before it records anything.          *)
Count(p) ==
  /\ At(p, "count")
  /\ n_errors' = [n_errors EXCEPT ![p] = Cardinality(Differing(p))]
  /\ Cardinality(Differing(p)) <= MaxBugsPanic
  /\ IF Found(p)
     THEN /\ Goto(p, "badread")
          /\ UNCHANGED <<opage, opass>>
     ELSE GoOn(p)
  /\ UNCHANGED <<frame, ipage, ipass, retard, v, cell, file, flips>>

Panic(p) ==
  /\ At(p, "count")
  /\ Cardinality(Differing(p)) > MaxBugsPanic
  /\ Exit(p)

(* Mutant: the sum is stored as it is. *)
IncrementedPlain(old, inc) == (old + inc) % IntMod

(* record_incr: the new value of a counter, saturated when the sum wraps   *)
(* round an unsigned long and cut to INT_SIZE bytes when it is stored.     *)
Incremented(old, inc) ==
  LET v2 == (old + inc) % LongMod
  IN  IF v2 < old THEN IntMod - 1 ELSE v2 % IntMod

(* Mutant: one counter too far. *)
BadOffsetNext(f) == 2 * f + 2

BadOffset(f)   == 2 * f + 1
CheckOffset(f) == 2 * f

ReadCounter(p, offset) ==
  /\ v' = [v EXCEPT ![p] = stats[offset]]
  /\ UNCHANGED <<frame, ring, n_errors, cell, file, flips>>

(* record_bad_bits *)
BadRead(p) ==
  /\ At(p, "badread")
  /\ ReadCounter(p, BadOffset(OFrame(p)))
  /\ Goto(p, "badwrite")

BadWrite(p) ==
  /\ At(p, "badwrite")
  /\ stats' = [stats EXCEPT ![BadOffset(OFrame(p))] = Incremented(v[p], n_errors[p])]
  /\ Goto(p, "checkread")
  /\ UNCHANGED <<frame, ring, n_errors, v, cell, tested, flips>>

(* record_checked, and the end of the iteration. *)
CheckRead(p) ==
  /\ At(p, "checkread")
  /\ ReadCounter(p, CheckOffset(OFrame(p)))
  /\ Goto(p, "checkwrite")

CheckWrite(p) ==
  /\ At(p, "checkwrite")
  /\ stats' = [stats EXCEPT ![CheckOffset(OFrame(p))] = Incremented(v[p], 1)]
  /\ tested' = [tested EXCEPT ![OFrame(p)] = IF @ < IntMod - 1 THEN @ + 1 ELSE @]
  /\ opage' = [opage EXCEPT ![p] = NextPage(@)]
  /\ opass' = [opass EXCEPT ![p] = @ + 1]
  /\ Goto(p, "fill")
  /\ UNCHANGED <<frame, ipage, ipass, retard, n_errors, v, cell, flips>>

(* The process is killed, at any point.                                    *)
Kill(p) ==
  /\ ~At(p, "off")
  /\ Exit(p)

(* A bit of a locked frame changes by itself. *)
Flip ==
  \E f \in Locked, b \in Bits :
    /\ SumFunction(flips) < MaxFlips
    /\ cell' = [cell EXCEPT ![f].bad =
                  IF b \in @ THEN @ \ {b} ELSE @ \cup {b}]
    /\ flips' = [flips EXCEPT ![f] = @ + 1]
    /\ UNCHANGED <<pc, frame, ring, n_errors, v, file>>

Step(p) ==
  \/ Start(p) \/ Fill(p) \/ Compare(p) \/ Count(p) \/ Panic(p)
  \/ BadRead(p) \/ BadWrite(p) \/ CheckRead(p) \/ CheckWrite(p)
  \/ Kill(p)

Next == (\E p \in Procs : Step(p)) \/ Flip

Spec == Init /\ [][Next]_vars

-----------------------------------------------------------------------------
Places == {"off", "fill", "compare", "count", "badread", "badwrite", "checkread",
           "checkwrite"}

Content == [seed : {NoSeed} \cup (Procs \X Pages \X Nat), bad : SUBSET Bits]

TypeOK ==
  /\ pc \in [Procs -> Places]
  /\ frame \in [Procs -> [Pages -> Frames]]
  /\ ipage \in [Procs -> Pages]
  /\ opage \in [Procs -> Pages]
  /\ ipass \in [Procs -> Nat]
  /\ opass \in [Procs -> Nat]
  /\ retard \in [Procs -> Pages]
  /\ n_errors \in [Procs -> Nat]
  /\ v \in [Procs -> 0..(IntMod - 1)]
  /\ cell \in [Frames -> Content]
  /\ stats \in [0..(2 * NFrames - 1) -> 0..(IntMod - 1)]
  /\ tested \in [Frames -> 0..(IntMod - 1)]
  /\ flips \in [Frames -> Nat]

(* Every page is compared with the stream it was filled from, although the *)
(* process recomputes that stream from two counters of its own that run    *)
(* NPages - 1 fills behind: a difference is a change of the memory.        *)
ComparesOwnFill ==
  \A p \in Procs :
    pc[p] \in {"compare", "count"} => cell[OFrame(p)].seed = Expected(p)

(* "It should be ok to run two urumt at the same time on the same          *)
(* statistics file" (rumt.html:144): although the counters are read and    *)
(* written back without a lock, and processes are killed between the two   *)
(* and started again on frames others have left, the file holds the number *)
(* of completed tests of every frame, saturated at the largest counter.    *)
EveryTestCounted == \A f \in Frames : stats[2 * f] = tested[f]

(* No bad bit is recorded in a frame but for one that flipped there, and   *)
(* none is counted twice by passes that meet the same flip.                *)
NoFalseAlarm == \A f \in Frames : stats[2 * f + 1] <= flips[f]

(* "you do not want your statistics ruined" (rumt.html:133): one check     *)
(* adds at most max_bugs_panic bad bits.                                   *)
StatsNotRuined ==
  [][\A f \in Frames : stats'[2 * f + 1] <= stats[2 * f + 1] + MaxBugsPanic]_vars

(* The counters are "the total number of times that page has been tested"  *)
(* and of "errors found in that page" (rumt.html:139): no counter ever     *)
(* goes down, whatever the processes do and however large it is.           *)
TotalsNeverFall == [][\A k \in DOMAIN stats : stats'[k] >= stats[k]]_vars
=============================================================================
