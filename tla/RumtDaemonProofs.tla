-------------------------- MODULE RumtDaemonProofs --------------------------
(***************************************************************************)
(* Proofs about RumtDaemon for any set of bits, any number of rounds and   *)
(* changes, and any faults: the memory is compared with the seed it was    *)
(* filled from, no file says anything that was not reported, and the table *)
(* says all of it as long as nothing goes wrong.                           *)
(***************************************************************************)
EXTENDS RumtDaemon, TLAPS

(* The contents of a file that is there.                                   *)
TableContents == UNION {[B -> Entry] : B \in SUBSET Bits}
Outputs       == UNION {[B -> Signs] : B \in SUBSET Tested}

(* The files a command of the script reads are there when it runs.         *)
FilesThere ==
  /\ pc \notin {"off", "mv2"} => BAD_BITS \in TableContents
  /\ pc \in {"write", "fusion", "close"} => TRYMEM_OUT \in Outputs
  /\ pc \in {"mv1", "mv2"} => BAD_NEW \in TableContents
  /\ pc \notin {"off", "loop"} => SEED # 0

(* What the memory was filled from, as the script goes on, and no stray    *)
(* was there when it started.                                              *)
Filled ==
  ~crowded =>
    /\ pc \in {"sleep", "fusion", "close", "test", "mv1", "mv2"} => written = SEED
    /\ pc \in {"loop", "check"} /\ OLD_SEED # 0 => written = OLD_SEED

(* The strays are the past's: they end before the second round.            *)
StraysEnd ==
  /\ pc = "check" => OLD_SEED # 0
  /\ pc = "prepare" => OLD_SEED = 0
  /\ pc \in {"check", "write", "fusion", "close", "test", "mv1", "mv2"} => strays = {}
  /\ pc = "loop" /\ OLD_SEED # 0 => strays = {}
  /\ pc # "off" /\ ~crowded => strays = {}
  /\ ~faulted => strays = {}

(* The lines rumt_fusion is merging have been reported.                    *)
Lines(out, seed) == {<<b, out[b], seed>> : b \in DOMAIN out}

LinesReported == pc = "close" => Lines(TRYMEM_OUT, SEED) \subseteq reported

(* What NothingInvented says of one table, for a set of reports.           *)
SignsIn(R, b)  == {r[2] : r \in {q \in R : q[1] = b}}
StampsIn(R, b) == {r[3] : r \in {q \in R : q[1] = b}}

Honest(T, R) ==
  \A b \in DOMAIN T :
    /\ T[b].stamp \in StampsIn(R, b)
    /\ IF T[b].sign = "*" THEN SignsIn(R, b) = Signs ELSE T[b].sign \in SignsIn(R, b)

(* A file that is there is honest, also in the eyes of who reads NoFile    *)
(* as a content.                                                           *)
HonestThere ==
  /\ pc \notin {"off", "mv2"} => Honest(BAD_BITS, reported)
  /\ pc \in {"mv1", "mv2"} => Honest(BAD_NEW, reported)

IInv ==
  /\ TypeOK /\ FilesThere /\ Filled /\ StraysEnd
  /\ LinesReported /\ HonestThere /\ NothingInvented

Reports == Tested \X Signs \X (1..MaxRounds)

-----------------------------------------------------------------------------
LEMMA NothingInventedIs ==
  NothingInvented <=>
    \A T \in {BAD_BITS, BAD_NEW, BAD_OLD} \ {NoFile} : Honest(T, reported)
  BY DEF NothingInvented, Honest, SignsOf, StampsOf, SignsIn, StampsIn

LEMMA NothingInventedNext ==
  NothingInvented' <=>
    \A T \in {BAD_BITS', BAD_NEW', BAD_OLD'} \ {NoFile} : Honest(T, reported')
  BY DEF NothingInvented, Honest, SignsOf, StampsOf, SignsIn, StampsIn

(* More reports make no honest table dishonest.                            *)
LEMMA HonestMore ==
  ASSUME NEW T, NEW R, NEW S, R \subseteq S, S \subseteq Reports, Honest(T, R)
  PROVE  Honest(T, S)
<1> SUFFICES ASSUME NEW b \in DOMAIN T
             PROVE  /\ T[b].stamp \in StampsIn(S, b)
                    /\ IF T[b].sign = "*" THEN SignsIn(S, b) = Signs
                       ELSE T[b].sign \in SignsIn(S, b)
  BY DEF Honest
<1>1. StampsIn(R, b) \subseteq StampsIn(S, b)
  BY DEF StampsIn
<1>2. SignsIn(R, b) \subseteq SignsIn(S, b)
  BY DEF SignsIn
<1>3. SignsIn(S, b) \subseteq Signs
  <2>1. \A r \in S : r[2] \in Signs
    BY DEF Reports
  <2> QED
    BY <2>1 DEF SignsIn
<1>4. /\ T[b].stamp \in StampsIn(R, b)
      /\ IF T[b].sign = "*" THEN SignsIn(R, b) = Signs ELSE T[b].sign \in SignsIn(R, b)
  BY DEF Honest
<1>5. T[b].stamp \in StampsIn(S, b)
  BY <1>1, <1>4
<1>6. CASE T[b].sign = "*"
  <2>1. SignsIn(S, b) = Signs
    BY <1>2, <1>3, <1>4, <1>6
  <2> QED
    BY <1>5, <1>6, <2>1
<1>7. CASE T[b].sign # "*"
  <2>1. T[b].sign \in SignsIn(S, b)
    BY <1>2, <1>4, <1>7
  <2> QED
    BY <1>5, <1>7, <2>1
<1> QED
  BY <1>6, <1>7

LEMMA EmptyHonest ==
  ASSUME NEW R
  PROVE  Honest(Empty, R)
<1>1. DOMAIN Empty = {}
  BY DEF Empty
<1> QED
  BY <1>1 DEF Honest

LEMMA EmptyContents == Empty \in TableContents
<1>1. Empty \in [{} -> Entry]
  BY DEF Empty
<1> QED
  BY <1>1 DEF TableContents

(* The output of rumt_trymem lists bits it looks at and how they read.     *)
LEMMA PrintedOutput ==
  ASSUME NEW m \in [Bits -> Signs \cup {"ok"}]
  PROVE  Printed(m) \in Outputs
<1> DEFINE B == {c \in Tested : m[c] # "ok"}
<1>1. Printed(m) \in [B -> Signs]
  BY DEF Printed, Tested
<1>2. B \in SUBSET Tested
  OBVIOUS
<1> QED
  BY <1>1, <1>2 DEF Outputs

(* So does what it prints when it checks against any seed.                 *)
LEMMA CheckedOutput ==
  ASSUME TypeOK, NEW seed, CheckAreas(seed)
  PROVE  TRYMEM_OUT' \in Outputs
<1>1. Printed(mem) \in Outputs
  BY PrintedOutput DEF TypeOK
<1> QED
  BY <1>1 DEF CheckAreas, Outputs, Signs

(* A part of a table is a table, and as honest.                            *)
LEMMA PartOfTable ==
  ASSUME NEW T \in TableContents, NEW B \in SUBSET DOMAIN T, NEW R
  PROVE  /\ [b \in B |-> T[b]] \in TableContents
         /\ Honest(T, R) => Honest([b \in B |-> T[b]], R)
<1>1. PICK A \in SUBSET Bits : T \in [A -> Entry]
  BY DEF TableContents
<1>2. B \in SUBSET Bits /\ B \subseteq A
  BY <1>1
<1>3. [b \in B |-> T[b]] \in [B -> Entry]
  BY <1>1, <1>2
<1>4. [b \in B |-> T[b]] \in TableContents
  BY <1>2, <1>3 DEF TableContents
<1> QED
  BY <1>4 DEF Honest

(* The merge of a table and an output is a table.                          *)
LEMMA FusionType ==
  ASSUME NEW old \in TableContents, NEW new \in Outputs, NEW stamp \in 1..MaxRounds
  PROVE  Fusion(old, new, stamp) \in TableContents
<1>1. PICK A \in SUBSET Bits : old \in [A -> Entry]
  BY DEF TableContents
<1>2. PICK B \in SUBSET Tested : new \in [B -> Signs]
  BY DEF Outputs
<1>3. A \cup B \in SUBSET Bits
  BY DEF Tested
<1>4. ASSUME NEW b \in A \cup B
      PROVE  Fusion(old, new, stamp)[b] \in Entry
  <2>1. CASE b \notin A
    BY <1>1, <1>2, <2>1 DEF Fusion, Entry
  <2>2. CASE b \in A
    <3>1. old[b] \in Entry
      BY <1>1, <2>2
    <3>2. [old[b] EXCEPT !.sign = "*"] \in Entry
      BY <3>1 DEF Entry
    <3> QED
      BY <1>1, <1>2, <2>2, <3>1, <3>2 DEF Fusion
  <2> QED
    BY <2>1, <2>2
<1>5. Fusion(old, new, stamp) \in [A \cup B -> Entry]
  BY <1>1, <1>2, <1>4 DEF Fusion
<1> QED
  BY <1>3, <1>5 DEF TableContents

(* It says nothing but what the table said and the lines report.           *)
LEMMA FusionHonest ==
  ASSUME NEW old \in TableContents, NEW new \in Outputs, NEW stamp \in 1..MaxRounds,
         NEW R, R \subseteq Reports, Honest(old, R), Lines(new, stamp) \subseteq R
  PROVE  Honest(Fusion(old, new, stamp), R)
<1> DEFINE T == Fusion(old, new, stamp)
<1>1. PICK A \in SUBSET Bits : old \in [A -> Entry]
  BY DEF TableContents
<1>2. PICK B \in SUBSET Tested : new \in [B -> Signs]
  BY DEF Outputs
<1>3. DOMAIN T = A \cup B
  BY <1>1, <1>2 DEF Fusion
<1>4. ASSUME NEW b \in B
      PROVE  new[b] \in SignsIn(R, b) /\ stamp \in StampsIn(R, b)
  <2>1. <<b, new[b], stamp>> \in R
    BY <1>2 DEF Lines
  <2> QED
    BY <2>1 DEF SignsIn, StampsIn
<1>5. ASSUME NEW b
      PROVE  SignsIn(R, b) \subseteq Signs
  <2>1. \A r \in R : r[2] \in Signs
    BY DEF Reports
  <2> QED
    BY <2>1 DEF SignsIn
<1>6. ASSUME NEW b \in A \cup B
      PROVE  /\ T[b].stamp \in StampsIn(R, b)
             /\ IF T[b].sign = "*" THEN SignsIn(R, b) = Signs
                ELSE T[b].sign \in SignsIn(R, b)
  <2>1. CASE b \notin A
    <3>1. T[b] = [sign |-> new[b], stamp |-> stamp] /\ b \in B
      BY <1>1, <1>2, <2>1 DEF Fusion
    <3>2. new[b] # "*"
      BY <1>2, <3>1 DEF Signs
    <3> QED
      BY <1>4, <3>1, <3>2
  <2>2. CASE b \in A
    <3>1. /\ old[b] \in Entry
          /\ old[b].stamp \in StampsIn(R, b)
          /\ IF old[b].sign = "*" THEN SignsIn(R, b) = Signs
             ELSE old[b].sign \in SignsIn(R, b)
      BY <1>1, <2>2 DEF Honest
    <3>2. CASE b \in B /\ old[b].sign \notin {"*", new[b]}
      <4>1. T[b] = [old[b] EXCEPT !.sign = "*"]
        BY <1>1, <1>2, <2>2, <3>2 DEF Fusion
      <4>2. T[b].sign = "*" /\ T[b].stamp = old[b].stamp
        BY <3>1, <4>1 DEF Entry
      <4>3. SignsIn(R, b) = Signs
        <5>1. /\ old[b].sign \in SignsIn(R, b) /\ new[b] \in SignsIn(R, b)
              /\ old[b].sign # new[b]
          BY <1>4, <3>1, <3>2
        <5>2. SignsIn(R, b) \subseteq Signs
          BY <1>5
        <5> QED
          BY <5>1, <5>2 DEF Signs
      <4> QED
        BY <3>1, <4>2, <4>3
    <3>3. CASE ~(b \in B /\ old[b].sign \notin {"*", new[b]})
      <4>1. T[b] = old[b]
        BY <1>1, <1>2, <2>2, <3>3 DEF Fusion
      <4> QED
        BY <3>1, <4>1
    <3> QED
      BY <3>2, <3>3
  <2> QED
    BY <2>1, <2>2
<1> QED
  BY <1>3, <1>6 DEF Honest

-----------------------------------------------------------------------------
LEMMA InitHolds == Init => IInv
<1> SUFFICES ASSUME Init PROVE IInv
  OBVIOUS
<1> USE RumtDaemonAssumption DEF Init
<1>1. TypeOK
  <2>1. mem \in [Bits -> Signs \cup {"ok"}]
    BY DEF Sound
  <2>2. NoFile \in Tables
    BY DEF Tables
  <2>3. /\ 0 \in 0..MaxRounds /\ 0 \in 0..MaxFlips
        /\ FALSE \in BOOLEAN
    OBVIOUS
  <2>4. faulted \in BOOLEAN /\ flips \in 0..MaxFlips
    BY <2>3
  <2>5. /\ SEED \in 0..MaxRounds /\ OLD_SEED \in 0..MaxRounds
        /\ written \in 0..MaxRounds
    BY <2>3
  <2>6. TRYMEM_OUT = NoFile /\ reported = {}
    OBVIOUS
  <2>7. strays \subseteq Stray /\ crowded \in BOOLEAN
    BY <2>3
  <2> QED
    BY <2>1, <2>2, <2>4, <2>5, <2>6, <2>7 DEF TypeOK
<1>2. FilesThere /\ Filled /\ StraysEnd /\ LinesReported /\ HonestThere
  BY DEF FilesThere, Filled, StraysEnd, LinesReported, HonestThere
<1>3. NothingInvented
  BY NothingInventedIs
<1> QED
  BY <1>1, <1>2, <1>3 DEF IInv

(* The merge, in a state in which rumt_fusion runs.                        *)
LEMMA MergedContents ==
  ASSUME IInv, pc \in {"fusion", "close"}
  PROVE  Merged \in TableContents
<1>1. BAD_BITS \in TableContents /\ TRYMEM_OUT \in Outputs
  BY DEF IInv, FilesThere
<1>2. SEED \in 1..MaxRounds
  BY RumtDaemonAssumption DEF IInv, TypeOK, FilesThere
<1> QED
  BY <1>1, <1>2, FusionType DEF Merged

(* Every file stays a table, and every line a line.                        *)
LEMMA TypeStep == IInv /\ [Next]_vars => TypeOK'
<1> SUFFICES ASSUME IInv, [Next]_vars PROVE TypeOK'
  OBVIOUS
<1> USE RumtDaemonAssumption DEF At, late
<1>0. TypeOK /\ FilesThere
  BY DEF IInv
<1>a. Tables = {NoFile} \cup TableContents
  BY DEF Tables, TableContents
<1>b. Empty \in Tables
  BY <1>a, EmptyContents
<1>1. CASE Start
  BY <1>0, <1>1, <1>b DEF TypeOK, Start, memory, history
<1>2. CASE Loop
  BY <1>0, <1>2 DEF TypeOK, Loop, memory, files
<1>3. CASE Prepare
  BY <1>0, <1>3 DEF TypeOK, Prepare, WriteAreas, Sound, files, history
<1>4. CASE Check
  <2>1. TRYMEM_OUT' \in Outputs
    BY <1>0, <1>4, CheckedOutput DEF Check
  <2> QED
    BY <1>0, <1>4, <2>1 DEF TypeOK, Check, memory, history, Outputs
<1>5. CASE Write
  BY <1>0, <1>5 DEF TypeOK, Write, WriteAreas, Sound, files, history
<1>6. CASE FusionOpen
  <2>1. SEED \in 1..MaxRounds
    BY <1>0, <1>6 DEF FusionOpen, FilesThere, TypeOK
  <2>2. PICK B \in SUBSET Tested : TRYMEM_OUT \in [B -> Signs]
    BY <1>0, <1>6 DEF FusionOpen, FilesThere, Outputs
  <2>3. {<<b, TRYMEM_OUT[b], SEED>> : b \in DOMAIN TRYMEM_OUT}
          \subseteq Tested \X Signs \X (1..MaxRounds)
    BY <2>1, <2>2
  <2>4. reported' \subseteq Tested \X Signs \X (1..MaxRounds)
    BY <1>0, <1>6, <2>3 DEF FusionOpen, TypeOK
  <2> QED
    BY <1>0, <1>6, <1>b, <2>4 DEF TypeOK, FusionOpen, memory
<1>7. CASE FusionClose
  <2>1. Merged \in Tables
    BY <1>7, <1>a, MergedContents DEF FusionClose
  <2> QED
    BY <1>0, <1>7, <2>1 DEF TypeOK, FusionClose, memory, history
<1>8. CASE FusionDies
  BY <1>0, <1>8 DEF TypeOK, FusionDies, memory, files
<1>9. CASE Test
  BY <1>0, <1>9 DEF TypeOK, Test, memory, files, history
<1>10. CASE Mv1
  BY <1>0, <1>10, <1>a DEF TypeOK, Mv1, memory, history
<1>11. CASE Mv2
  BY <1>0, <1>11, <1>a DEF TypeOK, Mv2, memory, history
<1>12. CASE Sleep
  BY <1>0, <1>12 DEF TypeOK, Sleep, memory, files, history
<1>13. CASE Quit
  BY <1>0, <1>13 DEF TypeOK, Quit, memory, files, history
<1>14. CASE Stop
  BY <1>0, <1>14 DEF TypeOK, Stop, memory, files
<1>15. CASE Flip
  <2>1. PICK b \in Bits, s \in {"+", "-"} :
          /\ flips < MaxFlips /\ flips' = flips + 1
          /\ mem' = [mem EXCEPT ![b] = IF @ = "ok" THEN s ELSE "ok"]
          /\ UNCHANGED <<pc, late, SEED, OLD_SEED, written, files, history>>
    BY <1>15 DEF Flip
  <2>2. mem' \in [Bits -> Signs \cup {"ok"}]
    BY <1>0, <2>1 DEF TypeOK, Signs
  <2>3. flips' \in 0..MaxFlips
    BY <1>0, <2>1 DEF TypeOK
  <2> QED
    BY <1>0, <2>1, <2>2, <2>3 DEF TypeOK, files, history
<1>16. CASE FusionPrints
  <2>1. PICK B \in SUBSET DOMAIN Merged : BAD_NEW' = [b \in B |-> Merged[b]]
    BY <1>16 DEF FusionPrints
  <2>2. BAD_NEW' \in Tables
    BY <1>16, <1>a, <2>1, MergedContents, PartOfTable DEF FusionPrints
  <2> QED
    BY <1>0, <1>16, <2>2 DEF TypeOK, FusionPrints, memory, history
<1>17. CASE Kill
  <2>1. SEED \in 1..MaxRounds
    BY <1>0, <1>17 DEF Kill, FilesThere, TypeOK
  <2>2. [at   |-> IF At("check") THEN "check" ELSE "write",
         old  |-> OLD_SEED,
         seed |-> SEED] \in Stray
    BY <1>0, <2>1 DEF TypeOK, Stray
  <2>3. strays' \subseteq Stray
    BY <1>0, <1>17, <2>2 DEF TypeOK, Kill
  <2> QED
    BY <1>0, <1>17, <2>3 DEF TypeOK, Kill, memory, files
<1>18. CASE StrayCheck
  <2>1. PICK s \in strays :
          /\ CheckAreas(s.old)
          /\ strays' = (strays \ {s}) \cup {[s EXCEPT !.at = "write"]}
          /\ UNCHANGED <<pc, memory, crowded, SEED, OLD_SEED, BAD_BITS, BAD_NEW, BAD_OLD,
                         history>>
    BY <1>18 DEF StrayCheck
  <2>2. TRYMEM_OUT' \in Outputs
    BY <1>0, <2>1, CheckedOutput
  <2>3. s \in Stray
    BY <1>0, <2>1 DEF TypeOK
  <2>4. [s EXCEPT !.at = "write"] \in Stray
    BY <2>3 DEF Stray
  <2>5. strays' \subseteq Stray
    BY <1>0, <2>1, <2>4 DEF TypeOK
  <2> QED
    BY <1>0, <2>1, <2>2, <2>5 DEF TypeOK, memory, history, Outputs
<1>19. CASE StrayWrite
  <2>1. PICK s \in strays :
          /\ WriteAreas(s.seed)
          /\ strays' = strays \ {s}
          /\ UNCHANGED <<pc, flips, crowded, SEED, OLD_SEED, files, history>>
    BY <1>19 DEF StrayWrite
  <2>2. s.seed \in 0..MaxRounds
    BY <1>0, <2>1 DEF TypeOK, Stray
  <2>3. written' \in 0..MaxRounds /\ mem' \in [Bits -> Signs \cup {"ok"}]
    BY <2>1, <2>2 DEF WriteAreas, Sound
  <2> QED
    BY <1>0, <2>1, <2>3 DEF TypeOK, files, history
<1>20. CASE UNCHANGED vars
  BY <1>0, <1>20 DEF TypeOK, vars, memory, files, history
<1> QED
  BY <1>1, <1>2, <1>3, <1>4, <1>5, <1>6, <1>7, <1>8, <1>9, <1>10, <1>11, <1>12,
     <1>13, <1>14, <1>15, <1>16, <1>17, <1>18, <1>19, <1>20 DEF Next

(* Where the script is tells which files are there and what is in memory.  *)
LEMMA ControlStep ==
  IInv /\ [Next]_vars => FilesThere' /\ Filled' /\ StraysEnd' /\ LinesReported'
<1> SUFFICES ASSUME IInv, [Next]_vars
             PROVE  FilesThere' /\ Filled' /\ StraysEnd' /\ LinesReported'
  OBVIOUS
<1> USE RumtDaemonAssumption DEF At, late, FilesThere, Filled, StraysEnd, LinesReported
<1>0. TypeOK /\ FilesThere /\ Filled /\ StraysEnd /\ LinesReported
  BY DEF IInv
<1>a. Tables = {NoFile} \cup TableContents
  BY DEF Tables, TableContents
<1>1. CASE Start
  BY <1>0, <1>1, <1>a, EmptyContents DEF TypeOK, Start, memory, history
<1>2. CASE Loop
  BY <1>0, <1>2 DEF TypeOK, Loop, memory, files
<1>3. CASE Prepare
  BY <1>0, <1>3 DEF TypeOK, Prepare, WriteAreas, files, history
<1>4. CASE Check
  <2>1. TRYMEM_OUT' \in Outputs
    BY <1>0, <1>4, CheckedOutput DEF Check
  <2> QED
    BY <1>0, <1>4, <2>1 DEF TypeOK, Check, memory, history
<1>5. CASE Write
  BY <1>0, <1>5 DEF TypeOK, Write, WriteAreas, files, history
<1>6. CASE FusionOpen
  BY <1>0, <1>6 DEF TypeOK, FusionOpen, memory, Lines
<1>7. CASE FusionClose
  BY <1>0, <1>7 DEF TypeOK, FusionClose, memory, history
<1>8. CASE FusionDies
  BY <1>0, <1>8 DEF TypeOK, FusionDies, memory, files
<1>9. CASE Test
  BY <1>0, <1>9, <1>a DEF TypeOK, Test, memory, files, history
<1>10. CASE Mv1
  BY <1>0, <1>10 DEF TypeOK, Mv1, memory, history
<1>11. CASE Mv2
  BY <1>0, <1>11 DEF TypeOK, Mv2, memory, history
<1>12. CASE Sleep
  BY <1>0, <1>12 DEF TypeOK, Sleep, memory, files, history
<1>13. CASE Quit
  BY <1>0, <1>13 DEF TypeOK, Quit, memory, files, history
<1>14. CASE Stop
  BY <1>0, <1>14 DEF TypeOK, Stop, memory, files
<1>15. CASE Flip
  BY <1>0, <1>15 DEF TypeOK, Flip, files, history
<1>16. CASE FusionPrints
  BY <1>0, <1>16 DEF TypeOK, FusionPrints, memory, history
<1>17. CASE Kill
  BY <1>0, <1>17 DEF TypeOK, Kill, memory, files
<1>18. CASE StrayCheck
  <2>1. strays # {} /\ UNCHANGED <<pc, written, SEED, OLD_SEED, BAD_BITS, BAD_NEW, faulted,
                                  crowded, reported>>
    BY <1>18 DEF StrayCheck, memory, history
  <2> QED
    BY <1>0, <2>1
<1>19. CASE StrayWrite
  <2>1. /\ strays # {} /\ strays' \subseteq strays
        /\ UNCHANGED <<pc, SEED, OLD_SEED, TRYMEM_OUT, BAD_BITS, BAD_NEW, faulted, crowded,
                       reported>>
    BY <1>19 DEF StrayWrite, files, history
  <2> QED
    BY <1>0, <2>1
<1>20. CASE UNCHANGED vars
  BY <1>0, <1>20 DEF TypeOK, vars, memory, files, history
<1> QED
  BY <1>1, <1>2, <1>3, <1>4, <1>5, <1>6, <1>7, <1>8, <1>9, <1>10, <1>11, <1>12,
     <1>13, <1>14, <1>15, <1>16, <1>17, <1>18, <1>19, <1>20 DEF Next

(* No step makes a file say what was not reported: a file is moved, made   *)
(* empty, or gets the merge.                                               *)
LEMMA HonestStep == IInv /\ [Next]_vars => HonestThere' /\ NothingInvented'
<1> SUFFICES ASSUME IInv, [Next]_vars PROVE HonestThere' /\ NothingInvented'
  OBVIOUS
<1> DEFINE Old == {BAD_BITS, BAD_NEW, BAD_OLD} \ {NoFile}
<1>1. /\ \A T \in Old : Honest(T, reported)
      /\ HonestThere
  BY NothingInventedIs DEF IInv
<1>2. reported' \subseteq Reports
  BY TypeStep DEF TypeOK, Reports
<1>3. reported \subseteq reported'
  BY DEF Next, vars, history, Start, Loop, Prepare, Check, Write, FusionOpen,
         FusionPrints, FusionClose, FusionDies, Test, Mv1, Mv2, Sleep, Quit, Stop, Kill,
         StrayCheck, StrayWrite, Flip
<1>4. /\ \A T \in Old : Honest(T, reported')
      /\ pc \notin {"off", "mv2"} => Honest(BAD_BITS, reported')
      /\ pc \in {"mv1", "mv2"} => Honest(BAD_NEW, reported')
  BY <1>1, <1>2, <1>3, HonestMore DEF HonestThere
<1>5. Honest(Empty, reported')
  BY EmptyHonest
<1>6. ASSUME FusionClose \/ FusionPrints
      PROVE  Honest(Merged, reported')
  <2>1. /\ BAD_BITS \in TableContents /\ TRYMEM_OUT \in Outputs
        /\ SEED \in 1..MaxRounds
        /\ Lines(TRYMEM_OUT, SEED) \subseteq reported
        /\ pc \notin {"off", "mv2"}
    BY <1>6, RumtDaemonAssumption
    DEF IInv, FilesThere, TypeOK, LinesReported, FusionClose, FusionPrints, At
  <2> QED
    BY <1>2, <1>3, <1>4, <2>1, FusionHonest DEF Merged
<1>a. ASSUME FusionPrints
      PROVE  Honest(BAD_NEW', reported')
  <2>1. PICK B \in SUBSET DOMAIN Merged : BAD_NEW' = [b \in B |-> Merged[b]]
    BY <1>a DEF FusionPrints
  <2>2. Merged \in TableContents
    BY <1>a, MergedContents DEF FusionPrints, At
  <2> QED
    BY <1>6, <1>a, <2>1, <2>2, PartOfTable
<1>7. {BAD_BITS', BAD_NEW', BAD_OLD'} \subseteq
        {BAD_BITS, BAD_NEW, BAD_OLD, NoFile, Empty}
          \cup (IF FusionClose THEN {Merged} ELSE {})
          \cup (IF FusionPrints THEN {BAD_NEW'} ELSE {})
  <2>1. CASE FusionPrints
    BY <2>1 DEF FusionPrints
  <2>2. CASE FusionClose
    BY <2>2 DEF FusionClose
  <2>3. CASE ~FusionPrints /\ ~FusionClose
    BY <2>3 DEF Next, vars, files, Start, Loop, Prepare, Check, Write, FusionOpen,
           FusionDies, Test, Mv1, Mv2, Sleep, Quit, Stop, Kill, StrayCheck,
           StrayWrite, Flip
  <2> QED
    BY <2>1, <2>2, <2>3
<1>8. NothingInvented'
  <2>1. \A T \in {BAD_BITS', BAD_NEW', BAD_OLD'} \ {NoFile} : Honest(T, reported')
    BY <1>4, <1>5, <1>6, <1>7, <1>a
  <2> QED
    BY <2>1, NothingInventedNext
<1>9. HonestThere'
  <2> USE DEF HonestThere, At
  <2>1. CASE Start
    BY <1>4, <1>5, <2>1 DEF Start
  <2>2. CASE Test
    BY <1>4, <2>2 DEF Test, files
  <2>3. CASE Mv1
    BY <1>4, <2>3 DEF Mv1
  <2>4. CASE Mv2
    BY <1>4, <2>4 DEF Mv2
  <2>5. CASE FusionOpen \/ FusionClose \/ FusionPrints
    BY <1>4, <2>5 DEF FusionOpen, FusionClose, FusionPrints
  <2>6. CASE Loop \/ Prepare \/ Check \/ Write \/ FusionDies \/ Sleep
    BY <1>4, <2>6 DEF Loop, Prepare, Check, Write, FusionDies, Sleep, files
  <2>7. CASE Quit \/ Stop \/ Flip \/ UNCHANGED vars
    BY <1>4, <2>7 DEF Quit, Stop, Flip, vars, files
  <2>8. CASE Kill \/ StrayCheck \/ StrayWrite
    BY <1>4, <2>8 DEF Kill, StrayCheck, StrayWrite, files
  <2> QED
    BY <2>1, <2>2, <2>3, <2>4, <2>5, <2>6, <2>7, <2>8 DEF Next
<1> QED
  BY <1>8, <1>9

LEMMA Invariance == Spec => []IInv
<1>1. IInv /\ [Next]_vars => IInv'
  BY TypeStep, ControlStep, HonestStep DEF IInv
<1> QED
  BY InitHolds, <1>1, PTL DEF Spec

-----------------------------------------------------------------------------
(* A table says of every bit in a set of reports which ways it was wrong   *)
(* and when it first was, and of no other bit anything.                    *)
Exact(T, R) ==
  /\ T \in TableContents
  /\ DOMAIN T = {r[1] : r \in R}
  /\ \A b \in DOMAIN T :
       /\ IF SignsIn(R, b) = Signs THEN T[b].sign = "*" ELSE T[b].sign \in SignsIn(R, b)
       /\ T[b].stamp \in StampsIn(R, b)
       /\ \A u \in StampsIn(R, b) : T[b].stamp <= u

(* Where the summary of all reports is, as the script goes on.             *)
SummaryThere ==
  /\ pc \in {"loop", "prepare", "sleep", "check", "write", "fusion"} =>
       Exact(BAD_BITS, reported)
  /\ pc = "off" => IF BAD_BITS = NoFile THEN reported = {} ELSE Exact(BAD_BITS, reported)
  /\ pc = "close" => Exact(Merged, reported)
  /\ pc = "test" =>
       IF BAD_NEW = NoFile THEN Exact(BAD_BITS, reported) ELSE Exact(BAD_NEW, reported)
  /\ pc \in {"mv1", "mv2"} => Exact(BAD_NEW, reported)
  /\ pc \notin {"close", "test", "mv1", "mv2"} => BAD_NEW = NoFile

StampsPast == \A r \in reported : r[3] <= SEED

SInv == StampsPast /\ (~faulted => SummaryThere)

(* There is one such table only.                                           *)
LEMMA ExactIsSummary ==
  ASSUME TypeOK, Exact(BAD_BITS, reported)
  PROVE  BAD_BITS = Summary
<1> DEFINE D == {r[1] : r \in reported}
<1>1. PICK A \in SUBSET Bits : BAD_BITS \in [A -> Entry]
  BY DEF Exact, TableContents
<1>2. A = D
  BY <1>1 DEF Exact
<1>3. ASSUME NEW b \in D
      PROVE  BAD_BITS[b] =
               [sign  |-> IF SignsOf(b) = Signs THEN "*" ELSE CHOOSE s \in SignsOf(b) : TRUE,
                stamp |-> CHOOSE t \in StampsOf(b) : \A u \in StampsOf(b) : t <= u]
  <2>1. /\ IF SignsOf(b) = Signs THEN BAD_BITS[b].sign = "*"
           ELSE BAD_BITS[b].sign \in SignsOf(b)
        /\ BAD_BITS[b].stamp \in StampsOf(b)
        /\ \A u \in StampsOf(b) : BAD_BITS[b].stamp <= u
    BY <1>1, <1>2 DEF Exact, SignsOf, StampsOf, SignsIn, StampsIn
  <2>2. SignsOf(b) \subseteq Signs /\ StampsOf(b) \subseteq 1..MaxRounds
    <3>1. \A r \in reported : r[2] \in Signs /\ r[3] \in 1..MaxRounds
      BY DEF TypeOK
    <3> QED
      BY <3>1 DEF SignsOf, StampsOf
  <2>3. (CHOOSE t \in StampsOf(b) : \A u \in StampsOf(b) : t <= u) = BAD_BITS[b].stamp
    <3> DEFINE Least(t) == t \in StampsOf(b) /\ \A u \in StampsOf(b) : t <= u
    <3>1. Least(BAD_BITS[b].stamp)
      BY <2>1
    <3>2. ASSUME NEW t, Least(t)
          PROVE  t = BAD_BITS[b].stamp
      <4>1. t <= BAD_BITS[b].stamp /\ BAD_BITS[b].stamp <= t
        BY <2>1, <3>2
      <4>2. t \in 1..MaxRounds /\ BAD_BITS[b].stamp \in 1..MaxRounds
        BY <2>1, <2>2, <3>2
      <4> QED
        BY <4>1, <4>2, RumtDaemonAssumption
    <3> QED
      BY <3>1, <3>2
  <2>4. SignsOf(b) # Signs =>
          (CHOOSE s \in SignsOf(b) : TRUE) = BAD_BITS[b].sign
    <3> SUFFICES ASSUME SignsOf(b) # Signs
                 PROVE  (CHOOSE s \in SignsOf(b) : TRUE) = BAD_BITS[b].sign
      OBVIOUS
    <3>1. BAD_BITS[b].sign \in SignsOf(b)
      BY <2>1
    <3>2. \A s \in SignsOf(b) : s = BAD_BITS[b].sign
      BY <2>2, <3>1 DEF Signs
    <3> QED
      BY <3>1, <3>2
  <2>5. BAD_BITS[b] \in Entry
    BY <1>1, <1>2
  <2>6. BAD_BITS[b] = [sign |-> BAD_BITS[b].sign, stamp |-> BAD_BITS[b].stamp]
    BY <2>5 DEF Entry
  <2> QED
    BY <2>1, <2>3, <2>4, <2>6
<1> QED
  BY <1>1, <1>2, <1>3 DEF Summary

(* What rumt_fusion makes of an exact table and new lines is exact.        *)
LEMMA FusionExact ==
  ASSUME NEW old, NEW new \in Outputs, NEW stamp \in 1..MaxRounds,
         NEW R, R \subseteq Reports, Exact(old, R), \A r \in R : r[3] <= stamp
  PROVE  Exact(Fusion(old, new, stamp), R \cup Lines(new, stamp))
<1> DEFINE T == Fusion(old, new, stamp)
           S == R \cup Lines(new, stamp)
<1>1. old \in TableContents
  BY DEF Exact
<1>2. PICK A \in SUBSET Bits : old \in [A -> Entry]
  BY <1>1 DEF TableContents
<1>3. PICK B \in SUBSET Tested : new \in [B -> Signs]
  BY DEF Outputs
<1>4. A = {r[1] : r \in R}
  BY <1>2 DEF Exact
<1>5. DOMAIN T = A \cup B
  BY <1>2, <1>3 DEF Fusion
<1>6. Lines(new, stamp) = {<<b, new[b], stamp>> : b \in B}
  BY <1>3 DEF Lines
<1>a. ASSUME NEW r \in Lines(new, stamp)
      PROVE  r[1] \in B /\ r[2] = new[r[1]] /\ r[3] = stamp
  <2>1. PICK b \in B : r = <<b, new[b], stamp>>
    BY <1>6
  <2> QED
    BY <2>1
<1>b. ASSUME NEW b \in B
      PROVE  \E r \in Lines(new, stamp) : r[1] = b /\ r[2] = new[b] /\ r[3] = stamp
  <2>1. <<b, new[b], stamp>> \in Lines(new, stamp)
    BY <1>6
  <2> QED
    BY <2>1
<1>7. {r[1] : r \in S} = A \cup B
  <2>1. {r[1] : r \in Lines(new, stamp)} = B
    <3>1. \A b : b \in {r[1] : r \in Lines(new, stamp)} <=> b \in B
      BY <1>a, <1>b
    <3> QED
      BY <3>1
  <2>2. {r[1] : r \in S} = {r[1] : r \in R} \cup {r[1] : r \in Lines(new, stamp)}
    OBVIOUS
  <2> QED
    BY <1>4, <2>1, <2>2
<1>8. \A r \in R : r[2] \in Signs /\ r[3] \in 1..MaxRounds
  BY DEF Reports
<1>9. ASSUME NEW b
      PROVE  /\ SignsIn(S, b) = SignsIn(R, b) \cup (IF b \in B THEN {new[b]} ELSE {})
             /\ StampsIn(S, b) = StampsIn(R, b) \cup (IF b \in B THEN {stamp} ELSE {})
             /\ b \notin A => SignsIn(R, b) = {} /\ StampsIn(R, b) = {}
             /\ SignsIn(R, b) \subseteq Signs /\ StampsIn(R, b) \subseteq 1..MaxRounds
             /\ \A u \in StampsIn(R, b) : u <= stamp
  <2>1. SignsIn(S, b) = SignsIn(R, b) \cup (IF b \in B THEN {new[b]} ELSE {})
    <3>1. SignsIn(Lines(new, stamp), b) = IF b \in B THEN {new[b]} ELSE {}
      <4>1. \A s : s \in SignsIn(Lines(new, stamp), b) <=> b \in B /\ s = new[b]
        BY <1>a, <1>b DEF SignsIn
      <4> QED
        BY <4>1
    <3>2. SignsIn(S, b) = SignsIn(R, b) \cup SignsIn(Lines(new, stamp), b)
      <4>1. \A s : s \in SignsIn(S, b)
              <=> s \in SignsIn(R, b) \/ s \in SignsIn(Lines(new, stamp), b)
        BY DEF SignsIn
      <4> QED
        BY <4>1
    <3> QED
      BY <3>1, <3>2
  <2>2. StampsIn(S, b) = StampsIn(R, b) \cup (IF b \in B THEN {stamp} ELSE {})
    <3>1. StampsIn(Lines(new, stamp), b) = IF b \in B THEN {stamp} ELSE {}
      <4>1. \A t : t \in StampsIn(Lines(new, stamp), b) <=> b \in B /\ t = stamp
        BY <1>a, <1>b DEF StampsIn
      <4> QED
        BY <4>1
    <3>2. StampsIn(S, b) = StampsIn(R, b) \cup StampsIn(Lines(new, stamp), b)
      <4>1. \A t : t \in StampsIn(S, b)
              <=> t \in StampsIn(R, b) \/ t \in StampsIn(Lines(new, stamp), b)
        BY DEF StampsIn
      <4> QED
        BY <4>1
    <3> QED
      BY <3>1, <3>2
  <2>3. b \notin A => SignsIn(R, b) = {} /\ StampsIn(R, b) = {}
    BY <1>4 DEF SignsIn, StampsIn
  <2>4. SignsIn(R, b) \subseteq Signs /\ StampsIn(R, b) \subseteq 1..MaxRounds
    BY <1>8 DEF SignsIn, StampsIn
  <2>5. \A u \in StampsIn(R, b) : u <= stamp
    BY DEF StampsIn
  <2> QED
    BY <2>1, <2>2, <2>3, <2>4, <2>5
<1>10. ASSUME NEW b \in A \cup B
       PROVE  /\ IF SignsIn(S, b) = Signs THEN T[b].sign = "*" ELSE T[b].sign \in SignsIn(S, b)
              /\ T[b].stamp \in StampsIn(S, b)
              /\ \A u \in StampsIn(S, b) : T[b].stamp <= u
  <2>1. CASE b \notin A
    <3>1. T[b] = [sign |-> new[b], stamp |-> stamp] /\ b \in B
      BY <1>2, <1>3, <2>1 DEF Fusion
    <3>2. SignsIn(S, b) = {new[b]} /\ StampsIn(S, b) = {stamp}
      <4>1. SignsIn(R, b) = {} /\ StampsIn(R, b) = {}
        BY <1>9, <2>1
      <4>2. /\ SignsIn(S, b) = SignsIn(R, b) \cup {new[b]}
            /\ StampsIn(S, b) = StampsIn(R, b) \cup {stamp}
        BY <1>9, <3>1
      <4> QED
        BY <4>1, <4>2
    <3>3. SignsIn(S, b) # Signs
      <4>1. "+" \in Signs /\ "-" \in Signs /\ "+" # "-"
        BY DEF Signs
      <4>2. \A x, y \in SignsIn(S, b) : x = y
        BY <3>2
      <4> QED
        BY <4>1, <4>2
    <3>4. T[b].sign = new[b] /\ T[b].stamp = stamp
      BY <3>1
    <3>5. T[b].sign \in SignsIn(S, b) /\ T[b].stamp \in StampsIn(S, b)
      BY <3>2, <3>4
    <3>6. \A u \in StampsIn(S, b) : T[b].stamp <= u
      <4>1. \A u \in StampsIn(S, b) : u = stamp
        BY <3>2
      <4>2. stamp <= stamp
        BY RumtDaemonAssumption
      <4> QED
        BY <3>4, <4>1, <4>2
    <3> QED
      BY <3>3, <3>5, <3>6
  <2>2. CASE b \in A
    <3>1. /\ old[b] \in Entry
          /\ IF SignsIn(R, b) = Signs THEN old[b].sign = "*"
             ELSE old[b].sign \in SignsIn(R, b)
          /\ old[b].stamp \in StampsIn(R, b)
          /\ \A u \in StampsIn(R, b) : old[b].stamp <= u
      BY <1>2, <2>2 DEF Exact
    <3>2. T[b].stamp = old[b].stamp
      BY <1>2, <1>3, <2>2, <3>1 DEF Fusion, Entry
    <3>3. T[b].stamp \in StampsIn(S, b) /\ \A u \in StampsIn(S, b) : T[b].stamp <= u
      <4>1. old[b].stamp <= stamp
        BY <1>9, <3>1
      <4> QED
        BY <1>9, <3>1, <3>2, <4>1
    <3>4. IF SignsIn(S, b) = Signs THEN T[b].sign = "*" ELSE T[b].sign \in SignsIn(S, b)
      <4>1. SignsIn(R, b) \subseteq Signs
        BY <1>9
      <4>2. CASE b \notin B
        <5>1. T[b] = old[b]
          BY <1>2, <1>3, <2>2, <4>2 DEF Fusion
        <5>2. SignsIn(S, b) = SignsIn(R, b)
          BY <1>9, <4>2
        <5> QED
          BY <3>1, <5>1, <5>2
      <4>3. CASE b \in B /\ old[b].sign \in {"*", new[b]}
        <5>1. T[b] = old[b]
          BY <1>2, <1>3, <2>2, <4>3 DEF Fusion
        <5>2. SignsIn(S, b) = SignsIn(R, b) \cup {new[b]} /\ new[b] \in Signs
          BY <1>3, <1>9, <4>3
        <5>3. SignsIn(R, b) = Signs => SignsIn(S, b) = Signs /\ T[b].sign = "*"
          BY <3>1, <5>1, <5>2
        <5>4. SignsIn(R, b) # Signs => SignsIn(S, b) = SignsIn(R, b) /\ T[b].sign \in SignsIn(R, b)
          <6> SUFFICES ASSUME SignsIn(R, b) # Signs
                       PROVE  SignsIn(S, b) = SignsIn(R, b) /\ T[b].sign \in SignsIn(R, b)
            OBVIOUS
          <6>1. old[b].sign \in SignsIn(R, b)
            BY <3>1
          <6>2. old[b].sign # "*"
            BY <4>1, <6>1 DEF Signs
          <6>3. new[b] = old[b].sign
            BY <4>3, <6>2
          <6>4. SignsIn(S, b) = SignsIn(R, b)
            BY <5>2, <6>1, <6>3
          <6> QED
            BY <5>1, <6>1, <6>4
        <5> QED
          BY <5>3, <5>4
      <4>4. CASE b \in B /\ old[b].sign \notin {"*", new[b]}
        <5>1. T[b] = [old[b] EXCEPT !.sign = "*"]
          BY <1>2, <1>3, <2>2, <4>4 DEF Fusion
        <5>2. T[b].sign = "*"
          BY <3>1, <5>1 DEF Entry
        <5>3. old[b].sign \in SignsIn(R, b) /\ old[b].sign # new[b] /\ new[b] \in Signs
          BY <1>3, <3>1, <4>4
        <5>4. SignsIn(S, b) = SignsIn(R, b) \cup {new[b]}
          BY <1>9, <4>4
        <5>5. SignsIn(S, b) = Signs
          <6>1. {old[b].sign, new[b]} \subseteq SignsIn(S, b)
            BY <5>3, <5>4
          <6>2. SignsIn(S, b) \subseteq Signs
            BY <4>1, <5>3, <5>4
          <6>3. old[b].sign \in Signs
            BY <4>1, <5>3
          <6>4. {old[b].sign, new[b]} = Signs
            BY <5>3, <6>3 DEF Signs
          <6> QED
            BY <6>1, <6>2, <6>4
        <5> QED
          BY <5>2, <5>5
      <4> QED
        BY <4>2, <4>3, <4>4
    <3> QED
      BY <3>3, <3>4
  <2> QED
    BY <2>1, <2>2
<1>11. T \in TableContents
  BY <1>1, FusionType
<1> HIDE DEF T, S
<1>12. Exact(T, S)
  BY <1>5, <1>7, <1>10, <1>11 DEF Exact
<1> QED
  BY <1>12 DEF T, S

LEMMA EmptyExact == Exact(Empty, {})
<1>1. DOMAIN Empty = {}
  BY DEF Empty
<1> QED
  BY <1>1, EmptyContents DEF Exact

(* Every step leaves the summary where the script will look for it.        *)
LEMMA SummaryStep ==
  ASSUME NoFile \notin TableContents, IInv, SInv, [Next]_vars
  PROVE  SInv'
<1> USE RumtDaemonAssumption
<1>0. /\ TypeOK /\ FilesThere /\ StampsPast
      /\ ~faulted => SummaryThere
  BY DEF IInv, SInv
<1>1. CASE FusionOpen
  <2>1. /\ TRYMEM_OUT \in Outputs /\ SEED \in 1..MaxRounds /\ pc = "fusion"
        /\ reported \subseteq Reports
    BY <1>0, <1>1 DEF FusionOpen, At, FilesThere, TypeOK, Reports
  <2>2. /\ reported' = reported \cup Lines(TRYMEM_OUT, SEED)
        /\ UNCHANGED <<SEED, TRYMEM_OUT, BAD_BITS, faulted>>
    BY <1>1 DEF FusionOpen, Lines
  <2>3. StampsPast'
    <3>1. \A r \in Lines(TRYMEM_OUT, SEED) : r[3] <= SEED
      BY <2>1 DEF Lines
    <3> QED
      BY <1>0, <2>2, <3>1 DEF StampsPast
  <2>4. ASSUME ~faulted'
        PROVE  SummaryThere'
    <3>1. SummaryThere
      BY <1>0, <2>2, <2>4
    <3>2. Exact(BAD_BITS, reported) /\ BAD_NEW = NoFile
      BY <2>1, <3>1 DEF SummaryThere
    <3>3. Exact(Merged, reported')
      <4>1. \A r \in reported : r[3] <= SEED
        BY <1>0 DEF StampsPast
      <4> QED
        BY <2>1, <2>2, <3>2, <4>1, FusionExact DEF Merged
    <3>4. Merged' = Merged
      BY <2>2 DEF Merged
    <3>5. CASE is_new
      <4>1. pc' = "close"
        BY <1>1, <3>5 DEF FusionOpen
      <4> QED
        BY <3>3, <3>4, <4>1 DEF SummaryThere
    <3>6. CASE ~is_new
      <4>1. pc' = "test" /\ BAD_NEW' = NoFile
        BY <1>1, <3>2, <3>6 DEF FusionOpen
      <4>2. Exact(BAD_BITS, reported')
        BY <3>3, <3>6 DEF is_new
      <4> QED
        BY <2>2, <4>1, <4>2 DEF SummaryThere
    <3> QED
      BY <3>5, <3>6
  <2> QED
    BY <2>3, <2>4 DEF SInv
<1>2. CASE FusionClose
  <2>1. /\ pc = "close" /\ pc' = "test" /\ BAD_NEW' = Merged
        /\ UNCHANGED <<SEED, reported, faulted>>
    BY <1>2 DEF FusionClose, At, history
  <2>2. ~faulted => SummaryThere'
    <3>1. ~faulted => Exact(Merged, reported)
      BY <1>0, <2>1 DEF SummaryThere
    <3>2. Merged # NoFile
      BY <2>1, MergedContents
    <3> QED
      BY <2>1, <3>1, <3>2 DEF SummaryThere
  <2> QED
    BY <1>0, <2>1, <2>2 DEF SInv, StampsPast
<1>3. CASE FusionDies \/ Stop \/ Kill
  <2>1. faulted' /\ UNCHANGED <<SEED, reported>>
    BY <1>3 DEF FusionDies, Stop, Kill
  <2> QED
    BY <1>0, <2>1 DEF SInv, StampsPast
<1>4. CASE Start
  <2>1. /\ pc = "off" /\ pc' = "loop"
        /\ BAD_BITS' = IF BAD_BITS = NoFile THEN Empty ELSE BAD_BITS
        /\ UNCHANGED <<SEED, reported, faulted, BAD_NEW>>
    BY <1>4 DEF Start, At, history
  <2>2. ~faulted => Exact(BAD_BITS', reported)
    BY <1>0, <2>1, EmptyExact DEF SummaryThere
  <2> QED
    BY <1>0, <2>1, <2>2 DEF SInv, StampsPast, SummaryThere
<1>5. CASE Loop
  <2>1. /\ pc = "loop" /\ pc' \in {"prepare", "check"} /\ SEED' = SEED + 1
        /\ UNCHANGED <<reported, faulted, BAD_BITS, BAD_NEW>>
    BY <1>5 DEF Loop, At, files
  <2>2. StampsPast'
    <3>1. \A r \in reported : r[3] \in 1..MaxRounds
      BY <1>0 DEF TypeOK
    <3> QED
      BY <1>0, <2>1, <3>1 DEF StampsPast, TypeOK
  <2> QED
    BY <1>0, <2>1, <2>2 DEF SInv, SummaryThere
<1>6. CASE Prepare \/ Check \/ Write \/ Sleep
  <2>1. /\ pc \in {"prepare", "check", "write", "sleep"}
        /\ pc' \in {"sleep", "write", "fusion", "loop"}
        /\ UNCHANGED <<SEED, reported, faulted, BAD_BITS, BAD_NEW>>
    BY <1>6 DEF Prepare, Check, Write, Sleep, At, files, history
  <2> QED
    BY <1>0, <2>1 DEF SInv, StampsPast, SummaryThere
<1>7. CASE Test
  <2>1. /\ pc = "test" /\ pc' = IF BAD_NEW = NoFile THEN "sleep" ELSE "mv1"
        /\ UNCHANGED <<SEED, reported, faulted, BAD_BITS, BAD_NEW>>
    BY <1>7 DEF Test, At, files, history
  <2> QED
    BY <1>0, <2>1 DEF SInv, StampsPast, SummaryThere
<1>8. CASE Mv1
  <2>1. /\ pc = "mv1" /\ pc' = "mv2"
        /\ UNCHANGED <<SEED, reported, faulted, BAD_NEW>>
    BY <1>8 DEF Mv1, At, history
  <2> QED
    BY <1>0, <2>1 DEF SInv, StampsPast, SummaryThere
<1>9. CASE Mv2
  <2>1. /\ pc = "mv2" /\ pc' = "sleep"
        /\ BAD_BITS' = BAD_NEW /\ BAD_NEW' = NoFile
        /\ UNCHANGED <<SEED, reported, faulted>>
    BY <1>9 DEF Mv2, At, history
  <2> QED
    BY <1>0, <2>1 DEF SInv, StampsPast, SummaryThere
<1>10. CASE Quit
  <2>1. /\ pc \in {"sleep", "loop"} /\ pc' = "off"
        /\ UNCHANGED <<SEED, reported, faulted, BAD_BITS, BAD_NEW>>
    BY <1>10 DEF Quit, files, history
  <2>2. BAD_BITS # NoFile
    BY <1>0, <2>1 DEF FilesThere
  <2> QED
    BY <1>0, <2>1, <2>2 DEF SInv, StampsPast, SummaryThere
<1>11. CASE Flip \/ UNCHANGED vars
  <2>1. UNCHANGED <<pc, SEED, reported, faulted, files>>
    BY <1>11 DEF Flip, vars, history
  <2>2. Merged' = Merged
    BY <2>1 DEF Merged, files
  <2>3. UNCHANGED <<BAD_BITS, BAD_NEW>>
    BY <2>1 DEF files
  <2> QED
    BY <1>0, <2>1, <2>2, <2>3 DEF SInv, StampsPast, SummaryThere
<1>12. CASE FusionPrints
  <2>1. /\ pc = "close"
        /\ UNCHANGED <<pc, SEED, reported, faulted, TRYMEM_OUT, BAD_BITS>>
    BY <1>12 DEF FusionPrints, At, history
  <2>2. Merged' = Merged
    BY <2>1 DEF Merged
  <2> QED
    BY <1>0, <2>1, <2>2 DEF SInv, StampsPast, SummaryThere
<1>13. CASE StrayCheck \/ StrayWrite
  <2>1. strays # {} /\ UNCHANGED <<SEED, reported, faulted>>
    BY <1>13 DEF StrayCheck, StrayWrite, history
  <2>2. faulted
    BY <2>1 DEF IInv, StraysEnd
  <2> QED
    BY <1>0, <2>1, <2>2 DEF SInv, StampsPast
<1> QED
  BY <1>1, <1>2, <1>3, <1>4, <1>5, <1>6, <1>7, <1>8, <1>9, <1>10, <1>11, <1>12, <1>13
  DEF Next

-----------------------------------------------------------------------------
(* Every file the script and its programs leave is absent or a table of    *)
(* bad bits with signs and stamps, for any bits, rounds and faults.        *)
THEOREM TypeCorrect == Spec => []TypeOK
<1>1. IInv => TypeOK
  BY DEF IInv
<1> QED
  BY Invariance, <1>1, PTL

(* The memory is compared with the seed it was last filled from, whenever  *)
(* the script is stopped, killed and started again (rumt_daemon:56-85), if *)
(* no rumt_trymem of a killed one was still at work when it was started.   *)
THEOREM CheckedAgainstItsSeed == Spec => []SeedsMatch
<1>1. IInv => SeedsMatch
  BY DEF IInv, Filled, StraysEnd, SeedsMatch
<1> QED
  BY Invariance, <1>1, PTL

(* No file says anything of a bit that rumt_trymem did not print, whatever *)
(* stops or dies between any two steps of the script and of rumt_fusion.   *)
THEOREM NothingIsInvented == Spec => []NothingInvented
<1>1. IInv => NothingInvented
  BY DEF IInv
<1> QED
  BY Invariance, <1>1, PTL

(* Where a missing file can be told from a table, BAD_BITS is at the end   *)
(* of every round the summary of all that rumt_trymem has ever printed, as *)
(* long as neither the daemon nor rumt_fusion is stopped half way.         *)
THEOREM TableSummarizes ==
  ASSUME NoFile \notin TableContents
  PROVE  Spec => []TableIsSummary
<1>1. Init => SInv
  BY DEF Init, SInv, StampsPast, SummaryThere
<1>2. IInv /\ SInv /\ [Next]_vars => SInv'
  BY SummaryStep
<1>3. IInv /\ SInv => TableIsSummary
  <2> SUFFICES ASSUME IInv, SInv, pc \in {"loop", "sleep", "check"}, ~faulted
               PROVE  BAD_BITS = Summary
    BY DEF TableIsSummary
  <2>1. Exact(BAD_BITS, reported) /\ TypeOK
    BY DEF SInv, SummaryThere, IInv
  <2> QED
    BY <2>1, ExactIsSummary
<1> QED
  BY Invariance, <1>1, <1>2, <1>3, PTL DEF Spec
=============================================================================
