---------------------------- MODULE BurnInProofs ----------------------------
(***************************************************************************)
(* Proofs about BurnIn for any number of polls and runs, with or without   *)
(* an archive, faults of the hardware and runs the user ends: no script    *)
(* goes on at a verdict, and while no run was ended early and cp and tar   *)
(* had their space only whole trees are compared and FAIL means a fault of *)
(* the current run.                                                        *)
(***************************************************************************)
EXTENDS BurnIn, TLAPS, WellFoundedInduction

Dead    == {"off", "exited", "killed"}
Working == {"orig", "unpack", "copy", "diff", "compare", "touch"}

(* Runs to come have left nothing; a run shows nothing before its polls,   *)
(* and no script survives its kill, since none starts after the list.      *)
Ahead   == \A r \in Runs : r > run => script[r] = "off" /\ orig[r] = "whole" /\ copy[r] = "whole"
Polling == /\ pc # "off" => run >= 1
           /\ pc \in {"mount", "copy", "spawn", "poll"} => verdict = "none" /\ i < MaxPolls
Killing == /\ pc = "kill" => Alive \subseteq victims
           /\ pc = "umount" => Alive = {}
           /\ pc = "off" /\ verdict # "none" => Alive = {}
RunInv  == TypeOK /\ Ahead /\ Polling /\ Killing

(* While no run was ended early: only the script of the current run works, *)
(* in the tmpfs on top and from an archive copied whole; a tree that is    *)
(* not whole, the touch of the flag, the flag and FAIL have a fault of the *)
(* hardware before them, unless cp or tar found no space left in this run. *)
Alone   == /\ Alive \subseteq {run}
           /\ pc \in {"off", "mount", "copy", "spawn", "umount"} => Alive = {}
OnTop   == /\ pc \in {"copy", "spawn", "poll", "list", "kill"} => run \in mounted
           /\ pc \in {"spawn", "poll", "list", "kill"} /\ run \notin short =>
                archive[run] \in {"all", "none"}
Fed     == run > 0 /\ run \notin short =>
             /\ script[run] \in Working => archive[run] = "all"
             /\ script[run] \in {"orig", "copy"} => opened[run] = "all"
             /\ script[run] \in Working \ {"orig"} => orig[run] # "cut"
             /\ script[run] \in {"diff", "compare", "touch"} => copy[run] # "cut"
Blamed  == run \notin short =>
             /\ flag => corrupted
             /\ verdict = "FAIL" => corrupted
             /\ run > 0 => /\ script[run] = "touch" => corrupted
                           /\ orig[run] = "corrupt" => corrupted
                           /\ copy[run] = "corrupt" => corrupted
Sound   == ~quit => Alone /\ OnTop /\ Fed /\ Blamed

-----------------------------------------------------------------------------
LEMMA RunInvInit == Init => RunInv
<1> SUFFICES ASSUME Init PROVE RunInv
  OBVIOUS
<1>1. TypeOK
  <2>1. run \in 0 .. MaxRuns /\ i \in 0 .. MaxPolls /\ mounted \subseteq 1 .. run /\ victims \subseteq 1 .. run
    BY BurnInAssumption DEF Init
  <2>2. flag \in BOOLEAN /\ corrupted \in BOOLEAN /\ quit \in BOOLEAN /\ short \subseteq Runs
    BY Zenon DEF Init
  <2>3. /\ archive \in [Runs -> {"none", "half", "all"}] /\ child \in [Runs -> {"none", "unpack", "diff"}]
        /\ opened \in [Runs -> {"none", "half", "all"}]
        /\ orig \in [Runs -> {"whole", "cut", "corrupt"}] /\ copy \in [Runs -> {"whole", "cut", "corrupt"}]
    BY DEF Init
  <2>4. script \in [Runs -> {"off", "begin", "orig", "unpack", "copy", "diff",
                            "compare", "touch", "exited", "killed"}]
    BY DEF Init
  <2>5. QED
    BY <2>1, <2>2, <2>3, <2>4 DEF Init, TypeOK
<1>2. Ahead /\ Polling /\ Killing
  BY DEF Init, Ahead, Polling, Killing
<1>3. QED
  BY <1>1, <1>2 DEF RunInv

(* The scripts a run may list are of runs started so far.                   *)
LEMMA AliveStarted ==
  ASSUME TypeOK, Ahead
  PROVE  Alive \subseteq 1 .. run
BY BurnInAssumption DEF TypeOK, Ahead, Alive, Runs

LEMMA RunKeeps ==
  ASSUME RunInv, Run \/ Quit
  PROVE  RunInv'
<1> USE BurnInAssumption DEF RunInv, runvars, disk, trees, scripts, history
<1>1. CASE Begin
  <2>1. TypeOK'
    <3>1. /\ run' \in 0 .. MaxRuns /\ i' \in 0 .. MaxPolls
          /\ mounted' \subseteq 1 .. run' /\ victims' \subseteq 1 .. run'
      BY <1>1 DEF Begin, TypeOK
    <3>2. flag' \in BOOLEAN /\ corrupted' \in BOOLEAN /\ quit' \in BOOLEAN /\ short' \subseteq Runs
      BY <1>1, Zenon DEF Begin, TypeOK
    <3>3. QED
      BY <1>1, <3>1, <3>2 DEF Begin, TypeOK
  <2>2. Ahead' /\ Polling' /\ Killing'
    BY <1>1 DEF Begin, TypeOK, Ahead, Polling, Killing, Alive, Runs
  <2>3. QED
    BY <2>1, <2>2
<1>2. CASE Mount
  <2>1. TypeOK'
    BY <1>2 DEF Mount, TypeOK, Polling
  <2>2. Ahead' /\ Polling' /\ Killing'
    BY <1>2 DEF Mount, Ahead, Polling, Killing, Alive
  <2>3. QED
    BY <2>1, <2>2
<1>3. CASE Copy
  <2>1. archive' \in [Runs -> {"none", "half", "all"}] /\ pc' \in {"copy", "spawn"}
    BY <1>3 DEF Copy, TypeOK
  <2>2. TypeOK'
    BY <1>3, <2>1 DEF Copy, TypeOK
  <2>3. Ahead' /\ Polling' /\ Killing'
    BY <1>3, <2>1 DEF Copy, Ahead, Polling, Killing, Alive
  <2>4. QED
    BY <2>2, <2>3
<1>4. CASE Spawn
  <2>1. TypeOK'
    BY <1>4 DEF Spawn, TypeOK
  <2>2. Ahead' /\ Polling' /\ Killing'
    BY <1>4 DEF Spawn, TypeOK, Ahead, Polling, Killing, Runs
  <2>3. QED
    BY <2>1, <2>2
<1>5. CASE Poll
  <2>1. TypeOK'
    BY <1>5 DEF Poll, TypeOK, Polling
  <2>2. Ahead' /\ Polling' /\ Killing'
    BY <1>5 DEF Poll, TypeOK, Ahead, Polling, Killing, Alive
  <2>3. QED
    BY <2>1, <2>2
<1>6. CASE List
  <2>1. TypeOK'
    BY <1>6, AliveStarted DEF List, TypeOK
  <2>2. Ahead' /\ Polling' /\ Killing'
    BY <1>6 DEF List, Ahead, Polling, Killing, Alive
  <2>3. QED
    BY <2>1, <2>2
<1>7. CASE Kill
  <2>1. \A r \in Runs : script'[r] = IF r \in victims /\ r \in Alive THEN "killed" ELSE script[r]
    BY <1>7 DEF Kill
  <2>2. TypeOK'
    BY <1>7 DEF Kill, TypeOK
  <2>3. Ahead'
    BY <1>7, <2>1 DEF Kill, TypeOK, Ahead, Alive
  <2>4. Alive' = {}
    BY <1>7, <2>1 DEF Kill, Killing, Alive
  <2>5. Polling' /\ Killing'
    BY <1>7, <2>4 DEF Kill, Polling, Killing
  <2>6. QED
    BY <2>2, <2>3, <2>5
<1>8. CASE Umount
  <2>1. TypeOK'
    BY <1>8 DEF Umount, TypeOK
  <2>2. Ahead' /\ Polling' /\ Killing'
    BY <1>8 DEF Umount, Ahead, Polling, Killing, Alive
  <2>3. QED
    BY <2>1, <2>2
<1>9. CASE Quit
  <2>1. TypeOK'
    BY <1>9 DEF Quit, TypeOK
  <2>2. Ahead' /\ Polling' /\ Killing'
    BY <1>9 DEF Quit, Ahead, Polling, Killing, Alive
  <2>3. QED
    BY <2>1, <2>2
<1>10. CASE CopyHalf
  <2>1. TypeOK'
    BY <1>10 DEF CopyHalf, TypeOK
  <2>2. Ahead' /\ Polling' /\ Killing'
    BY <1>10 DEF CopyHalf, Ahead, Polling, Killing, Alive
  <2>3. QED
    BY <2>1, <2>2
<1>11. CASE CopyShort
  <2>1. TypeOK'
    BY <1>11 DEF CopyShort, TypeOK, Polling, Runs
  <2>2. Ahead' /\ Polling' /\ Killing'
    BY <1>11 DEF CopyShort, Ahead, Polling, Killing, Alive
  <2>3. QED
    BY <2>1, <2>2
<1>12. QED
  BY <1>1, <1>2, <1>3, <1>4, <1>5, <1>6, <1>7, <1>8, <1>9, <1>10, <1>11 DEF Run

(* What is on top of the mounted tmpfs's: the latest one.                   *)
LEMMA Topmost ==
  ASSUME TypeOK, mounted # {}
  PROVE  Max(mounted) \in mounted /\ \A m \in mounted : Max(mounted) >= m
<1> DEFINE S == {run - m : m \in mounted}
<1>0. run \in Nat /\ \A m \in mounted : m \in Nat /\ m <= run
  BY BurnInAssumption DEF TypeOK
<1>1. S \subseteq Nat /\ S # {}
  BY <1>0
<1>2. PICK x \in S : \A y \in S : <<y, x>> \notin OpToRel(<, Nat)
  <2> HIDE DEF S
  <2>1. QED
    BY <1>1, NatLessThanWellFounded, WFMin, Zenon
<1>3. \A y \in S : ~(y < x)
  BY <1>1, <1>2, Zenon DEF OpToRel
<1>4. PICK m \in mounted : x = run - m
  OBVIOUS
<1>5. \A k \in mounted : run - k \in S
  OBVIOUS
<1>6. \A k \in mounted : m >= k
  <2>1. SUFFICES ASSUME NEW k \in mounted PROVE m >= k
    OBVIOUS
  <2>2. ~(run - k < run - m)
    BY <1>3, <1>4, <1>5
  <2>3. run \in Nat /\ m \in Nat /\ k \in Nat
    BY <1>0
  <2>4. QED
    BY <2>2, <2>3
<1>7. QED
  BY <1>6 DEF Max

LEMMA SourceType ==
  ASSUME TypeOK
  PROVE  Source \in {"none", "half", "all"}
<1>1. CASE mounted = {}
  BY <1>1 DEF Source
<1>2. CASE mounted # {}
  <2>1. Max(mounted) \in mounted
    BY <1>2, Topmost
  <2>2. \A m \in mounted : m \in Runs
    BY BurnInAssumption DEF TypeOK, Runs
  <2>3. QED
    BY <1>2, <2>1, <2>2 DEF Source, TypeOK
<1>3. QED
  BY <1>1, <1>2

(* A step of a script keeps the types and wakes no other script, and only a *)
(* script that is there changes its trees.                                  *)
LEMMA ScriptType ==
  ASSUME TypeOK, NEW r \in Runs, Script(r)
  PROVE  TypeOK'
<1> USE DEF runvars, disk, trees, scripts, history
<1>1. CASE NoSource(r) \/ UnpackOrig(r) \/ Unpack(r)
  <2>1. Source \in {"none", "half", "all"}
    BY SourceType
  <2>2. CASE NoSource(r)
    BY <2>2 DEF NoSource, TypeOK
  <2>3. CASE UnpackOrig(r)
    BY <2>1, <2>3 DEF UnpackOrig, TypeOK
  <2>4. CASE Unpack(r)
    BY <2>1, <2>4 DEF Unpack, TypeOK
  <2>5. QED
    BY <1>1, <2>2, <2>3, <2>4
<1>2. CASE UnpackEnds(r)
  <2>1. \A tree \in Unpacked(r) : tree \in {"whole", "cut", "corrupt"}
    BY DEF TypeOK, Unpacked
  <2>2. QED
    BY <1>2, <2>1 DEF UnpackEnds, TypeOK
<1>3. CASE Diff(r) \/ Touch(r)
  <2>1. CASE Diff(r)
    BY <2>1 DEF Diff, TypeOK
  <2>2. CASE Touch(r)
    BY <2>2 DEF Touch, TypeOK
  <2>3. QED
    BY <1>3, <2>1, <2>2
<1>4. CASE DiffEqual(r)
  BY <1>4 DEF DiffEqual, TypeOK
<1>5. CASE DiffFails(r)
  BY <1>5 DEF DiffFails, TypeOK
<1>6. QED
  BY <1>1, <1>2, <1>3, <1>4, <1>5 DEF Script

(* A step of a script is one of a script that is there, or the end of what  *)
(* a killed one waited for, which changes neither scripts nor trees.        *)
LEMMA ScriptMoves ==
  ASSUME TypeOK, NEW r \in Runs, Script(r)
  PROVE  /\ UNCHANGED <<runvars, disk, quit>>
         /\ \A s \in Runs \ {r} : script'[s] = script[s] /\ orig'[s] = orig[s] /\ copy'[s] = copy[s]
         /\ script[r] \in Dead => script'[r] = script[r] /\ orig'[r] = orig[r] /\ copy'[r] = copy[r]
<1> USE DEF TypeOK, Dead, runvars, disk, trees, scripts, history
<1>1. CASE NoSource(r) \/ UnpackOrig(r) \/ Unpack(r)
  BY <1>1 DEF NoSource, UnpackOrig, Unpack
<1>2. CASE UnpackEnds(r)
  BY <1>2 DEF UnpackEnds
<1>3. CASE Diff(r) \/ Touch(r)
  BY <1>3 DEF Diff, Touch
<1>4. CASE DiffEqual(r)
  BY <1>4 DEF DiffEqual
<1>5. CASE DiffFails(r)
  BY <1>5 DEF DiffFails
<1>6. QED
  BY <1>1, <1>2, <1>3, <1>4, <1>5 DEF Script

LEMMA ScriptWakesNone ==
  ASSUME TypeOK, NEW r \in Runs, Script(r)
  PROVE  Alive' \subseteq Alive
BY ScriptMoves DEF Alive, Dead

LEMMA ScriptKeeps ==
  ASSUME RunInv, NEW r \in Runs, Script(r)
  PROVE  RunInv'
<1> USE DEF RunInv
<1>1. TypeOK'
  BY ScriptType
<1>2. UNCHANGED <<runvars, disk, quit>>
  BY ScriptMoves
<1>3. Ahead'
  BY <1>2, ScriptMoves DEF Ahead, Dead, runvars
<1>4. Polling' /\ Killing'
  BY <1>2, ScriptWakesNone DEF Polling, Killing, runvars
<1>5. QED
  BY <1>1, <1>3, <1>4

LEMMA RunInvNext ==
  ASSUME RunInv, [Next]_vars
  PROVE  RunInv'
<1>1. CASE UNCHANGED vars
  BY <1>1 DEF vars, runvars, disk, scripts, trees, history, RunInv, TypeOK, Ahead, Polling, Killing, Alive
<1>2. CASE Next
  BY <1>2, RunKeeps, ScriptKeeps DEF Next
<1>3. QED
  BY <1>1, <1>2

LEMMA RunInvAlways == Spec => []RunInv
<1>1. RunInv /\ [Next]_vars => RunInv'
  BY RunInvNext
<1>2. QED
  BY <1>1, RunInvInit, PTL DEF Spec

(* The state of run, its scripts and their trees keeps its type, over any   *)
(* number of runs and polls.                                                *)
THEOREM TypeCorrect == Spec => []TypeOK
<1>1. RunInv => TypeOK
  BY DEF RunInv
<1>2. QED
  BY <1>1, RunInvAlways, PTL

(* When a verdict is shown no script of any run, ended early or not, goes   *)
(* on burning (run:66-79).                                                  *)
THEOREM QuietAtVerdict == Spec => []NothingBurns
<1>1. RunInv => NothingBurns
  BY DEF RunInv, Killing, NothingBurns, Shown
<1>2. QED
  BY <1>1, RunInvAlways, PTL

-----------------------------------------------------------------------------
(* While no run was ended early and cp and tar had their space.             *)

LEMMA RunSound ==
  ASSUME RunInv, Sound, Run, ~quit
  PROVE  Sound'
<1> USE BurnInAssumption DEF RunInv, Sound, runvars, disk, trees, scripts, history
<1>0. run \in 0 .. MaxRuns /\ (pc # "off" => run \in Runs)
  BY DEF TypeOK, Polling, Runs
<1>1. CASE Begin
  <2>1. /\ run' = run + 1 /\ run' \in Runs
        /\ script'[run'] = "off" /\ orig'[run'] = "whole" /\ copy'[run'] = "whole"
    BY <1>1, <1>0 DEF Begin, Ahead, Runs
  <2>2. Alive' = {}
    BY <1>1 DEF Begin, Alone, Alive
  <2>3. QED
    BY <1>1, <2>1, <2>2 DEF Begin, Alone, OnTop, Fed, Blamed, Working
<1>2. CASE Mount
  BY <1>0, <1>2 DEF Mount, Alone, OnTop, Fed, Blamed, Alive
<1>3. CASE Copy
  <2>1. script[run] \notin Working
    BY <1>0, <1>3 DEF Copy, Alone, Alive, Working
  <2>2. pc' \in {"copy", "spawn"} /\ (pc' = "spawn" => archive'[run] \in {"all", "none"})
    BY <1>0, <1>3 DEF Copy, TypeOK
  <2>3. Alive' = {}
    BY <1>3 DEF Copy, Alone, Alive
  <2>4. Alone' /\ OnTop'
    BY <1>3, <2>2, <2>3 DEF Copy, Alone, OnTop
  <2>5. Fed' /\ Blamed'
    BY <1>3, <2>1 DEF Copy, Fed, Blamed, Working
  <2>6. QED
    BY <2>4, <2>5
<1>4. CASE Spawn
  <2>1. script'[run] = "begin" /\ run \in Runs
    BY <1>0, <1>4 DEF Spawn, TypeOK
  <2>2. Alive' \subseteq {run}
    BY <1>0, <1>4 DEF Spawn, TypeOK, Alone, Alive
  <2>3. QED
    BY <1>4, <2>1, <2>2 DEF Spawn, Alone, OnTop, Fed, Blamed, Working
<1>5. CASE Poll
  BY <1>0, <1>5 DEF Poll, Alone, OnTop, Fed, Blamed, Alive
<1>6. CASE List
  BY <1>0, <1>6 DEF List, Alone, OnTop, Fed, Blamed, Alive
<1>7. CASE Kill
  <2>1. \A r \in Runs : script'[r] = IF r \in victims /\ r \in Alive THEN "killed" ELSE script[r]
    BY <1>7 DEF Kill
  <2>2. Alive' = {}
    BY <1>7, <2>1 DEF Kill, Killing, Alive
  <2>3. script'[run] \in {script[run], "killed"}
    BY <1>0, <1>7, <2>1 DEF Kill
  <2>4. QED
    BY <1>7, <2>2, <2>3 DEF Kill, Alone, OnTop, Fed, Blamed, Working
<1>8. CASE Umount
  BY <1>0, <1>8 DEF Umount, Alone, OnTop, Fed, Blamed, Alive
<1>9. CASE CopyHalf
  <2>1. script[run] \notin Working /\ run \in Runs
    BY <1>0, <1>9 DEF CopyHalf, Alone, Alive, Working
  <2>2. Alone' /\ OnTop'
    BY <1>9 DEF CopyHalf, Alone, OnTop, Alive
  <2>3. Fed' /\ Blamed'
    BY <1>9, <2>1 DEF CopyHalf, Fed, Blamed, Working
  <2>4. QED
    BY <2>2, <2>3
<1>10. CASE CopyShort
  <2>1. run' = run /\ run' \in short'
    BY <1>10 DEF CopyShort
  <2>2. Alone' /\ OnTop'
    BY <1>10, <2>1 DEF CopyShort, Alone, OnTop, Alive
  <2>3. QED
    BY <2>1, <2>2 DEF Fed, Blamed
<1>11. QED
  BY <1>1, <1>2, <1>3, <1>4, <1>5, <1>6, <1>7, <1>8, <1>9, <1>10 DEF Run

(* The script of the current run finds the archive of its own run whole.    *)
LEMMA OwnSource ==
  ASSUME RunInv, Alone, OnTop, NEW r \in Alive
  PROVE  r = run /\ run \in Runs /\ pc \in {"poll", "list", "kill"} /\ Source = archive[run]
                /\ (run \notin short => archive[run] \in {"all", "none"})
<1>1. r = run /\ run \in Runs
  BY DEF Alone, Alive
<1>2. pc \in {"poll", "list", "kill"}
  BY DEF RunInv, TypeOK, Alone
<1>3. run \in mounted /\ (run \notin short => archive[run] \in {"all", "none"})
  BY <1>2 DEF OnTop
<1>4. Max(mounted) \in mounted /\ Max(mounted) >= run
  BY <1>3, Topmost DEF RunInv
<1>5. Max(mounted) = run
  <2>1. mounted \subseteq 1 .. run /\ run \in Nat
    BY <1>1, BurnInAssumption DEF RunInv, TypeOK, Runs
  <2>2. Max(mounted) \in 1 .. run
    BY <1>4, <2>1, Zenon
  <2>3. QED
    BY <1>4, <2>1, <2>2
<1>6. QED
  BY <1>1, <1>2, <1>3, <1>5 DEF Source

(* What a killed script waited for ends without a trace but a fault.        *)
LEMMA LeftBehind ==
  ASSUME TypeOK, NEW r \in Runs, Script(r), script[r] \in Dead
  PROVE  /\ (corrupted => corrupted') /\ short \subseteq short'
         /\ flag' = flag /\ opened' = opened
<1> USE DEF Dead, trees, history
<1>1. CASE NoSource(r) \/ UnpackOrig(r) \/ Unpack(r) \/ Diff(r) \/ Touch(r)
  BY <1>1 DEF NoSource, UnpackOrig, Unpack, Diff, Touch
<1>2. CASE UnpackEnds(r)
  BY <1>2, Zenon DEF UnpackEnds
<1>3. CASE DiffEqual(r)
  BY <1>3 DEF DiffEqual
<1>4. CASE DiffFails(r)
  BY <1>4, Zenon DEF DiffFails
<1>5. QED
  BY <1>1, <1>2, <1>3, <1>4 DEF Script

(* The script of the current run keeps its archive, its trees and the blame *)
(* in order.                                                                *)
LEMMA OwnStep ==
  ASSUME TypeOK, Fed, Blamed, Script(run), run \in Runs, run > 0,
         Source = archive[run], run \notin short => archive[run] \in {"all", "none"},
         script[run] \notin Dead
  PROVE  Fed' /\ Blamed'
<1> USE DEF Fed, Blamed, Working, TypeOK, runvars, disk, trees, scripts, history
<1>1. CASE NoSource(run)
  BY <1>1 DEF NoSource
<1>2. CASE UnpackOrig(run)
  BY <1>2 DEF UnpackOrig
<1>3. CASE Unpack(run)
  BY <1>3 DEF Unpack
<1>4. CASE UnpackEnds(run)
  <2>1. PICK tree \in Unpacked(run) :
          /\ corrupted' = (corrupted \/ tree = "corrupt")
          /\ short' = IF opened[run] = "all" /\ tree = "cut" THEN short \cup {run} ELSE short
          /\ \/ /\ script[run] = "orig"
                /\ orig' = [orig EXCEPT ![run] = tree]
                /\ copy' = copy
                /\ script' = [script EXCEPT ![run] = "unpack"]
             \/ /\ script[run] = "copy"
                /\ copy' = [copy EXCEPT ![run] = tree]
                /\ orig' = orig
                /\ script' = [script EXCEPT ![run] = "diff"]
    BY <1>4, Zenon DEF UnpackEnds, Dead
  <2>2. run' = run
    BY <1>4 DEF UnpackEnds
  <2>3. CASE run \in short'
    BY <2>2, <2>3
  <2>4. CASE run \notin short'
    <3>1. run \notin short
      BY <2>1, <2>4
    <3>2. opened[run] = "all"
      BY <2>1, <3>1
    <3>3. tree \in {"whole", "corrupt"}
      BY <2>1, <2>4, <3>2 DEF Unpacked
    <3>4. CASE script[run] = "orig"
      BY <1>4, <2>1, <3>1, <3>3, <3>4 DEF UnpackEnds
    <3>5. CASE script[run] = "copy"
      BY <1>4, <2>1, <3>1, <3>3, <3>5 DEF UnpackEnds
    <3>6. QED
      BY <2>1, <3>4, <3>5
  <2>5. QED
    BY <2>3, <2>4
<1>5. CASE Diff(run)
  BY <1>5 DEF Diff
<1>6. CASE DiffEqual(run)
  BY <1>6 DEF DiffEqual
<1>7. CASE DiffFails(run)
  BY <1>7 DEF DiffFails, Whole
<1>8. CASE Touch(run)
  BY <1>8 DEF Touch
<1>9. QED
  BY <1>1, <1>2, <1>3, <1>4, <1>5, <1>6, <1>7, <1>8 DEF Script

LEMMA ScriptSound ==
  ASSUME RunInv, Sound, NEW r \in Runs, Script(r), ~quit
  PROVE  Sound'
<1>0. Alone /\ OnTop /\ Fed /\ Blamed /\ TypeOK
  BY DEF Sound, RunInv
<1>1. UNCHANGED <<runvars, disk, quit>>
  BY <1>0, ScriptMoves
<1>a. short \subseteq short'
  BY Zenon DEF Script, NoSource, UnpackOrig, Unpack, UnpackEnds, Diff, DiffEqual,
               DiffFails, Touch, history
<1>b. run' = run /\ pc' = pc /\ mounted' = mounted /\ archive' = archive
  BY <1>1 DEF runvars, disk
<1>2. Alone' /\ OnTop'
  <2>1. Alone'
    BY <1>0, <1>b, ScriptWakesNone DEF Alone
  <2>2. OnTop'
    BY <1>0, <1>a, <1>b DEF OnTop
  <2>3. QED
    BY <2>1, <2>2
<1>3. CASE script[r] \in Dead
  <2>1. run > 0 => script'[run] = script[run] /\ orig'[run] = orig[run] /\ copy'[run] = copy[run]
    <3>1. run > 0 => run \in Runs
      BY <1>0 DEF TypeOK, Runs
    <3>2. QED
      BY <1>0, <1>3, <3>1, ScriptMoves
  <2>2. /\ (corrupted => corrupted') /\ short \subseteq short'
        /\ flag' = flag /\ opened' = opened
    BY <1>0, <1>3, LeftBehind
  <2>3. Fed' /\ Blamed'
    BY <1>0, <1>1, <2>1, <2>2 DEF Fed, Blamed, Working, runvars, disk
  <2>4. QED
    BY <1>2, <2>3 DEF Sound
<1>4. CASE script[r] \notin Dead
  <2>1. r \in Alive
    BY <1>4 DEF Alive, Dead
  <2>2. /\ r = run /\ run \in Runs /\ Source = archive[run]
        /\ (run \notin short => archive[run] \in {"all", "none"})
    BY <1>0, <2>1, OwnSource
  <2>3. Fed' /\ Blamed'
    BY <1>0, <1>4, <2>2, OwnStep DEF Runs
  <2>4. QED
    BY <1>2, <2>3 DEF Sound
<1>5. QED
  BY <1>3, <1>4

LEMMA SoundNext ==
  ASSUME RunInv, Sound, [Next]_vars
  PROVE  Sound'
<1>1. CASE quit'
  BY <1>1 DEF Sound
<1>2. CASE ~quit'
  <2>1. CASE UNCHANGED vars
    BY <2>1 DEF vars, runvars, disk, scripts, trees, history, Sound, Alone, OnTop, Fed, Blamed, Alive
  <2>2. CASE Run
    <3>1. ~quit
      BY <1>2, <2>2 DEF Run, Begin, Mount, CopyHalf, Copy, CopyShort, Spawn, Poll, List, Kill, Umount, history
    <3>2. QED
      BY <2>2, <3>1, RunSound
  <2>3. CASE Quit
    BY <1>2, <2>3 DEF Quit
  <2>4. ASSUME NEW r \in Runs, Script(r)
        PROVE  Sound'
    <3>1. ~quit
      BY <1>2, <2>4, ScriptMoves DEF RunInv
    <3>2. QED
      BY <2>4, <3>1, ScriptSound
  <2>5. QED
    BY <2>1, <2>2, <2>3, <2>4 DEF Next
<1>3. QED
  BY <1>1, <1>2

LEMMA SoundAlways == Spec => []Sound
<1>1. Init => Sound
  BY BurnInAssumption DEF Init, Sound, Alone, OnTop, Fed, Blamed, Alive, Runs
<1>2. RunInv /\ Sound /\ [Next]_vars => Sound'
  BY SoundNext
<1>3. QED
  BY <1>1, <1>2, RunInvAlways, PTL DEF Spec

(* A FAIL blames the hardware of the run that shows it: neither the flag of *)
(* an earlier run nor an archive not yet copied makes one, as long as no    *)
(* run was ended early and cp and tar found the space they needed.          *)
THEOREM FailIsTrue == Spec => []NoFalseFail
<1>1. Sound => NoFalseFail
  BY DEF Sound, Blamed, NoFalseFail
<1>2. QED
  BY <1>1, SoundAlways, PTL

(* As long as no run was ended early, and cp and tar found the space they   *)
(* needed, diff is given whole trees, or trees a fault has changed.         *)
THEOREM WholeTreesCompared == Spec => []NoCutTrees
<1>1. Sound => NoCutTrees
  BY DEF Sound, Fed, Working, NoCutTrees
<1>2. QED
  BY <1>1, SoundAlways, PTL
=============================================================================
