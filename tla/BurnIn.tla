------------------------------- MODULE BurnIn -------------------------------
(***************************************************************************)
(* emi-test/run and the script it starts, cpu-mem-ide-burn.sh, which over  *)
(* and over unpacks an archive and compares the tree with a first copy.    *)
(* run polls for the error flag and kills everything by name at the end.   *)
(*                                                                         *)
(* A run that is ended from outside leaves its script behind (a background *)
(* job ignores the interrupt), so the scripts are indexed by the run that  *)
(* started them.  Each run mounts a new tmpfs over /burn-tmp; a script     *)
(* works in the one of its run, and reads the archive of the topmost.      *)
(* A tree is "whole", "cut" (from an archive missing or half copied, or    *)
(* for want of space: a tmpfs holds half of the memory at most, and one    *)
(* that could not be unmounted keeps its own) or "corrupt" (a fault of the *)
(* hardware).                                                              *)
(***************************************************************************)
EXTENDS Integers, FiniteSets, FiniteSetsExt

CONSTANTS
  MaxPolls,   \* 240, in the program
  MaxRuns,    \* bound of the model: runs started
  Tarball,    \* whether linux.tar.gz is in the directory of run
  Corrupting, \* whether the hardware may fail
  Filling,    \* whether cp and tar may find no space left
  Quitting    \* whether the user may end a run

ASSUME BurnInAssumption ==
  /\ MaxPolls \in Nat \ {0} /\ MaxRuns \in Nat \ {0}
  /\ Tarball \in BOOLEAN /\ Corrupting \in BOOLEAN
  /\ Filling \in BOOLEAN /\ Quitting \in BOOLEAN

Runs == 1..MaxRuns

VARIABLES
  run,      \* number of the current run, 0 before the first
  pc,       \* where run is
  i,        \* polls done
  flag,     \* /tmp/frt-burn-error exists
  archive,  \* of each tmpfs: "none", "half" or "all"
  mounted,  \* the tmpfs's mounted
  victims,  \* the scripts ps listed
  verdict,  \* "none", "PASS" or "FAIL": shown once the scripts are killed
  script,   \* where each script is
  child,    \* what a script waits for: "unpack", "diff" or "none"
  opened,   \* the archive as it was when the unpacking started
  orig, copy,  \* the trees of each script
  corrupted,   \* history: in this run the hardware failed
  short,       \* history: the runs whose cp or tar found no space left
  quit         \* history: the user has ended a run

runvars  == <<run, pc, i, victims, verdict>>
disk     == <<archive, mounted>>
trees    == <<opened, orig, copy>>
scripts  == <<script, child, trees>>
history  == <<corrupted, short, quit>>
vars     == <<runvars, flag, disk, scripts, history>>

Init ==
  /\ run = 0 /\ pc = "off" /\ i = 0
  /\ flag = FALSE
  /\ archive = [r \in Runs |-> "none"] /\ mounted = {}
  /\ victims = {} /\ verdict = "none"
  /\ script = [r \in Runs |-> "off"]
  /\ child = [r \in Runs |-> "none"]
  /\ opened = [r \in Runs |-> "none"]
  /\ orig = [r \in Runs |-> "whole"] /\ copy = [r \in Runs |-> "whole"]
  /\ corrupted = FALSE /\ short = {} /\ quit = FALSE

-----------------------------------------------------------------------------
(* run *)

(* Mutant: the flag of an earlier run is left. *)
BeginKeepsFlag ==
  /\ pc = "off" /\ run < MaxRuns
  /\ run' = run + 1
  /\ i' = 0 /\ verdict' = "none" /\ victims' = {}
  /\ corrupted' = FALSE
  /\ pc' = "mount"
  /\ UNCHANGED <<flag, disk, scripts, short, quit>>

Begin ==
  /\ pc = "off" /\ run < MaxRuns
  /\ run' = run + 1
  /\ flag' = FALSE
  /\ i' = 0 /\ verdict' = "none" /\ victims' = {}
  /\ corrupted' = FALSE
  /\ pc' = "mount"
  /\ UNCHANGED <<disk, scripts, short, quit>>

Mount ==
  /\ pc = "mount"
  /\ mounted' = mounted \cup {run}
  /\ pc' = "copy"
  /\ UNCHANGED <<run, i, victims, verdict, flag, archive, scripts, history>>

(* Mutant: cp runs in the background. *)
CopyOn ==
  /\ pc = "copy"
  /\ archive' = [archive EXCEPT ![run] = IF Tarball THEN "half" ELSE "none"]
  /\ pc' = "spawn"
  /\ UNCHANGED <<run, i, victims, verdict, flag, mounted, scripts, history>>

(* cp takes time; without a tarball it only complains, and if there is no  *)
(* space left too: its status is not looked at.                            *)
CopyHalf ==
  /\ pc = "copy" /\ Tarball /\ archive[run] = "none"
  /\ archive' = [archive EXCEPT ![run] = "half"]
  /\ UNCHANGED <<runvars, flag, mounted, scripts, history>>

Copy ==
  /\ pc = "copy"
  /\ Tarball => archive[run] = "half"
  /\ archive' = [archive EXCEPT ![run] = IF Tarball THEN "all" ELSE "none"]
  /\ pc' = "spawn"
  /\ UNCHANGED <<run, i, victims, verdict, flag, mounted, scripts, history>>

CopyShort ==
  /\ Filling
  /\ pc = "copy" /\ archive[run] = "half"
  /\ short' = short \cup {run}
  /\ pc' = "spawn"
  /\ UNCHANGED <<run, i, victims, verdict, flag, disk, scripts, corrupted, quit>>

Spawn ==
  /\ pc = "spawn"
  /\ script' = [script EXCEPT ![run] = "begin"]
  /\ pc' = "poll"
  /\ UNCHANGED <<run, i, victims, verdict, flag, disk, child, trees, history>>

(* Mutant: one poll too many. *)
PollMore ==
  /\ pc = "poll"
  /\ \/ flag /\ pc' = "list" /\ verdict' = "FAIL" /\ i' = i
     \/ /\ ~flag
        /\ i' = i + 1
        /\ IF i + 1 <= MaxPolls THEN UNCHANGED <<pc, verdict>>
           ELSE pc' = "list" /\ verdict' = "PASS"
  /\ UNCHANGED <<run, victims, flag, disk, scripts, history>>

(* Mutant: the polls are not counted. *)
PollUncounted ==
  /\ pc = "poll"
  /\ flag /\ pc' = "list" /\ verdict' = "FAIL"
  /\ UNCHANGED <<run, i, victims, flag, disk, scripts, history>>

(* sleep 60, then the test for the flag; the loop ends after MaxPolls.     *)
Poll ==
  /\ pc = "poll"
  /\ \/ flag /\ pc' = "list" /\ verdict' = "FAIL" /\ i' = i
     \/ /\ ~flag
        /\ i' = i + 1
        /\ IF i + 1 < MaxPolls THEN UNCHANGED <<pc, verdict>>
           ELSE pc' = "list" /\ verdict' = "PASS"
  /\ UNCHANGED <<run, victims, flag, disk, scripts, history>>

Alive == {r \in Runs : script[r] \notin {"off", "exited", "killed"}}

(* Mutant: only the script this run has started is looked for. *)
ListOwn ==
  /\ pc = "list"
  /\ victims' = Alive \cap {run}
  /\ pc' = "kill"
  /\ UNCHANGED <<run, i, verdict, flag, disk, scripts, history>>

(* ps | grep cpu-mem-ide-burn.sh finds the scripts of every run. *)
List ==
  /\ pc = "list"
  /\ victims' = Alive
  /\ pc' = "kill"
  /\ UNCHANGED <<run, i, verdict, flag, disk, scripts, history>>

(* kill -9 of the scripts; what they wait for goes on. *)
Kill ==
  /\ pc = "kill"
  /\ script' = [r \in Runs |->
                  IF r \in victims /\ r \in Alive THEN "killed" ELSE script[r]]
  /\ pc' = "umount"
  /\ UNCHANGED <<run, i, victims, verdict, flag, disk, child, trees, history>>

Busy(r) == r \in Alive \/ child[r] # "none"

(* umount fails while something works in the topmost tmpfs, or reads its   *)
(* archive.                                                                *)
Umount ==
  /\ pc = "umount"
  /\ \/ ~Busy(Max(mounted)) /\ mounted' = mounted \ {Max(mounted)}
     \/ Busy(Max(mounted)) /\ mounted' = mounted
     \/ (\E r \in Runs : child[r] = "unpack") /\ mounted' = mounted
  /\ pc' = "off"
  /\ UNCHANGED <<run, i, victims, verdict, flag, archive, scripts, history>>

(* The user ends run, but not the jobs it has started. *)
Quit ==
  /\ Quitting /\ run < MaxRuns
  /\ pc \in {"mount", "copy", "spawn", "poll"}
  /\ pc' = "off"
  /\ quit' = TRUE
  /\ UNCHANGED <<run, i, victims, verdict, flag, disk, scripts, corrupted, short>>

Run ==
  \/ Begin \/ Mount \/ CopyHalf \/ Copy \/ CopyShort \/ Spawn
  \/ Poll \/ List \/ Kill \/ Umount

-----------------------------------------------------------------------------
(* cpu-mem-ide-burn.sh *)

Source == IF mounted = {} THEN "none" ELSE archive[Max(mounted)]

(* Without an archive the script ends, and leaves no flag. *)
NoSource(r) ==
  /\ script[r] = "begin"
  /\ Source = "none"
  /\ script' = [script EXCEPT ![r] = "exited"]
  /\ UNCHANGED <<runvars, flag, disk, child, trees, history>>

(* gunzip | tar of the first tree. *)
UnpackOrig(r) ==
  /\ script[r] = "begin"
  /\ Source # "none"
  /\ script' = [script EXCEPT ![r] = "orig"]
  /\ child' = [child EXCEPT ![r] = "unpack"]
  /\ opened' = [opened EXCEPT ![r] = Source]
  /\ UNCHANGED <<runvars, flag, disk, orig, copy, history>>

(* gunzip | tar of a tree to compare with it. *)
Unpack(r) ==
  /\ script[r] = "unpack"
  /\ script' = [script EXCEPT ![r] = "copy"]
  /\ child' = [child EXCEPT ![r] = "unpack"]
  /\ opened' = [opened EXCEPT ![r] = Source]
  /\ UNCHANGED <<runvars, flag, disk, orig, copy, history>>

(* What gunzip and tar make of the archive they found; their status is not *)
(* looked at.                                                              *)
Unpacked(r) ==
  (CASE opened[r] = "all"  -> {"whole"}
     [] opened[r] = "half" -> {"whole", "cut"}
     [] opened[r] = "none" -> {"cut"})
    \cup (IF Filling THEN {"cut"} ELSE {})
    \cup (IF Corrupting THEN {"corrupt"} ELSE {})

(* The unpacking ends; a script that is still there goes on. *)
UnpackEnds(r) ==
  /\ child[r] = "unpack"
  /\ child' = [child EXCEPT ![r] = "none"]
  /\ \E tree \in Unpacked(r) :
       /\ corrupted' = (corrupted \/ tree = "corrupt")
       /\ short' = IF opened[r] = "all" /\ tree = "cut" THEN short \cup {r} ELSE short
       /\ \/ /\ script[r] = "orig"
             /\ orig' = [orig EXCEPT ![r] = tree]
             /\ copy' = copy
             /\ script' = [script EXCEPT ![r] = "unpack"]
          \/ /\ script[r] = "copy"
             /\ copy' = [copy EXCEPT ![r] = tree]
             /\ orig' = orig
             /\ script' = [script EXCEPT ![r] = "diff"]
          \/ script[r] = "killed" /\ UNCHANGED <<orig, copy, script>>
  /\ UNCHANGED <<runvars, flag, disk, opened, quit>>

Diff(r) ==
  /\ script[r] = "diff"
  /\ script' = [script EXCEPT ![r] = "compare"]
  /\ child' = [child EXCEPT ![r] = "diff"]
  /\ UNCHANGED <<runvars, flag, disk, trees, history>>

(* Two trees that are not whole may be the same or not; a faulty machine   *)
(* may see any difference.                                                 *)
Whole(r)    == orig[r] = "whole" /\ copy[r] = "whole"
MayEqual(r) == orig[r] = copy[r]

DiffEqual(r) ==
  /\ child[r] = "diff" /\ MayEqual(r)
  /\ child' = [child EXCEPT ![r] = "none"]
  /\ script' = [script EXCEPT ![r] = IF @ = "compare" THEN "unpack" ELSE @]
  /\ UNCHANGED <<runvars, flag, disk, trees, history>>

DiffFails(r) ==
  /\ child[r] = "diff" /\ (Whole(r) => Corrupting)
  /\ child' = [child EXCEPT ![r] = "none"]
  /\ script' = [script EXCEPT ![r] = IF @ = "compare" THEN "touch" ELSE @]
  /\ corrupted' = (corrupted \/ Whole(r))
  /\ UNCHANGED <<runvars, flag, disk, trees, short, quit>>

Touch(r) ==
  /\ script[r] = "touch"
  /\ flag' = TRUE
  /\ script' = [script EXCEPT ![r] = "exited"]
  /\ UNCHANGED <<runvars, disk, child, trees, history>>

Script(r) ==
  \/ NoSource(r) \/ UnpackOrig(r) \/ Unpack(r) \/ UnpackEnds(r)
  \/ Diff(r) \/ DiffEqual(r) \/ DiffFails(r) \/ Touch(r)

Next == Run \/ Quit \/ \E r \in Runs : Script(r)

Spec ==
  /\ Init /\ [][Next]_vars
  /\ WF_vars(Run) /\ \A r \in Runs : WF_vars(Script(r))

-----------------------------------------------------------------------------
TypeOK ==
  /\ run \in 0..MaxRuns /\ i \in 0..MaxPolls
  /\ pc \in {"off", "mount", "copy", "spawn", "poll", "list", "kill", "umount"}
  /\ flag \in BOOLEAN /\ corrupted \in BOOLEAN /\ quit \in BOOLEAN
  /\ short \subseteq Runs
  /\ archive \in [Runs -> {"none", "half", "all"}]
  /\ mounted \subseteq 1..run /\ victims \subseteq 1..run
  /\ verdict \in {"none", "PASS", "FAIL"}
  /\ script \in [Runs -> {"off", "begin", "orig", "unpack", "copy", "diff",
                          "compare", "touch", "exited", "killed"}]
  /\ child \in [Runs -> {"none", "unpack", "diff"}]
  /\ opened \in [Runs -> {"none", "half", "all"}]
  /\ orig \in [Runs -> {"whole", "cut", "corrupt"}]
  /\ copy \in [Runs -> {"whole", "cut", "corrupt"}]

Shown == verdict # "none" /\ pc \in {"umount", "off"}

(* When a verdict is shown no script goes on burning, whichever run has    *)
(* started it: the processes are looked for by name (run:66-79).           *)
NothingBurns == Shown => Alive = {}

(* A machine that does not fail is not failed: an archive missing or half  *)
(* copied, or the flag of an earlier run, does not make a verdict, unless  *)
(* the user has ended a run and left its script behind, or cp or tar has   *)
(* found no space left, which a sound machine is failed for.               *)
NoFalseFail ==
  Shown /\ verdict = "FAIL" /\ ~quit /\ run \notin short => corrupted

(* The script of the current run compares whole trees, or trees a fault of *)
(* the hardware has changed, if cp and tar had the space they needed.      *)
NoCutTrees ==
  run > 0 /\ ~quit /\ run \notin short /\ script[run] = "diff" =>
    orig[run] # "cut" /\ copy[run] # "cut"

(* A run that has started ends, or is ended. *)
RunEnds == pc = "mount" ~> pc = "off"
=============================================================================
