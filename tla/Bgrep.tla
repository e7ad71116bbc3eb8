-------------------------------- MODULE Bgrep --------------------------------
(***************************************************************************)
(* rumt/bgrep.c: it prints the addresses at which a string of bytes occurs *)
(* on its standard input.  The bytes to look for are kept in reverse, in   *)
(* look_for; p is the index of the byte expected next, so that the bytes   *)
(* look_for[p+1 .. ] are those already matched, last one first; and        *)
(* look_for_link tells where p goes when the expected byte does not come.  *)
(***************************************************************************)
EXTENDS Integers, Sequences, FiniteSetsExt

CONSTANTS
  Bytes,       \* the values of a byte
  MaxPattern,  \* bound of the model: bytes to look for
  MaxText      \* bound of the model: bytes of the input

ASSUME BgrepAssumption == MaxPattern \in Nat /\ MaxText \in Nat

VARIABLES
  n_look_for,     \* number of bytes to look for
  look_for,       \* the bytes to look for, in reverse
  look_for_link,
  pc,             \* "read" the next byte, "match" it, or "end"
  p, o,
  input,          \* history: the bytes read; the last one is the current one
  printed         \* what was printed, in order

pattern == <<n_look_for, look_for, look_for_link>>
vars    == <<pattern, pc, p, o, input, printed>>

Last(n) == n - 1

(* memcmp(look_for + i + 1, look_for + j, n_look_for - j) == 0 *)
SameTail(bytes, n, i, j) ==
  \A k \in 0..(n - 1 - j) : bytes[i + 1 + k] = bytes[j + k]

(* Mutant: the search for a link goes on from the index itself. *)
LinksSelf(bytes, n) ==
  [i \in 0..(n - 1) |->
     LET J == {j \in (i + 1)..(n - 1) : SameTail(bytes, n, i, j)}
     IN  IF J = {} THEN n - 1 ELSE Min(J) - 1]

(* Mutant: the loop does not break at the first one that fits. *)
LinksLast(bytes, n) ==
  [i \in 0..(n - 1) |->
     LET J == {j \in (i + 2)..(n - 1) : SameTail(bytes, n, i, j)}
     IN  IF J = {} THEN n - 1 ELSE Max(J) - 1]

(* Mutant: one byte less is compared. *)
LinksShort(bytes, n) ==
  [i \in 0..(n - 1) |->
     LET J == {j \in (i + 2)..(n - 1) :
                 \A k \in 0..(n - 2 - j) : bytes[i + 1 + k] = bytes[j + k]}
     IN  IF J = {} THEN n - 1 ELSE Min(J) - 1]

(* make_kmp_links: the longest part of what is matched that is again a     *)
(* beginning of what is looked for, or nothing.                            *)
Links(bytes, n) ==
  [i \in 0..(n - 1) |->
     LET J == {j \in (i + 2)..(n - 1) : SameTail(bytes, n, i, j)}
     IN  IF J = {} THEN n - 1 ELSE Min(J) - 1]

(* main, up to the loop: any bytes may be given, at least one. *)
Init ==
  /\ n_look_for \in 1..MaxPattern
  /\ look_for \in [0..(n_look_for - 1) -> Bytes]
  /\ look_for_link = Links(look_for, n_look_for)
  /\ pc = "read"
  /\ p = Last(n_look_for)
  /\ o = 0
  /\ input = << >> /\ printed = << >>

Current  == input[Len(input)]
Expected == Current = look_for[p]

Read ==
  /\ pc = "read"
  /\ o < MaxText
  /\ \E byte \in Bytes : input' = Append(input, byte)
  /\ o' = o + 1
  /\ pc' = "match"
  /\ UNCHANGED <<pattern, p, printed>>

EndOfInput ==
  /\ pc = "read"
  /\ pc' = "end"
  /\ UNCHANGED <<pattern, p, o, input, printed>>

(* One turn of the inner while. *)
Follow ==
  /\ pc = "match"
  /\ p # Last(n_look_for) /\ ~Expected
  /\ p' = look_for_link[p]
  /\ UNCHANGED <<pattern, pc, o, input, printed>>

Mismatch ==
  /\ pc = "match"
  /\ p = Last(n_look_for) /\ ~Expected
  /\ pc' = "read"
  /\ UNCHANGED <<pattern, p, o, input, printed>>

Advance ==
  /\ pc = "match"
  /\ Expected /\ p # 0
  /\ p' = p - 1
  /\ pc' = "read"
  /\ UNCHANGED <<pattern, o, input, printed>>

(* Mutant: the address is that of the byte after the occurrence. *)
FoundAfter ==
  /\ pc = "match"
  /\ Expected /\ p = 0
  /\ printed' = Append(printed, o)
  /\ p' = look_for_link[p]
  /\ pc' = "read"
  /\ UNCHANGED <<pattern, o, input>>

(* Mutant: p is decremented after an occurrence too. *)
FoundDecrements ==
  /\ pc = "match"
  /\ Expected /\ p = 0
  /\ printed' = Append(printed, o - n_look_for)
  /\ p' = look_for_link[p] - 1
  /\ pc' = "read"
  /\ UNCHANGED <<pattern, o, input>>

(* p goes back along the link of the byte that ended the occurrence. *)
Found ==
  /\ pc = "match"
  /\ Expected /\ p = 0
  /\ printed' = Append(printed, o - n_look_for)
  /\ p' = look_for_link[p]
  /\ pc' = "read"
  /\ UNCHANGED <<pattern, o, input>>

Match == Follow \/ Mismatch \/ Advance \/ Found

Stopped == pc = "end" /\ UNCHANGED vars

Next == Read \/ EndOfInput \/ Match \/ Stopped

(* A byte read is matched: the loop is sequential and nothing blocks it. *)
Spec == Init /\ [][Next]_vars /\ WF_vars(Match)

-----------------------------------------------------------------------------
(* The addresses at which the bytes looked for occur in the input read. *)
OccursAt(a) ==
  /\ a + n_look_for <= Len(input)
  /\ \A k \in 0..(n_look_for - 1) :
        input[a + 1 + k] = look_for[Last(n_look_for) - k]

Occurrences == {a \in 0..(Len(input) - n_look_for) : OccursAt(a)}

(* The input read and matched. *)
Matched == IF pc = "match" THEN Len(input) - 1 ELSE Len(input)

(* look_for[i+1 .. ] is what the last bytes of the input were, the last    *)
(* one first.                                                              *)
HoldsAt(i) ==
  /\ Last(n_look_for) - i <= Matched
  /\ \A k \in (i + 1)..Last(n_look_for) :
        input[Matched - (k - i - 1)] = look_for[k]

TypeOK ==
  /\ n_look_for \in 1..MaxPattern
  /\ look_for \in [0..(n_look_for - 1) -> Bytes]
  /\ look_for_link \in [0..(n_look_for - 1) -> 0..(n_look_for - 1)]
  /\ pc \in {"read", "match", "end"}
  /\ p \in 0..(n_look_for - 1)
  /\ o = Len(input) /\ o \in 0..MaxText
  /\ input \in Seq(Bytes)
  /\ printed \in Seq(Nat)

(* The assertion of make_kmp_links, and what its search order adds: the    *)
(* bytes after the link are a beginning of the bytes after the index, the  *)
(* longest proper one that is.                                             *)
LinksAreLongest ==
  \A i \in 0..Last(n_look_for) :
    /\ look_for_link[i] > i \/ look_for_link[i] = Last(n_look_for)
    /\ \A j \in (i + 1)..Last(n_look_for) :
         SameTail(look_for, n_look_for, i, j + 1) => look_for_link[i] <= j
    /\ SameTail(look_for, n_look_for, i, look_for_link[i] + 1)

(* Until something is printed p says how much of the bytes looked for ends *)
(* the input, and no more of them does.                                    *)
StateIsLongest ==
  printed = << >> =>
    /\ HoldsAt(p)
    /\ pc # "match" => \A i \in 0..(p - 1) : ~HoldsAt(i)

(* What is printed first is the first occurrence: the search misses        *)
(* nothing and invents nothing before it.                                  *)
FirstIsExact ==
  pc # "match" =>
    /\ printed = << >> => Occurrences = {}
    /\ printed # << >> => printed[1] = Min(Occurrences)

(* An address printed at which the bytes are not lies inside the one       *)
(* printed before it: what was matched after the end of that one is always *)
(* really there.                                                           *)
FalseOnesOverlap ==
  \A i \in DOMAIN printed :
    \/ OccursAt(printed[i])
    \/ i > 1 /\ printed[i] < printed[i - 1] + n_look_for

(* What is missed lies inside an address printed too: every occurrence is   *)
(* printed, or begins before the end of an address printed before it, which *)
(* need not be an occurrence itself.                                        *)
MissedOverlap ==
  pc # "match" =>
    \A a \in Occurrences :
      \E i \in DOMAIN printed : printed[i] <= a /\ a < printed[i] + n_look_for

(* The inner while ends for every byte. *)
EveryByteMatched == pc = "match" ~> pc = "read"
=============================================================================
