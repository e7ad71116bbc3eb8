----------------------------- MODULE UrumtProofs -----------------------------
(***************************************************************************)
(* Proofs about Urumt for any number of processes, pages, frames and bits: *)
(* a page is compared with its own fill, no test is lost or counted twice, *)
(* one check adds at most max_bugs_panic bad bits, nothing but flips is    *)
(* recorded, and no counter falls.                                         *)
(***************************************************************************)
EXTENDS Urumt, FiniteSetTheorems, TLAPS

(* No two pages, of one process or of two, lie in the same frame.          *)
Exclusive ==
  \A p, q \in Running : \A g, h \in Pages :
    frame[p][g] = frame[q][h] => p = q /\ g = h

(* The pass page g was filled in last, negative if it was never filled.    *)
FillOf(p, g) ==
  ipass[p] - ipage[p] + g - (IF g < ipage[p] THEN 0 ELSE NPages)

OwnFillsOf(p) ==
  \A g \in Pages :
    FillOf(p, g) >= 0 => cell[frame[p][g]].seed = Seed(p, g, FillOf(p, g))

OwnFills == \A p \in Running : OwnFillsOf(p)

(* The check runs NPages - 1 fills behind the filling.                     *)
BehindOf(p) ==
  /\ retard[p] > 0 =>
       /\ pc[p] = "fill"
       /\ ipage[p] + retard[p] = NPages - 1 /\ ipass[p] = ipage[p]
       /\ opage[p] = 0 /\ opass[p] = 0
  /\ retard[p] = 0 /\ pc[p] = "fill" =>
       /\ opage[p] = NextPage(ipage[p])
       /\ opass[p] = ipass[p] - NPages + 1
  /\ pc[p] # "fill" =>
       /\ retard[p] = 0
       /\ opage[p] = ipage[p]
       /\ opass[p] = ipass[p] - NPages

Behind == \A p \in Running : BehindOf(p)

(* A counter that has been read is not changed before it is written back.  *)
FreshOf(p) ==
  /\ pc[p] = "badwrite" => v[p] = stats[BadOffset(OFrame(p))]
  /\ pc[p] = "checkwrite" => v[p] = stats[CheckOffset(OFrame(p))]
  /\ pc[p] \in {"badread", "badwrite"} => n_errors[p] <= MaxBugsPanic

FreshCounters == \A p \in Procs : FreshOf(p)

(* What a process that starts finds in the variables do_tests declares.    *)
Idle ==
  \A p \in Procs : pc[p] = "off" =>
    /\ ipage[p] = 0 /\ ipass[p] = 0
    /\ opage[p] = 0 /\ opass[p] = 0

IInv == TypeOK /\ Idle /\ Exclusive /\ Behind /\ OwnFills /\ FreshCounters

-----------------------------------------------------------------------------
LEMMA NextPageIs ==
  ASSUME NEW g \in Pages
  PROVE  /\ NextPage(g) = IF g + 1 = NPages THEN 0 ELSE g + 1
         /\ NextPage(g) \in Pages
  BY UrumtAssumption DEF NextPage, Pages

LEMMA ModRange ==
  ASSUME NEW a \in Nat, NEW b \in Nat, b > 0
  PROVE  a % b \in 0..(b - 1) /\ a % b <= a
  OBVIOUS

LEMMA IncrementedRange ==
  ASSUME NEW old \in 0..(IntMod - 1), NEW inc \in Nat
  PROVE  /\ Incremented(old, inc) \in 0..(IntMod - 1)
         /\ Incremented(old, inc) <= old + inc
  <1>1. (old + inc) % LongMod \in 0..(LongMod - 1) /\ (old + inc) % LongMod <= old + inc
    BY ModRange, UrumtAssumption
  <1>2. /\ ((old + inc) % LongMod) % IntMod \in 0..(IntMod - 1)
        /\ ((old + inc) % LongMod) % IntMod <= (old + inc) % LongMod
    BY <1>1, ModRange, UrumtAssumption
  <1>3. ASSUME (old + inc) % LongMod < old PROVE old + inc >= LongMod
    <2>1. SUFFICES ASSUME old + inc < LongMod PROVE FALSE
      BY UrumtAssumption
    <2>2. (old + inc) % LongMod = old + inc
      BY <2>1, UrumtAssumption
    <2>3. QED BY <1>3, <2>2
  <1>4. QED
    BY <1>1, <1>2, <1>3, UrumtAssumption DEF Incremented

(* On a machine whose unsigned long is as wide as a counter an increment   *)
(* by one stops at the largest counter.                                    *)
LEMMA IncrementedByOne ==
  ASSUME LongMod = IntMod, NEW old \in 0..(IntMod - 1)
  PROVE  Incremented(old, 1) = IF old < IntMod - 1 THEN old + 1 ELSE old
  <1>1. (old + 1) % IntMod = IF old + 1 = IntMod THEN 0 ELSE old + 1
    BY UrumtAssumption
  <1>2. 0 % IntMod = 0 /\ (old + 1 < IntMod => (old + 1) % IntMod = old + 1)
    BY UrumtAssumption
  <1>3. QED
    BY <1>1, <1>2, UrumtAssumption DEF Incremented

(* On such a machine no increment makes a counter smaller.                 *)
LEMMA IncrementedGrows ==
  ASSUME LongMod = IntMod, NEW old \in 0..(IntMod - 1), NEW inc \in Nat
  PROVE  Incremented(old, inc) >= old
  <1>1. (old + inc) % IntMod \in 0..(IntMod - 1)
    BY ModRange, UrumtAssumption
  <1>2. \A a \in 0..(IntMod - 1) : a % IntMod = a
    BY UrumtAssumption
  <1>3. QED
    BY <1>1, <1>2, UrumtAssumption DEF Incremented

LEMMA DifferingCount ==
  ASSUME TypeOK, NEW p \in Procs
  PROVE  Cardinality(Differing(p)) \in Nat
  <1>1. OFrame(p) \in Frames
    BY DEF TypeOK, OFrame
  <1>2. Differing(p) \subseteq Bits
    BY <1>1 DEF TypeOK, Differing, Content
  <1>3. QED
    BY <1>2, FS_Subset, FS_CardinalityType, UrumtAssumption

LEMMA LockedFrames ==
  ASSUME NEW p \in Running, NEW g \in Pages
  PROVE  frame[p][g] \in Locked
  BY DEF Locked

LEMMA BlankContent == Blank \in Content
  BY DEF Blank, Content

LEMMA InitHolds == Init => IInv
  <1> SUFFICES ASSUME Init PROVE IInv
    OBVIOUS
  <1>a. 0 \in Pages /\ 0 \in Frames
    BY UrumtAssumption DEF Pages, Frames
  <1>1. Running = {}
    BY DEF Init, Running
  <1>2. TypeOK
    <2>1. cell \in [Frames -> Content] /\ frame \in [Procs -> [Pages -> Frames]]
      BY BlankContent, <1>a DEF Init
    <2>2. pc \in [Procs -> Places] /\ v \in [Procs -> 0..(IntMod - 1)]
      BY UrumtAssumption DEF Init, Places
    <2>3. /\ stats \in [0..(2 * NFrames - 1) -> 0..(IntMod - 1)]
          /\ tested \in [Frames -> 0..(IntMod - 1)] /\ flips \in [Frames -> Nat]
      BY UrumtAssumption DEF Init
    <2>4. QED
      BY <2>1, <2>2, <2>3, <1>a DEF Init, TypeOK
  <1>3. Exclusive /\ Behind /\ OwnFills
    BY <1>1 DEF Exclusive, Behind, OwnFills
  <1>4. FreshCounters /\ Idle
    BY DEF Init, FreshCounters, FreshOf, Idle
  <1>5. QED BY <1>2, <1>3, <1>4 DEF IInv

(* The type invariant is preserved.                                        *)
LEMMA TypeStep == TypeOK /\ [Next]_vars => TypeOK'
  <1> SUFFICES ASSUME TypeOK, [Next]_vars PROVE TypeOK'
    OBVIOUS
  <1>c. ASSUME NEW p \in Procs PROVE OFrame(p) \in Frames
    BY <1>c DEF TypeOK, OFrame
  <1>d. 0 \in Pages /\ 0 \in Frames /\ NPages - 1 \in Pages
    BY UrumtAssumption DEF Pages, Frames
  <1> USE DEF At, Goto, ring, file
  <1>1. ASSUME NEW p \in Procs, Start(p) PROVE TypeOK'
    <2>1. frame' \in [Procs -> [Pages -> Frames]]
      <3>1. PICK place \in [Pages -> Frames \ Locked] :
              frame' = [frame EXCEPT ![p] = place]
        BY <1>1 DEF Start
      <3>2. place \in [Pages -> Frames]
        OBVIOUS
      <3>3. QED BY <3>1, <3>2 DEF TypeOK
    <2>4. retard' \in [Procs -> Pages]
      BY <1>1, <1>d DEF Start, TypeOK
    <2>2. pc' \in [Procs -> Places]
      BY <1>1 DEF Start, TypeOK, Places
    <2>3. QED
      BY <1>1, <2>1, <2>2, <2>4 DEF Start, TypeOK
  <1>2. ASSUME NEW p \in Procs, Fill(p) PROVE TypeOK'
    <2>1. [seed |-> Seed(p, ipage[p], ipass[p]), bad |-> {}] \in Content
      BY DEF TypeOK, Seed, Content
    <2>2. cell' \in [Frames -> Content]
      BY <1>2, <2>1 DEF Fill, TypeOK
    <2>3. ipage' \in [Procs -> Pages] /\ ipass' \in [Procs -> Nat]
      BY <1>2, NextPageIs, SMTT(30) DEF Fill, TypeOK
    <2>4. retard' \in [Procs -> Pages] /\ pc' \in [Procs -> Places]
      <3>1. ASSUME NEW k \in Pages, k > 0 PROVE k - 1 \in Pages
        BY <3>1, UrumtAssumption DEF Pages
      <3>2. retard' \in [Procs -> Pages]
        <4>1. CASE retard[p] > 0
          <5>1. retard[p] - 1 \in Pages
            BY <3>1, <4>1 DEF TypeOK
          <5>2. QED
            BY <1>2, <4>1, <5>1 DEF Fill, TypeOK
        <4>2. CASE ~(retard[p] > 0)
          BY <1>2, <4>2 DEF Fill, TypeOK
        <4>3. QED BY <4>1, <4>2
      <3>3. pc' \in [Procs -> Places]
        BY <1>2 DEF Fill, TypeOK, Places
      <3>4. QED BY <3>2, <3>3
    <2>5. QED
      BY <1>2, <2>2, <2>3, <2>4 DEF Fill, TypeOK
  <1>e. ASSUME NEW p \in Procs, GoOn(p)
        PROVE  /\ pc' \in [Procs -> Places] /\ opage' \in [Procs -> Pages]
               /\ opass' \in [Procs -> Nat]
    <2>1. pc' \in [Procs -> Places]
      BY <1>e DEF GoOn, TypeOK, Places
    <2>2. opage' \in [Procs -> Pages] /\ opass' \in [Procs -> Nat]
      <3>1. CASE Found(p)
        BY <1>e, <3>1 DEF GoOn, TypeOK
      <3>2. CASE ~Found(p)
        <4>1. NextPage(opage[p]) \in Pages
          BY NextPageIs DEF TypeOK
        <4>2. /\ opage' = [opage EXCEPT ![p] = NextPage(@)]
              /\ opass' = [opass EXCEPT ![p] = @ + 1]
          BY <1>e, <3>2 DEF GoOn
        <4>3. QED
          BY <4>1, <4>2 DEF TypeOK
      <3>3. QED BY <3>1, <3>2
    <2>3. QED BY <2>1, <2>2
  <1>3. ASSUME NEW p \in Procs, Compare(p) PROVE TypeOK'
    <2>1. CASE GoOn(p)
      BY <1>3, <2>1, <1>e DEF Compare, TypeOK
    <2>2. CASE ~GoOn(p)
      BY <1>3, <2>2 DEF Compare, TypeOK, Places
    <2>3. QED BY <2>1, <2>2
  <1>4. ASSUME NEW p \in Procs, Count(p) PROVE TypeOK'
    <2>1. n_errors' \in [Procs -> Nat]
      BY <1>4, DifferingCount DEF Count, TypeOK
    <2>2. CASE GoOn(p)
      BY <1>4, <2>1, <2>2, <1>e DEF Count, TypeOK
    <2>3. CASE ~GoOn(p)
      BY <1>4, <2>1, <2>3 DEF Count, TypeOK, Places
    <2>4. QED BY <2>2, <2>3
  <1>5. ASSUME NEW p \in Procs, Exit(p) PROVE TypeOK'
    <2>1. cell' \in [Frames -> Content]
      BY <1>5, BlankContent DEF Exit, TypeOK
    <2>2. frame' \in [Procs -> [Pages -> Frames]]
      BY <1>5, <1>d DEF Exit, TypeOK
    <2>3. v' \in [Procs -> 0..(IntMod - 1)]
      BY <1>5, UrumtAssumption DEF Exit, TypeOK
    <2>4. QED
      BY <1>5, <1>d, <2>1, <2>2, <2>3 DEF Exit, TypeOK, Places
  <1>f. ASSUME NEW f \in Frames
        PROVE  /\ BadOffset(f) \in 0..(2 * NFrames - 1)
               /\ CheckOffset(f) \in 0..(2 * NFrames - 1)
    BY <1>f, UrumtAssumption DEF BadOffset, CheckOffset, Frames
  <1>6. ASSUME NEW p \in Procs, BadRead(p) \/ CheckRead(p) PROVE TypeOK'
    <2>1. v' \in [Procs -> 0..(IntMod - 1)]
      BY <1>6, <1>c, <1>f DEF BadRead, CheckRead, ReadCounter, TypeOK
    <2>2. QED
      BY <1>6, <2>1 DEF BadRead, CheckRead, ReadCounter, TypeOK, Places
  <1>7. ASSUME NEW p \in Procs, BadWrite(p) PROVE TypeOK'
    <2>1. Incremented(v[p], n_errors[p]) \in 0..(IntMod - 1)
      BY IncrementedRange DEF TypeOK
    <2>2. stats' \in [0..(2 * NFrames - 1) -> 0..(IntMod - 1)]
      BY <1>7, <2>1 DEF BadWrite, TypeOK
    <2>3. QED
      BY <1>7, <2>2 DEF BadWrite, TypeOK, Places
  <1>8. ASSUME NEW p \in Procs, CheckWrite(p) PROVE TypeOK'
    <2>1. Incremented(v[p], 1) \in 0..(IntMod - 1)
      BY IncrementedRange DEF TypeOK
    <2>2. stats' \in [0..(2 * NFrames - 1) -> 0..(IntMod - 1)]
      BY <1>8, <2>1 DEF CheckWrite, TypeOK
    <2>3. tested' \in [Frames -> 0..(IntMod - 1)]
      <3>1. ASSUME NEW t \in 0..(IntMod - 1)
            PROVE  (IF t < IntMod - 1 THEN t + 1 ELSE t) \in 0..(IntMod - 1)
        BY UrumtAssumption
      <3>2. QED
        BY <1>8, <3>1 DEF CheckWrite, TypeOK
    <2>4. opage' \in [Procs -> Pages] /\ opass' \in [Procs -> Nat]
      BY <1>8, NextPageIs DEF CheckWrite, TypeOK
    <2>5. QED
      BY <1>8, <2>2, <2>3, <2>4 DEF CheckWrite, TypeOK, Places
  <1>9. ASSUME Flip PROVE TypeOK'
    <2>1. PICK f \in Locked, b \in Bits :
            /\ cell' = [cell EXCEPT ![f].bad = IF b \in @ THEN @ \ {b} ELSE @ \cup {b}]
            /\ flips' = [flips EXCEPT ![f] = @ + 1]
      BY <1>9 DEF Flip
    <2>2. cell' \in [Frames -> Content]
      <3>1. f \in Frames => cell[f] \in Content
        BY DEF TypeOK
      <3>2. ASSUME f \in Frames, NEW B \in SUBSET Bits
            PROVE  [cell EXCEPT ![f].bad = B] \in [Frames -> Content]
        BY <3>1, <3>2 DEF TypeOK, Content
      <3>3. f \in Frames => cell[f].bad \in SUBSET Bits
        BY <3>1 DEF Content
      <3>4. CASE f \in Frames
        BY <2>1, <3>2, <3>3, <3>4
      <3>5. CASE f \notin Frames
        BY <2>1, <3>5 DEF TypeOK
      <3>6. QED BY <3>4, <3>5
    <2>3. QED
      BY <1>9, <2>1, <2>2 DEF Flip, TypeOK
  <1>10. CASE UNCHANGED vars
    BY <1>10 DEF vars, TypeOK
  <1>11. QED
    BY <1>1, <1>2, <1>3, <1>4, <1>5, <1>6, <1>7, <1>8, <1>9, <1>10
    DEF Next, Step, Panic, Kill

(* The steps of a running process that neither start nor end it.           *)
Inner(p) ==
  \/ Fill(p) \/ Compare(p) \/ Count(p)
  \/ BadRead(p) \/ BadWrite(p) \/ CheckRead(p) \/ CheckWrite(p)

LEMMA NextCases ==
  ASSUME [Next]_vars
  PROVE  \/ \E p \in Procs : Start(p) \/ Inner(p) \/ (~At(p, "off") /\ Exit(p))
         \/ Flip
         \/ UNCHANGED vars
  BY DEF Next, Step, Inner, Panic, Kill, At

LEMMA InnerKeeps ==
  ASSUME TypeOK, NEW p \in Procs, Inner(p)
  PROVE  /\ frame' = frame /\ Running' = Running /\ p \in Running
         /\ flips' = flips
  <1>1. frame' = frame /\ flips' = flips /\ pc[p] # "off"
    BY DEF Inner, At, Fill, Compare, Count, BadRead, BadWrite, CheckRead, CheckWrite,
           ReadCounter, file
  <1>2. \E place \in Places : pc' = [pc EXCEPT ![p] = place] /\ place # "off"
    <2>1. CASE pc' = pc
      BY <1>1, <2>1 DEF TypeOK
    <2>2. CASE pc' # pc
      BY <2>2 DEF Inner, Goto, GoOn, Fill, Compare, Count, BadRead, BadWrite, CheckRead,
         CheckWrite, Places
    <2>3. QED BY <2>1, <2>2
  <1>3. QED BY <1>1, <1>2 DEF Running, TypeOK

LEMMA InnerOthers ==
  ASSUME TypeOK, NEW p \in Procs, Inner(p), NEW q \in Procs, q # p
  PROVE  /\ pc'[q] = pc[q] /\ ipage'[q] = ipage[q] /\ ipass'[q] = ipass[q]
         /\ opage'[q] = opage[q] /\ opass'[q] = opass[q] /\ retard'[q] = retard[q]
         /\ v'[q] = v[q] /\ n_errors'[q] = n_errors[q]
  <1> USE DEF TypeOK, Goto, ring, file
  <1>1. CASE Fill(p)
    BY <1>1 DEF Fill
  <1>2. CASE Compare(p)
    BY <1>2 DEF Compare, GoOn
  <1>3. CASE Count(p)
    BY <1>3 DEF Count, GoOn
  <1>4. CASE BadRead(p) \/ CheckRead(p)
    BY <1>4 DEF BadRead, CheckRead, ReadCounter
  <1>5. CASE BadWrite(p) \/ CheckWrite(p)
    BY <1>5 DEF BadWrite, CheckWrite
  <1>6. QED
    BY <1>1, <1>2, <1>3, <1>4, <1>5 DEF Inner

LEMMA ExclusiveStep == IInv /\ [Next]_vars => Exclusive'
  <1> SUFFICES ASSUME IInv, [Next]_vars PROVE Exclusive'
    OBVIOUS
  <1> USE DEF IInv
  <1>1. ASSUME NEW p \in Procs, Start(p) PROVE Exclusive'
    <2>1. PICK place \in [Pages -> Frames \ Locked] :
            /\ \A g, h \in Pages : g # h => place[g] # place[h]
            /\ frame' = [frame EXCEPT ![p] = place]
      BY <1>1 DEF Start
    <2>2. Running' = Running \cup {p} /\ p \notin Running
      <3>1. pc[p] = "off" /\ pc' = [pc EXCEPT ![p] = "fill"]
        BY <1>1 DEF Start, At, Goto
      <3>2. QED BY <3>1 DEF Running, TypeOK
    <2>3. \A q \in Running : frame'[q] = frame[q]
      BY <2>1, <2>2 DEF TypeOK, Running
    <2>4. frame'[p] = place
      BY <2>1 DEF TypeOK
    <2>5. \A q \in Running, g, h \in Pages : frame[q][g] # place[h]
      <3>1. ASSUME NEW g \in Pages, NEW h \in Pages, NEW q \in Running
            PROVE  frame[q][g] # place[h]
        <4>1. frame[q][g] \in Locked
          BY LockedFrames
        <4>2. place[h] \notin Locked
          OBVIOUS
        <4>3. QED BY <4>1, <4>2
      <3>2. QED BY <3>1
    <2>6. QED
      BY <2>1, <2>2, <2>3, <2>4, <2>5 DEF Exclusive
  <1>2. ASSUME NEW p \in Procs, Inner(p) PROVE Exclusive'
    BY <1>2, InnerKeeps DEF Exclusive
  <1>3. ASSUME NEW p \in Procs, Exit(p) PROVE Exclusive'
    <2>1. Running' \subseteq Running /\ p \notin Running'
      BY <1>3 DEF Exit, Goto, Running, TypeOK
    <2>2. \A q \in Running' : frame'[q] = frame[q]
      BY <1>3, <2>1 DEF Exit, Running, TypeOK
    <2>3. QED
      BY <2>1, <2>2 DEF Exclusive
  <1>4. CASE Flip \/ UNCHANGED vars
    BY <1>4 DEF Flip, vars, Exclusive, Running
  <1>5. QED
    BY <1>1, <1>2, <1>3, <1>4, NextCases

LEMMA IdleStep == IInv /\ [Next]_vars => Idle'
  <1> SUFFICES ASSUME IInv, [Next]_vars PROVE Idle'
    OBVIOUS
  <1> USE DEF IInv, ring, file
  <1>1. ASSUME NEW p \in Procs, Start(p) PROVE Idle'
    BY <1>1 DEF Start, At, Goto, TypeOK, Idle
  <1>2. ASSUME NEW p \in Procs, Inner(p) PROVE Idle'
    <2>1. p \in Running' /\ Running' = Running
      BY <1>2, InnerKeeps
    <2>2. ASSUME NEW q \in Procs, q # p
          PROVE  ipage'[q] = ipage[q] /\ ipass'[q] = ipass[q]
                 /\ opage'[q] = opage[q] /\ opass'[q] = opass[q]
      BY <1>2, <2>2, InnerOthers
    <2>3. QED BY <2>1, <2>2 DEF Idle, Running
  <1>3. ASSUME NEW p \in Procs, Exit(p) PROVE Idle'
    BY <1>3 DEF Exit, Goto, TypeOK, Idle
  <1>4. CASE Flip \/ UNCHANGED vars
    BY <1>4 DEF Flip, vars, Idle
  <1>5. QED
    BY <1>1, <1>2, <1>3, <1>4, NextCases

LEMMA BehindStep == IInv /\ [Next]_vars => Behind'
  <1> SUFFICES ASSUME IInv, [Next]_vars PROVE Behind'
    OBVIOUS
  <1> USE DEF IInv
  <1>c. Behind <=> \A p \in Running : BehindOf(p)
    BY DEF Behind
  <1>b. Behind' <=> \A p \in Running' : BehindOf(p)'
    BY DEF Behind
  <1>a. ASSUME NEW p \in Procs
        PROVE  /\ ipage[p] \in Nat /\ ipage[p] < NPages /\ ipass[p] \in Nat
               /\ opass[p] \in Nat /\ retard[p] \in Nat
               /\ NextPage(ipage[p]) = IF ipage[p] + 1 = NPages THEN 0 ELSE ipage[p] + 1
    <2>1. ipage[p] \in Pages /\ retard[p] \in Pages /\ ipass[p] \in Nat /\ opass[p] \in Nat
      BY DEF TypeOK
    <2>2. NextPage(ipage[p]) = IF ipage[p] + 1 = NPages THEN 0 ELSE ipage[p] + 1
      BY <2>1, NextPageIs
    <2>3. QED
      BY <2>1, <2>2, UrumtAssumption DEF Pages
  <1>1. ASSUME NEW p \in Procs, Start(p) PROVE Behind'
    <2>1. /\ pc[p] = "off" /\ pc' = [pc EXCEPT ![p] = "fill"]
          /\ retard' = [retard EXCEPT ![p] = NPages - 1]
          /\ ipage' = ipage /\ ipass' = ipass /\ opage' = opage /\ opass' = opass
      BY <1>1 DEF Start, At, Goto
    <2>2. Running' = Running \cup {p} /\ p \notin Running
      BY <2>1 DEF Running, TypeOK
    <2>3. BehindOf(p)'
      <3>1. retard'[p] = NPages - 1 /\ pc'[p] = "fill"
        BY <2>1 DEF TypeOK
      <3>2. ipage[p] = 0 /\ ipass[p] = 0 /\ opage[p] = 0 /\ opass[p] = 0
        BY <2>1 DEF Idle
      <3>3. QED
        BY <2>1, <3>1, <3>2, UrumtAssumption DEF BehindOf
    <2>4. ASSUME NEW q \in Running PROVE BehindOf(q)'
      <3>1. q # p /\ q \in Procs /\ retard'[q] = retard[q] /\ pc'[q] = pc[q]
        BY <2>1, <2>2 DEF Running, TypeOK
      <3>2. QED
        BY <1>c, <2>1, <3>1 DEF BehindOf
    <2>5. QED BY <1>b, <2>2, <2>3, <2>4
  <1>2. ASSUME NEW p \in Procs, Inner(p) PROVE Behind'
    <2>1. p \in Running /\ Running' = Running
      BY <1>2, InnerKeeps
    <2>2. ASSUME NEW q \in Running, q # p PROVE BehindOf(q)'
      <3>1. q \in Procs /\ BehindOf(q)
        BY <1>c DEF Running
      <3>2. QED
        BY <1>2, <2>2, <3>1, InnerOthers DEF BehindOf
    <2>3. BehindOf(p)
      BY <1>c, <2>1
    <2>4. CASE Fill(p)
      <3>1. /\ pc[p] = "fill" /\ ipage'[p] = NextPage(ipage[p]) /\ ipass'[p] = ipass[p] + 1
            /\ opage' = opage /\ opass' = opass
        BY <2>4 DEF Fill, At, TypeOK
      <3>2. ASSUME retard[p] > 0 PROVE BehindOf(p)'
        <4>1. retard'[p] = retard[p] - 1 /\ pc' = pc
          BY <2>4, <3>2 DEF Fill, TypeOK
        <4>2. /\ ipage'[p] = ipage[p] + 1
              /\ ipage'[p] + retard'[p] = NPages - 1 /\ ipass'[p] = ipage'[p]
              /\ opage'[p] = 0 /\ opass'[p] = 0
          BY <2>3, <3>1, <3>2, <4>1, <1>a, UrumtAssumption DEF BehindOf
        <4>3. retard'[p] = 0 =>
                NextPage(ipage'[p]) = 0 /\ opass'[p] = ipass'[p] - NPages + 1
          <5>1. SUFFICES ASSUME retard'[p] = 0
                         PROVE  NextPage(ipage'[p]) = 0 /\ opass'[p] = ipass'[p] - NPages + 1
            OBVIOUS
          <5>2. ipage'[p] = NPages - 1 /\ NPages - 1 \in Pages
            BY <4>2, <5>1, <1>a, UrumtAssumption DEF Pages
          <5>3. NextPage(NPages - 1) = 0
            BY <5>2, NextPageIs, UrumtAssumption
          <5>4. QED
            BY <4>2, <5>2, <5>3, UrumtAssumption
        <4>4. QED
          BY <3>1, <4>1, <4>2, <4>3 DEF BehindOf
      <3>3. ASSUME ~(retard[p] > 0) PROVE BehindOf(p)'
        <4>1. retard'[p] = retard[p] /\ pc'[p] = "compare" /\ retard[p] = 0
          BY <2>4, <3>3, <1>a DEF Fill, Goto, TypeOK
        <4>2. opage'[p] = ipage'[p] /\ opass'[p] = ipass'[p] - NPages
          BY <2>3, <3>1, <4>1, <1>a, UrumtAssumption DEF BehindOf
        <4>3. QED
          BY <4>1, <4>2 DEF BehindOf
      <3>4. QED BY <3>2, <3>3, <2>2, <2>1, <1>b
    <2>5. CASE /\ pc[p] # "fill" /\ pc'[p] # "fill" /\ retard' = retard
               /\ ipage' = ipage /\ ipass' = ipass /\ opage' = opage /\ opass' = opass
      <3>1. BehindOf(p)'
        BY <2>3, <2>5, <1>a DEF BehindOf
      <3>2. QED BY <3>1, <2>2, <2>1, <1>b
    <2>6. CASE /\ pc[p] # "fill" /\ pc'[p] = "fill" /\ retard' = retard
               /\ ipage' = ipage /\ ipass' = ipass
               /\ opage'[p] = NextPage(opage[p]) /\ opass'[p] = opass[p] + 1
      <3>1. BehindOf(p)'
        BY <2>3, <2>6, <1>a, UrumtAssumption DEF BehindOf
      <3>2. QED BY <3>1, <2>2, <2>1, <1>b
    <2> USE DEF At, Goto, TypeOK, ring, file
    <2>7. CASE Compare(p)
      BY <2>7, <2>5, <2>6 DEF Compare, GoOn
    <2>8. CASE Count(p)
      BY <2>8, <2>5, <2>6 DEF Count, GoOn
    <2>9. CASE BadRead(p) \/ CheckRead(p)
      BY <2>9, <2>5 DEF BadRead, CheckRead, ReadCounter
    <2>10. CASE BadWrite(p)
      BY <2>10, <2>5 DEF BadWrite
    <2>11. CASE CheckWrite(p)
      BY <2>11, <2>6 DEF CheckWrite
    <2>12. QED
      BY <1>2, <2>4, <2>7, <2>8, <2>9, <2>10, <2>11 DEF Inner
  <1>3. ASSUME NEW p \in Procs, Exit(p) PROVE Behind'
    <2>1. Running' \subseteq Running /\ p \notin Running'
      BY <1>3 DEF Exit, Goto, Running, TypeOK
    <2>2. ASSUME NEW q \in Running' PROVE BehindOf(q)'
      <3>1. q # p /\ q \in Procs /\ BehindOf(q)
        BY <1>c, <2>1 DEF Running
      <3>2. QED
        BY <1>3, <3>1 DEF Exit, Goto, TypeOK, BehindOf
    <2>3. QED BY <2>2, <1>b
  <1>4. CASE Flip \/ UNCHANGED vars
    BY <1>4 DEF Flip, vars, ring, Behind, BehindOf, Running
  <1>5. QED
    BY <1>1, <1>2, <1>3, <1>4, NextCases

LEMMA OwnFillsStep == IInv /\ [Next]_vars => OwnFills'
  <1> SUFFICES ASSUME IInv, [Next]_vars PROVE OwnFills'
    OBVIOUS
  <1> USE DEF IInv
  <1>a. OwnFills <=> \A p \in Running : OwnFillsOf(p)
    BY DEF OwnFills
  <1>b. OwnFills' <=> \A p \in Running' : OwnFillsOf(p)'
    BY DEF OwnFills
  <1>c. ASSUME NEW q \in Running,
               frame'[q] = frame[q], ipage'[q] = ipage[q], ipass'[q] = ipass[q],
               \A g \in Pages : cell'[frame[q][g]].seed = cell[frame[q][g]].seed
        PROVE  OwnFillsOf(q)'
    <2>1. OwnFillsOf(q)
      BY <1>a
    <2>2. \A g \in Pages : FillOf(q, g)' = FillOf(q, g)
      BY <1>c DEF FillOf
    <2>3. QED
      BY <1>c, <2>1, <2>2 DEF OwnFillsOf
  <1>d. ASSUME NEW p \in Procs
        PROVE  /\ ipage[p] \in Nat /\ ipage[p] < NPages /\ ipass[p] \in Nat
               /\ frame[p] \in [Pages -> Frames]
               /\ NextPage(ipage[p]) = IF ipage[p] + 1 = NPages THEN 0 ELSE ipage[p] + 1
    <2>1. ipage[p] \in Pages /\ ipass[p] \in Nat /\ frame[p] \in [Pages -> Frames]
      BY DEF TypeOK
    <2>2. NextPage(ipage[p]) = IF ipage[p] + 1 = NPages THEN 0 ELSE ipage[p] + 1
      BY <2>1, NextPageIs
    <2>3. QED
      BY <2>1, <2>2, UrumtAssumption DEF Pages
  <1>1. ASSUME NEW p \in Procs, Start(p) PROVE OwnFills'
    <2>1. /\ pc[p] = "off" /\ pc' = [pc EXCEPT ![p] = "fill"]
          /\ ipage' = ipage /\ ipass' = ipass /\ cell' = cell
      BY <1>1 DEF Start, At, Goto
    <2>2. Running' = Running \cup {p} /\ p \notin Running
      BY <2>1 DEF Running, TypeOK
    <2>3. OwnFillsOf(p)'
      <3>1. ipage'[p] = 0 /\ ipass'[p] = 0
        BY <2>1 DEF Idle
      <3>2. \A g \in Pages : FillOf(p, g)' < 0
        BY <3>1, UrumtAssumption DEF FillOf, Pages
      <3>3. \A g \in Pages : FillOf(p, g)' \in Int
        BY <3>1, UrumtAssumption DEF FillOf, Pages
      <3>4. QED
        BY <3>2, <3>3 DEF OwnFillsOf
    <2>4. ASSUME NEW q \in Running PROVE OwnFillsOf(q)'
      <3>1. q # p /\ q \in Procs
        BY <2>2 DEF Running
      <3>2. frame'[q] = frame[q]
        BY <1>1, <3>1 DEF Start, TypeOK
      <3>3. QED
        BY <1>c, <2>1, <3>2
    <2>5. QED BY <1>b, <2>2, <2>3, <2>4
  <1>2. ASSUME NEW p \in Procs, Inner(p) PROVE OwnFills'
    <2>1. p \in Running /\ Running' = Running /\ frame' = frame
      BY <1>2, InnerKeeps
    <2>2. CASE Fill(p)
      <3> DEFINE filled == frame[p][ipage[p]]
      <3>1. /\ ipage'[p] = NextPage(ipage[p]) /\ ipass'[p] = ipass[p] + 1
            /\ filled \in Frames
            /\ cell'[filled].seed = Seed(p, ipage[p], ipass[p])
            /\ \A f \in Frames : f # filled => cell'[f] = cell[f]
        BY <2>2 DEF Fill, TypeOK
      <3>2. ASSUME NEW q \in Running, q # p PROVE OwnFillsOf(q)'
        <4>1. q \in Procs /\ ipage'[q] = ipage[q] /\ ipass'[q] = ipass[q]
          BY <1>2, <3>2, InnerOthers DEF Running
        <4>2. \A g \in Pages : frame[q][g] \in Frames /\ frame[q][g] # filled
          BY <4>1, <3>2, <2>1, <1>d DEF Exclusive, TypeOK
        <4>3. QED
          BY <1>c, <2>1, <3>1, <4>1, <4>2
      <3>3. OwnFillsOf(p)'
        <4>1. PICK i \in Pages : i = ipage[p]
          BY DEF TypeOK
        <4>7. OwnFillsOf(p)
          BY <1>a, <2>1
        <4>2. FillOf(p, i)' = ipass[p]
          BY <4>1, <3>1, <1>d, UrumtAssumption DEF FillOf
        <4>3. ASSUME NEW g \in Pages, g # i PROVE FillOf(p, g)' = FillOf(p, g)
          <5>1. g \in Nat /\ g < NPages /\ i \in Nat /\ NPages \in Nat
            BY UrumtAssumption DEF Pages
          <5>2. ipage'[p] = IF i + 1 = NPages THEN 0 ELSE i + 1
            BY <4>1, <3>1, <1>d
          <5>3. CASE i + 1 = NPages
            <6>1. g < i /\ ~(g < 0)
              BY <4>3, <5>1, <5>3
            <6>2. QED
              BY <4>1, <3>1, <1>d, <5>1, <5>2, <5>3, <6>1 DEF FillOf
          <5>4. CASE i + 1 # NPages
            BY <4>1, <4>3, <3>1, <1>d, <5>1, <5>2, <5>4 DEF FillOf
          <5>5. QED BY <5>3, <5>4
        <4>4. ASSUME NEW g \in Pages, g # i
              PROVE  cell'[frame[p][g]] = cell[frame[p][g]]
          <5>1. frame[p][g] \in Frames /\ frame[p][g] # filled
            BY <4>1, <4>4, <2>1, <1>d DEF Exclusive
          <5>2. QED BY <5>1, <3>1
        <4>5. ASSUME NEW g \in Pages, FillOf(p, g)' >= 0
              PROVE  cell'[frame'[p][g]].seed = Seed(p, g, FillOf(p, g)')
          <5>1. CASE g = i
            BY <5>1, <4>1, <4>2, <3>1, <2>1 DEF Seed
          <5>2. CASE g # i
            BY <5>2, <4>7, <4>3, <4>4, <4>5, <2>1 DEF OwnFillsOf
          <5>3. QED BY <5>1, <5>2
        <4>6. QED
          BY <4>5 DEF OwnFillsOf, Seed
      <3>4. QED BY <1>b, <2>1, <3>2, <3>3
    <2>3. CASE ~Fill(p)
      <3>1. cell' = cell /\ ipage' = ipage /\ ipass' = ipass
        BY <1>2, <2>3 DEF Inner, Compare, Count, BadRead, BadWrite, CheckRead, CheckWrite,
                          ReadCounter, ring
      <3>2. QED BY <1>b, <1>c, <2>1, <3>1
    <2>4. QED BY <2>2, <2>3
  <1>3. ASSUME NEW p \in Procs, ~At(p, "off"), Exit(p) PROVE OwnFills'
    <2>1. Running' \subseteq Running /\ p \notin Running' /\ p \in Running
      BY <1>3 DEF Exit, Goto, At, Running, TypeOK
    <2>2. ASSUME NEW q \in Running' PROVE OwnFillsOf(q)'
      <3>1. q # p /\ q \in Procs /\ q \in Running
        BY <2>1 DEF Running
      <3>2. frame'[q] = frame[q] /\ ipage'[q] = ipage[q] /\ ipass'[q] = ipass[q]
        BY <1>3, <3>1 DEF Exit, TypeOK
      <3>3. \A g \in Pages : frame[q][g] \in Frames /\ cell'[frame[q][g]] = cell[frame[q][g]]
        <4>1. ASSUME NEW g \in Pages, NEW h \in Pages PROVE frame[p][h] # frame[q][g]
          BY <2>1, <3>1 DEF Exclusive
        <4>2. ASSUME NEW g \in Pages PROVE frame[q][g] \in Frames
          BY <3>1, <1>d
        <4>3. QED
          BY <1>3, <4>1, <4>2 DEF Exit
      <3>4. QED BY <1>c, <3>1, <3>2, <3>3
    <2>3. QED BY <1>b, <2>2
  <1>4. CASE Flip
    <2>1. Running' = Running /\ frame' = frame /\ ipage' = ipage /\ ipass' = ipass
      BY <1>4 DEF Flip, ring, Running
    <2>2. PICK f \in Locked, b \in Bits :
            cell' = [cell EXCEPT ![f].bad = IF b \in @ THEN @ \ {b} ELSE @ \cup {b}]
      BY <1>4 DEF Flip
    <2>3. ASSUME NEW k \in Frames PROVE cell'[k].seed = cell[k].seed
      BY <2>2 DEF TypeOK, Content
    <2>4. ASSUME NEW q \in Running PROVE OwnFillsOf(q)'
      <3>1. \A g \in Pages : frame[q][g] \in Frames
        BY <1>d DEF Running
      <3>2. QED BY <1>c, <2>1, <2>3, <3>1
    <2>5. QED BY <1>b, <2>1, <2>4
  <1>5. CASE UNCHANGED vars
    BY <1>5 DEF vars, ring, OwnFills, OwnFillsOf, FillOf, Running
  <1>6. QED
    BY <1>1, <1>2, <1>3, <1>4, <1>5, NextCases

(* Two counters are the same only if they are of the same frame and kind.  *)
LEMMA OffsetsDiffer ==
  ASSUME NEW f \in Frames, NEW g \in Frames
  PROVE  /\ BadOffset(f) \in 0..(2 * NFrames - 1)
         /\ CheckOffset(f) \in 0..(2 * NFrames - 1)
         /\ BadOffset(f) # CheckOffset(g)
         /\ f # g => BadOffset(f) # BadOffset(g) /\ CheckOffset(f) # CheckOffset(g)
  BY UrumtAssumption DEF BadOffset, CheckOffset, Frames

(* What one step does to the file.                                         *)
LEMMA FileStep ==
  ASSUME IInv, [Next]_vars
  PROVE  \/ stats' = stats /\ tested' = tested
         \/ \E p \in Running :
              /\ BadWrite(p)
              /\ stats' = [stats EXCEPT ![BadOffset(OFrame(p))] =
                             Incremented(stats[BadOffset(OFrame(p))], n_errors[p])]
              /\ n_errors[p] <= MaxBugsPanic /\ tested' = tested
         \/ \E p \in Running :
              /\ CheckWrite(p)
              /\ stats' = [stats EXCEPT ![CheckOffset(OFrame(p))] =
                             Incremented(stats[CheckOffset(OFrame(p))], 1)]
              /\ tested' = [tested EXCEPT ![OFrame(p)] = IF @ < IntMod - 1 THEN @ + 1 ELSE @]
  <1> USE DEF IInv
  <1>1. ASSUME NEW p \in Procs, BadWrite(p)
        PROVE  /\ p \in Running /\ tested' = tested /\ n_errors[p] <= MaxBugsPanic
               /\ stats' = [stats EXCEPT ![BadOffset(OFrame(p))] =
                              Incremented(stats[BadOffset(OFrame(p))], n_errors[p])]
    BY <1>1 DEF BadWrite, At, FreshCounters, FreshOf, Running
  <1>2. ASSUME NEW p \in Procs, CheckWrite(p)
        PROVE  /\ p \in Running
               /\ stats' = [stats EXCEPT ![CheckOffset(OFrame(p))] =
                              Incremented(stats[CheckOffset(OFrame(p))], 1)]
               /\ tested' = [tested EXCEPT ![OFrame(p)] = IF @ < IntMod - 1 THEN @ + 1 ELSE @]
    BY <1>2 DEF CheckWrite, At, FreshCounters, FreshOf, Running
  <1>3. ASSUME NEW p \in Procs, Inner(p), ~BadWrite(p), ~CheckWrite(p)
        PROVE  stats' = stats /\ tested' = tested
    BY <1>3 DEF Inner, Fill, Compare, Count, BadRead, CheckRead, ReadCounter, file
  <1>4. ASSUME NEW p \in Procs, Start(p) \/ Exit(p) PROVE stats' = stats /\ tested' = tested
    BY <1>4 DEF Start, Exit, file
  <1>5. CASE Flip \/ UNCHANGED vars
    BY <1>5 DEF Flip, vars, file
  <1>6. QED
    BY <1>1, <1>2, <1>3, <1>4, <1>5, NextCases

LEMMA FreshStep == IInv /\ [Next]_vars => FreshCounters'
  <1> SUFFICES ASSUME IInv, [Next]_vars PROVE FreshCounters'
    OBVIOUS
  <1> USE DEF IInv
  <1>a. ASSUME NEW q \in Procs PROVE OFrame(q) \in Frames
    BY DEF OFrame, TypeOK
  (* A process that does not move keeps its frame and its locals, and no   *)
  (* other process writes its counters.                                    *)
  <1>b. ASSUME NEW q \in Procs,
               pc'[q] = pc[q], v'[q] = v[q], n_errors'[q] = n_errors[q],
               pc[q] # "off" => opage'[q] = opage[q] /\ frame'[q] = frame[q],
               pc[q] # "off" =>
                 /\ stats'[BadOffset(OFrame(q))] = stats[BadOffset(OFrame(q))]
                 /\ stats'[CheckOffset(OFrame(q))] = stats[CheckOffset(OFrame(q))]
        PROVE  FreshOf(q)'
    BY <1>b DEF FreshCounters, FreshOf, OFrame, BadOffset, CheckOffset
  <1>1. ASSUME NEW p \in Procs, Start(p) PROVE FreshCounters'
    <2>1. /\ v' = v /\ n_errors' = n_errors /\ stats' = stats /\ opage' = opage
          /\ \A q \in Procs : q # p => pc'[q] = pc[q] /\ frame'[q] = frame[q]
          /\ pc'[p] = "fill"
      BY <1>1 DEF Start, Goto, TypeOK, file
    <2>2. FreshOf(p)'
      BY <2>1 DEF FreshOf
    <2>3. QED
      BY <1>b, <2>1, <2>2 DEF FreshCounters
  <1>2. ASSUME NEW p \in Procs, Inner(p) PROVE FreshCounters'
    <2>1. p \in Running /\ frame' = frame
      BY <1>2, InnerKeeps
    <2>2. ASSUME NEW q \in Procs, q # p PROVE FreshOf(q)'
      <3>1. /\ pc'[q] = pc[q] /\ v'[q] = v[q] /\ n_errors'[q] = n_errors[q]
            /\ opage'[q] = opage[q]
        BY <1>2, <2>2, InnerOthers
      <3>2. ASSUME pc[q] # "off" PROVE OFrame(q) # OFrame(p)
        <4>1. q \in Running /\ opage[q] \in Pages /\ opage[p] \in Pages
          BY <3>2 DEF Running, TypeOK
        <4>2. QED BY <4>1, <2>1, <2>2 DEF Exclusive, OFrame
      <3>3. ASSUME pc[q] # "off"
            PROVE  /\ stats'[BadOffset(OFrame(q))] = stats[BadOffset(OFrame(q))]
                   /\ stats'[CheckOffset(OFrame(q))] = stats[CheckOffset(OFrame(q))]
        <4>1. /\ BadOffset(OFrame(q)) # BadOffset(OFrame(p))
              /\ BadOffset(OFrame(q)) # CheckOffset(OFrame(p))
              /\ CheckOffset(OFrame(q)) # BadOffset(OFrame(p))
              /\ CheckOffset(OFrame(q)) # CheckOffset(OFrame(p))
              /\ BadOffset(OFrame(q)) \in DOMAIN stats
              /\ CheckOffset(OFrame(q)) \in DOMAIN stats
          BY <3>2, <3>3, <1>a, OffsetsDiffer DEF TypeOK
        <4>2. CASE BadWrite(p) \/ CheckWrite(p)
          BY <4>1, <4>2 DEF BadWrite, CheckWrite
        <4>3. CASE ~(BadWrite(p) \/ CheckWrite(p))
          BY <1>2, <4>3 DEF Inner, Fill, Compare, Count, BadRead, CheckRead, ReadCounter, file
        <4>4. QED BY <4>2, <4>3
      <3>4. QED BY <1>b, <2>1, <3>1, <3>3
    <2>3. FreshOf(p)'
      <3> USE <2>1 DEF At, Goto, TypeOK, FreshOf
      <3>1. CASE Fill(p)
        BY <3>1 DEF Fill
      <3>2. CASE Compare(p)
        BY <3>2 DEF Compare, GoOn
      <3>3. CASE Count(p)
        BY <3>3 DEF Count, GoOn
      <3>4. CASE BadRead(p)
        <4>1. n_errors[p] <= MaxBugsPanic /\ n_errors' = n_errors
          BY <3>4 DEF BadRead, ReadCounter, FreshCounters
        <4>2. /\ pc'[p] = "badwrite" /\ v'[p] = stats[BadOffset(OFrame(p))]
              /\ stats' = stats /\ opage' = opage
          BY <3>4 DEF BadRead, ReadCounter, ring, file
        <4>3. QED
          BY <4>1, <4>2 DEF OFrame, BadOffset
      <3>5. CASE CheckRead(p)
        <4>1. /\ pc'[p] = "checkwrite" /\ v'[p] = stats[CheckOffset(OFrame(p))]
              /\ stats' = stats /\ opage' = opage
          BY <3>5 DEF CheckRead, ReadCounter, ring, file
        <4>2. QED
          BY <4>1 DEF OFrame, CheckOffset
      <3>6. CASE BadWrite(p) \/ CheckWrite(p)
        BY <3>6 DEF BadWrite, CheckWrite
      <3>7. QED
        BY <1>2, <3>1, <3>2, <3>3, <3>4, <3>5, <3>6 DEF Inner
    <2>4. QED BY <2>2, <2>3 DEF FreshCounters
  <1>3. ASSUME NEW p \in Procs, Exit(p) PROVE FreshCounters'
    <2>1. /\ stats' = stats /\ pc'[p] = "off"
          /\ \A q \in Procs : q # p =>
               /\ pc'[q] = pc[q] /\ frame'[q] = frame[q] /\ opage'[q] = opage[q]
               /\ v'[q] = v[q] /\ n_errors'[q] = n_errors[q]
      BY <1>3 DEF Exit, Goto, TypeOK, file
    <2>2. FreshOf(p)'
      BY <2>1 DEF FreshOf
    <2>3. QED
      BY <1>b, <2>1, <2>2 DEF FreshCounters
  <1>4. CASE Flip \/ UNCHANGED vars
    <2>1. /\ pc' = pc /\ v' = v /\ n_errors' = n_errors /\ opage' = opage
          /\ frame' = frame /\ stats' = stats
      BY <1>4 DEF Flip, vars, ring, file
    <2>2. QED
      BY <1>b, <2>1 DEF FreshCounters
  <1>5. QED
    BY <1>1, <1>2, <1>3, <1>4, NextCases

-----------------------------------------------------------------------------
LEMMA InvariantHolds == Spec => []IInv
  <1>1. IInv /\ [Next]_vars => IInv'
    BY TypeStep, IdleStep, ExclusiveStep, BehindStep, OwnFillsStep, FreshStep DEF IInv
  <1>2. QED
    BY InitHolds, <1>1, PTL DEF Spec

(* The variables of do_tests, the frames and the file keep their types:    *)
(* every page number is in the arena and every counter fits in the file.   *)
THEOREM TypeCorrect == Spec => []TypeOK
  BY InvariantHolds, PTL DEF IInv

LEMMA OwnFillCompared == IInv => ComparesOwnFill
  <1>1. SUFFICES ASSUME IInv, NEW p \in Procs, pc[p] \in {"compare", "count"}
                 PROVE  cell[OFrame(p)].seed = Expected(p)
    BY DEF ComparesOwnFill
  <1> USE DEF IInv
  <1>2. p \in Running /\ ipage[p] \in Pages /\ ipass[p] \in Nat /\ opass[p] \in Nat
    BY <1>1 DEF Running, TypeOK
  <1>3. opage[p] = ipage[p] /\ opass[p] = ipass[p] - NPages
    BY <1>1, <1>2 DEF Behind, BehindOf
  <1>4. FillOf(p, ipage[p]) = opass[p]
    BY <1>2, <1>3, UrumtAssumption DEF FillOf, Pages
  <1>5. QED
    <2>1. cell[frame[p][ipage[p]]].seed = Seed(p, ipage[p], FillOf(p, ipage[p]))
      <3>1. FillOf(p, ipage[p]) >= 0
        BY <1>2, <1>4
      <3>2. OwnFillsOf(p)
        BY <1>1, <1>2 DEF OwnFills
      <3>3. QED
        BY <1>2, <3>1, <3>2 DEF OwnFillsOf
    <2>2. QED
      BY <2>1, <1>3, <1>4 DEF Expected, OFrame

(* A page is compared with the stream of its own last fill, whatever the   *)
(* number of pages, of passes and of other processes.                      *)
THEOREM PagesComparedWithOwnFill == Spec => []ComparesOwnFill
  BY InvariantHolds, OwnFillCompared, PTL

(* One check adds at most max_bugs_panic bad bits to a frame.              *)
THEOREM FewBadBitsAtOnce == Spec => StatsNotRuined
  <1>1. ASSUME IInv, [Next]_vars
        PROVE  \A f \in Frames : stats'[2 * f + 1] <= stats[2 * f + 1] + MaxBugsPanic
    <2> SUFFICES ASSUME NEW f \in Frames
                 PROVE  stats'[BadOffset(f)] <= stats[BadOffset(f)] + MaxBugsPanic
      BY DEF BadOffset
    <2> USE <1>1 DEF IInv
    <2>1. /\ stats[BadOffset(f)] \in 0..(IntMod - 1)
          /\ BadOffset(f) \in DOMAIN stats
      BY OffsetsDiffer DEF TypeOK
    <2>2. CASE stats' = stats
      BY <2>1, <2>2, UrumtAssumption
    <2>3. ASSUME NEW p \in Running,
                 stats' = [stats EXCEPT ![BadOffset(OFrame(p))] =
                             Incremented(stats[BadOffset(OFrame(p))], n_errors[p])],
                 n_errors[p] <= MaxBugsPanic
          PROVE  stats'[BadOffset(f)] <= stats[BadOffset(f)] + MaxBugsPanic
      <3>1. CASE BadOffset(OFrame(p)) = BadOffset(f)
        <4>1. n_errors[p] \in Nat
          BY DEF Running, TypeOK
        <4>2. Incremented(stats[BadOffset(f)], n_errors[p]) \in 0..(IntMod - 1)
              /\ Incremented(stats[BadOffset(f)], n_errors[p]) <= stats[BadOffset(f)] + n_errors[p]
          BY <2>1, <4>1, IncrementedRange
        <4>3. stats'[BadOffset(f)] = Incremented(stats[BadOffset(f)], n_errors[p])
          BY <2>1, <2>3, <3>1
        <4>4. QED
          BY <2>1, <2>3, <4>1, <4>2, <4>3, UrumtAssumption
      <3>2. CASE BadOffset(OFrame(p)) # BadOffset(f)
        BY <2>1, <2>3, <3>2, UrumtAssumption
      <3>3. QED BY <3>1, <3>2
    <2>4. ASSUME NEW p \in Running, NEW x,
                 stats' = [stats EXCEPT ![CheckOffset(OFrame(p))] = x]
          PROVE  stats'[BadOffset(f)] <= stats[BadOffset(f)] + MaxBugsPanic
      <3>1. OFrame(p) \in Frames
        BY DEF Running, OFrame, TypeOK
      <3>2. CheckOffset(OFrame(p)) # BadOffset(f)
        BY <3>1, OffsetsDiffer
      <3>3. QED BY <2>1, <2>4, <3>2, UrumtAssumption
    <2>5. QED
      BY <2>2, <2>3, <2>4, FileStep
  <1>2. QED
    BY InvariantHolds, <1>1, PTL DEF Spec, StatsNotRuined

(* The file holds the number of completed tests of every frame, where an   *)
(* unsigned long is as wide as a counter of the file.                      *)
THEOREM TestsCounted ==
  ASSUME LongMod = IntMod
  PROVE  Spec => []EveryTestCounted
  <1>1. Init => EveryTestCounted
    BY UrumtAssumption DEF Init, EveryTestCounted, Frames
  <1>2. ASSUME IInv, EveryTestCounted, [Next]_vars PROVE EveryTestCounted'
    <2> SUFFICES ASSUME NEW f \in Frames PROVE stats'[CheckOffset(f)] = tested'[f]
      BY DEF EveryTestCounted, CheckOffset
    <2> USE <1>2 DEF IInv
    <2>1. /\ stats[CheckOffset(f)] = tested[f]
          /\ CheckOffset(f) \in DOMAIN stats /\ f \in DOMAIN tested
          /\ stats[CheckOffset(f)] \in 0..(IntMod - 1)
      BY OffsetsDiffer DEF TypeOK, EveryTestCounted, CheckOffset
    <2>2. CASE stats' = stats /\ tested' = tested
      BY <2>1, <2>2
    <2>3. ASSUME NEW p \in Running, NEW x, tested' = tested,
                 stats' = [stats EXCEPT ![BadOffset(OFrame(p))] = x]
          PROVE  stats'[CheckOffset(f)] = tested'[f]
      <3>1. OFrame(p) \in Frames
        BY DEF Running, OFrame, TypeOK
      <3>2. BadOffset(OFrame(p)) # CheckOffset(f)
        BY <3>1, OffsetsDiffer
      <3>3. QED BY <2>1, <2>3, <3>2
    <2>4. ASSUME NEW p \in Running,
                 stats' = [stats EXCEPT ![CheckOffset(OFrame(p))] =
                             Incremented(stats[CheckOffset(OFrame(p))], 1)],
                 tested' = [tested EXCEPT ![OFrame(p)] = IF @ < IntMod - 1 THEN @ + 1 ELSE @]
          PROVE  stats'[CheckOffset(f)] = tested'[f]
      <3>1. OFrame(p) \in Frames
        BY DEF Running, OFrame, TypeOK
      <3>2. CASE OFrame(p) = f
        <4>1. stats'[CheckOffset(f)] = Incremented(stats[CheckOffset(f)], 1)
          BY <2>1, <2>4, <3>2
        <4>2. tested'[f] = IF tested[f] < IntMod - 1 THEN tested[f] + 1 ELSE tested[f]
          BY <2>1, <2>4, <3>2
        <4>3. QED
          BY <4>1, <4>2, <2>1, IncrementedByOne
      <3>3. CASE OFrame(p) # f
        <4>1. CheckOffset(OFrame(p)) # CheckOffset(f)
          BY <3>1, <3>3, OffsetsDiffer
        <4>2. QED BY <2>1, <2>4, <3>3, <4>1
      <3>4. QED BY <3>2, <3>3
    <2>5. QED
      BY <2>2, <2>3, <2>4, FileStep
  <1>3. QED
    BY InvariantHolds, <1>1, <1>2, PTL DEF Spec

(* No counter ever goes down, where an unsigned long is as wide as a       *)
(* counter of the file.                                                    *)
THEOREM CountersNeverFall ==
  ASSUME LongMod = IntMod
  PROVE  Spec => TotalsNeverFall
  <1>1. ASSUME IInv, [Next]_vars PROVE \A k \in DOMAIN stats : stats'[k] >= stats[k]
    <2> SUFFICES ASSUME NEW k \in DOMAIN stats PROVE stats'[k] >= stats[k]
      OBVIOUS
    <2> USE <1>1 DEF IInv
    <2>1. \A j \in DOMAIN stats : stats[j] \in 0..(IntMod - 1)
      BY DEF TypeOK
    <2>2. ASSUME NEW j \in DOMAIN stats, NEW inc \in Nat,
                 stats' = [stats EXCEPT ![j] = Incremented(stats[j], inc)]
          PROVE  stats'[k] >= stats[k]
      <3>1. CASE j = k
        BY <2>1, <2>2, <3>1, IncrementedGrows
      <3>2. CASE j # k
        BY <2>1, <2>2, <3>2, UrumtAssumption
      <3>3. QED BY <3>1, <3>2
    <2>3. ASSUME NEW p \in Running
          PROVE  /\ BadOffset(OFrame(p)) \in DOMAIN stats
                 /\ CheckOffset(OFrame(p)) \in DOMAIN stats
                 /\ n_errors[p] \in Nat
      <3>1. OFrame(p) \in Frames /\ n_errors[p] \in Nat
        BY DEF Running, OFrame, TypeOK
      <3>2. QED BY <3>1, OffsetsDiffer DEF TypeOK
    <2>4. CASE stats' = stats
      BY <2>1, <2>4, UrumtAssumption
    <2>5. QED
      BY <2>2, <2>3, <2>4, FileStep
  <1>2. QED
    BY InvariantHolds, <1>1, PTL DEF Spec, TotalsNeverFall

-----------------------------------------------------------------------------
(* No false alarm: what is recorded of a frame, and what is still to be    *)
(* recorded of the page in it, are together no more than its flips.        *)

Recorded(f) == stats[BadOffset(f)]
Bad(f)      == Cardinality(cell[f].bad)

(* The flips in page g were counted already, and are gone once it is       *)
(* filled again.                                                           *)
Counted(p, g) ==
  \/ g = opage[p] /\ pc[p] \in {"badread", "badwrite", "checkread", "checkwrite"}
  \/ g = ipage[p] /\ pc[p] = "fill"

UncountedOf(p) ==
  \A g \in Pages :
    ~Counted(p, g) => Recorded(frame[p][g]) + Bad(frame[p][g]) <= flips[frame[p][g]]

PendingOf(p) ==
  pc[p] \in {"badread", "badwrite"} =>
    Recorded(OFrame(p)) + n_errors[p] <= flips[OFrame(p)]

Clean == \A f \in Frames \ Locked : cell[f].bad = {}

AInv == NoFalseAlarm /\ Clean /\ \A p \in Running : UncountedOf(p) /\ PendingOf(p)

LEMMA Numbers ==
  ASSUME TypeOK, NEW f \in Frames
  PROVE  /\ Recorded(f) \in Nat /\ flips[f] \in Nat
         /\ IsFiniteSet(cell[f].bad) /\ Bad(f) \in Nat
  <1>1. Recorded(f) \in 0..(IntMod - 1) /\ flips[f] \in Nat
    BY OffsetsDiffer DEF TypeOK, Recorded
  <1>2. cell[f].bad \subseteq Bits
    BY DEF TypeOK, Content
  <1>3. IsFiniteSet(cell[f].bad) /\ Bad(f) \in Nat
    BY <1>2, FS_Subset, FS_CardinalityType, UrumtAssumption DEF Bad
  <1>4. QED
    BY <1>1, <1>3, UrumtAssumption

LEMMA PageFrames ==
  ASSUME TypeOK, NEW p \in Running
  PROVE  /\ p \in Procs /\ opage[p] \in Pages /\ ipage[p] \in Pages
         /\ \A g \in Pages : frame[p][g] \in Frames
         /\ OFrame(p) \in Frames
  BY DEF TypeOK, Running, OFrame

(* A process that does not move, in whose frames no more bits go bad than  *)
(* flip, keeps its part of the invariant.                                  *)
LEMMA Unmoved ==
  ASSUME TypeOK, TypeOK', NEW q \in Running,
         UncountedOf(q), PendingOf(q),
         pc'[q] = pc[q], ipage'[q] = ipage[q], opage'[q] = opage[q],
         n_errors'[q] = n_errors[q], frame'[q] = frame[q],
         \A f \in {frame[q][g] : g \in Pages} :
           /\ Recorded(f)' = Recorded(f)
           /\ flips[f] <= flips'[f]
           /\ Bad(f)' + flips[f] <= Bad(f) + flips'[f]
  PROVE  UncountedOf(q)' /\ PendingOf(q)'
  <1>1. ASSUME NEW f \in Frames
        PROVE  Recorded(f) \in Nat /\ flips[f] \in Nat /\ Bad(f) \in Nat
               /\ flips'[f] \in Nat /\ Bad(f)' \in Nat
    <2>1. Recorded(f) \in Nat /\ flips[f] \in Nat /\ Bad(f) \in Nat
      BY <1>1, Numbers
    <2>2. flips'[f] \in Nat
      BY <1>1 DEF TypeOK
    <2>3. Bad(f)' \in Nat
      <3>1. cell'[f].bad \subseteq Bits
        BY <1>1 DEF TypeOK, Content
      <3>2. QED
        BY <3>1, FS_Subset, FS_CardinalityType, UrumtAssumption DEF Bad
    <2>4. QED BY <2>1, <2>2, <2>3
  <1>2. UncountedOf(q)'
    <2>1. SUFFICES ASSUME NEW g \in Pages, ~Counted(q, g)'
                   PROVE  Recorded(frame[q][g])' + Bad(frame[q][g])' <= flips'[frame[q][g]]
      BY DEF UncountedOf, Recorded, Bad, BadOffset
    <2>2. ~Counted(q, g)
      BY <2>1 DEF Counted
    <2>3. Recorded(frame[q][g]) + Bad(frame[q][g]) <= flips[frame[q][g]]
      BY <2>2 DEF UncountedOf
    <2>4. frame[q][g] \in Frames
      BY PageFrames
    <2>5. QED
      BY <2>3, <2>4, <1>1
  <1>3. PendingOf(q)'
    <2>1. SUFFICES ASSUME pc[q] \in {"badread", "badwrite"}
                   PROVE  Recorded(OFrame(q))' + n_errors[q] <= flips'[OFrame(q)]
      BY DEF PendingOf, Recorded, OFrame, BadOffset
    <2>2. Recorded(OFrame(q)) + n_errors[q] <= flips[OFrame(q)]
      BY <2>1 DEF PendingOf
    <2>3. OFrame(q) \in Frames /\ opage[q] \in Pages /\ n_errors[q] \in Nat
      BY PageFrames DEF TypeOK
    <2>4. Recorded(OFrame(q))' = Recorded(OFrame(q)) /\ flips[OFrame(q)] <= flips'[OFrame(q)]
      BY <2>3 DEF OFrame, Recorded, BadOffset
    <2>5. QED
      BY <2>2, <2>3, <2>4, <1>1
  <1>4. QED BY <1>2, <1>3

(* A flip makes one bit bad, or good again, and is counted once.           *)
LEMMA FlipCounts ==
  ASSUME TypeOK, Flip, NEW f \in Frames
  PROVE  /\ flips[f] <= flips'[f] /\ Bad(f)' + flips[f] <= Bad(f) + flips'[f]
         /\ f \notin Locked => cell'[f] = cell[f]
  <1>1. PICK k \in Locked, b \in Bits :
          /\ cell' = [cell EXCEPT ![k].bad = IF b \in @ THEN @ \ {b} ELSE @ \cup {b}]
          /\ flips' = [flips EXCEPT ![k] = @ + 1]
    BY DEF Flip
  <1>2. Bad(f) \in Nat /\ flips[f] \in Nat /\ IsFiniteSet(cell[f].bad)
    BY Numbers
  <1>3. CASE k # f
    <2>1. cell'[f] = cell[f] /\ flips'[f] = flips[f]
      BY <1>1, <1>3 DEF TypeOK
    <2>2. Bad(f)' = Bad(f)
      BY <2>1 DEF Bad
    <2>3. QED BY <2>1, <2>2, <1>2
  <1>4. CASE k = f
    <2>1. flips'[f] = flips[f] + 1
      BY <1>1, <1>4 DEF TypeOK
    <2>2. cell'[f].bad = IF b \in cell[f].bad THEN cell[f].bad \ {b} ELSE cell[f].bad \cup {b}
      BY <1>1, <1>4 DEF TypeOK, Content
    <2>3. CASE b \in cell[f].bad
      <3>1. Bad(f)' = Bad(f) - 1
        BY <2>2, <2>3, <1>2, FS_RemoveElement DEF Bad
      <3>2. QED BY <2>1, <3>1, <1>1, <1>2, <1>4
    <2>4. CASE b \notin cell[f].bad
      <3>1. Bad(f)' = Bad(f) + 1
        BY <2>2, <2>4, <1>2, FS_AddElement DEF Bad
      <3>2. QED BY <2>1, <3>1, <1>1, <1>2, <1>4
    <2>5. QED BY <2>3, <2>4
  <1>5. QED BY <1>3, <1>4

LEMMA AlarmInit == Init => AInv
  <1> SUFFICES ASSUME Init PROVE AInv
    OBVIOUS
  <1>1. Running = {}
    BY DEF Init, Running
  <1>2. Clean
    BY DEF Init, Clean, Blank
  <1>3. NoFalseAlarm
    BY UrumtAssumption DEF Init, NoFalseAlarm, Frames
  <1>4. QED
    BY <1>1, <1>2, <1>3 DEF AInv

LEMMA AlarmStart ==
  ASSUME IInv, IInv', AInv, NEW p \in Procs, Start(p)
  PROVE  AInv'
  <1> USE DEF IInv
  <1>1. PICK place \in [Pages -> Frames \ Locked] : frame' = [frame EXCEPT ![p] = place]
    BY DEF Start
  <1>2. /\ stats' = stats /\ flips' = flips /\ cell' = cell /\ n_errors' = n_errors
        /\ ipage' = ipage /\ opage' = opage
        /\ pc[p] = "off" /\ pc' = [pc EXCEPT ![p] = "fill"]
    BY DEF Start, At, Goto, file
  <1>3. Running' = Running \cup {p} /\ p \notin Running
    <2>1. \A q \in Procs : pc'[q] = IF q = p THEN "fill" ELSE pc[q]
      BY <1>2 DEF TypeOK
    <2>2. Running' = Running \cup {p}
      BY <2>1 DEF Running
    <2>3. QED BY <1>2, <2>2 DEF Running
  <1>4. ASSUME NEW q \in Running PROVE UncountedOf(q)' /\ PendingOf(q)'
    <2>1. q \in Procs /\ q # p /\ frame'[q] = frame[q] /\ pc'[q] = pc[q]
      BY <1>1, <1>2, <1>3 DEF Running, TypeOK
    <2>2. \A f \in {frame[q][g] : g \in Pages} :
            Recorded(f)' = Recorded(f) /\ Bad(f)' = Bad(f)
            /\ Bad(f) \in Nat /\ flips[f] \in Nat
      BY <1>2, PageFrames, Numbers DEF Recorded, Bad, BadOffset
    <2>3. \A f \in {frame[q][g] : g \in Pages} :
            flips[f] <= flips'[f] /\ Bad(f)' + flips[f] <= Bad(f) + flips'[f]
      BY <1>2, <2>2
    <2>4. UncountedOf(q) /\ PendingOf(q)
      BY DEF AInv
    <2>5. QED
      BY <1>2, <2>1, <2>2, <2>3, <2>4, Unmoved
  <1>5. UncountedOf(p)' /\ PendingOf(p)'
    <2>1. pc'[p] = "fill" /\ frame'[p] = place
      BY <1>1, <1>2 DEF TypeOK
    <2>2. PendingOf(p)'
      BY <2>1 DEF PendingOf
    <2>3. ASSUME NEW g \in Pages
          PROVE  stats[BadOffset(place[g])] + Cardinality(cell[place[g]].bad) <= flips[place[g]]
      <3>1. place[g] \in Frames /\ cell[place[g]].bad = {}
        BY DEF AInv, Clean
      <3>2. Cardinality(cell[place[g]].bad) = 0
        BY <3>1, FS_EmptySet
      <3>3. Recorded(place[g]) \in Nat /\ flips[place[g]] \in Nat
        BY <3>1, Numbers
      <3>4. Recorded(place[g]) <= flips[place[g]]
        BY <3>1 DEF AInv, NoFalseAlarm, Recorded, BadOffset
      <3>5. QED
        BY <3>2, <3>3, <3>4 DEF Recorded
    <2>4. UncountedOf(p)'
      BY <1>2, <2>1, <2>3 DEF UncountedOf, Recorded, Bad, BadOffset
    <2>5. QED BY <2>2, <2>4
  <1>6. Clean'
    <2>1. \A q \in Running : q \in Running' /\ frame'[q] = frame[q]
      BY <1>1, <1>3 DEF Running, TypeOK
    <2>2. Locked \subseteq Locked'
      BY <2>1 DEF Locked
    <2>3. QED
      BY <1>2, <2>2 DEF AInv, Clean
  <1>7. NoFalseAlarm'
    BY <1>2 DEF AInv, NoFalseAlarm
  <1>8. QED
    BY <1>3, <1>4, <1>5, <1>6, <1>7 DEF AInv

LEMMA AlarmExit ==
  ASSUME IInv, IInv', AInv, NEW p \in Procs, ~At(p, "off"), Exit(p)
  PROVE  AInv'
  <1> USE DEF IInv
  <1>1. /\ stats' = stats /\ flips' = flips
        /\ cell' = [f \in Frames |->
                      IF \E g \in Pages : frame[p][g] = f THEN Blank ELSE cell[f]]
    BY DEF Exit, file
  <1>2. Running' = Running \ {p} /\ p \in Running
    BY DEF Exit, Goto, At, Running, TypeOK
  <1>3. ASSUME NEW q \in Running'
        PROVE  /\ q \in Running /\ frame'[q] = frame[q] /\ pc'[q] = pc[q]
               /\ ipage'[q] = ipage[q] /\ opage'[q] = opage[q] /\ n_errors'[q] = n_errors[q]
    BY <1>2 DEF Exit, Goto, Running, TypeOK
  <1>4. ASSUME NEW q \in Running' PROVE UncountedOf(q)' /\ PendingOf(q)'
    <2>1. \A f \in {frame[q][g] : g \in Pages} : f \in Frames /\ cell'[f] = cell[f]
      <3>1. ASSUME NEW g \in Pages, NEW h \in Pages PROVE frame[p][h] # frame[q][g]
        BY <1>2, <1>3 DEF Exclusive
      <3>2. ASSUME NEW g \in Pages PROVE frame[q][g] \in Frames
        BY <1>3, PageFrames
      <3>3. QED
        BY <1>1, <3>1, <3>2
    <2>2. \A f \in {frame[q][g] : g \in Pages} :
            Recorded(f)' = Recorded(f) /\ Bad(f)' = Bad(f)
            /\ Bad(f) \in Nat /\ flips[f] \in Nat
      BY <1>1, <2>1, Numbers DEF Recorded, Bad, BadOffset
    <2>3. \A f \in {frame[q][g] : g \in Pages} :
            flips[f] <= flips'[f] /\ Bad(f)' + flips[f] <= Bad(f) + flips'[f]
      BY <1>1, <2>2
    <2>4. UncountedOf(q) /\ PendingOf(q)
      BY <1>3 DEF AInv
    <2>5. QED
      BY <1>3, <2>2, <2>3, <2>4, Unmoved
  <1>5. Clean'
    <2>1. SUFFICES ASSUME NEW f \in Frames, f \notin Locked' PROVE cell'[f].bad = {}
      BY DEF Clean
    <2>2. CASE \E g \in Pages : frame[p][g] = f
      BY <1>1, <2>2 DEF Blank
    <2>3. CASE ~ \E g \in Pages : frame[p][g] = f
      <3>1. f \notin Locked
        BY <1>2, <1>3, <2>1, <2>3 DEF Locked
      <3>2. QED
        BY <1>1, <2>3, <3>1 DEF AInv, Clean
    <2>4. QED BY <2>2, <2>3
  <1>6. NoFalseAlarm'
    BY <1>1 DEF AInv, NoFalseAlarm
  <1>7. QED
    BY <1>4, <1>5, <1>6 DEF AInv

LEMMA AlarmFlip ==
  ASSUME IInv, IInv', AInv, Flip \/ UNCHANGED vars
  PROVE  AInv'
  <1> USE DEF IInv
  <1>1. /\ stats' = stats /\ pc' = pc /\ frame' = frame /\ n_errors' = n_errors
        /\ ipage' = ipage /\ opage' = opage
    BY DEF Flip, vars, ring, file
  <1>2. Running' = Running /\ Locked' = Locked
    BY <1>1 DEF Running, Locked
  <1>3. ASSUME NEW f \in Frames
        PROVE  /\ flips[f] <= flips'[f] /\ Bad(f)' + flips[f] <= Bad(f) + flips'[f]
               /\ f \notin Locked => cell'[f] = cell[f]
    <2>1. CASE Flip
      BY <2>1, FlipCounts
    <2>2. CASE UNCHANGED vars
      <3>1. cell' = cell /\ flips' = flips
        BY <2>2 DEF vars
      <3>2. flips[f] \in Nat /\ Bad(f) \in Nat /\ Bad(f)' = Bad(f)
        BY <3>1, Numbers DEF Bad
      <3>3. QED BY <3>1, <3>2
    <2>3. QED BY <2>1, <2>2
  <1>4. ASSUME NEW q \in Running' PROVE UncountedOf(q)' /\ PendingOf(q)'
    <2>1. q \in Running /\ UncountedOf(q) /\ PendingOf(q)
      BY <1>2 DEF AInv
    <2>2. \A f \in {frame[q][g] : g \in Pages} : f \in Frames /\ Recorded(f)' = Recorded(f)
      BY <1>1, <2>1, PageFrames DEF Recorded, BadOffset
    <2>3. QED
      BY <1>1, <1>3, <2>1, <2>2, Unmoved
  <1>5. Clean'
    BY <1>2, <1>3 DEF AInv, Clean
  <1>6. NoFalseAlarm'
    <2>1. SUFFICES ASSUME NEW f \in Frames PROVE stats[2 * f + 1] <= flips'[f]
      BY <1>1 DEF NoFalseAlarm
    <2>2. stats[2 * f + 1] <= flips[f] /\ flips[f] <= flips'[f]
      BY <1>3 DEF AInv, NoFalseAlarm
    <2>3. Recorded(f) \in Nat /\ flips[f] \in Nat /\ flips'[f] \in Nat
      BY Numbers DEF TypeOK
    <2>4. QED
      BY <2>2, <2>3 DEF Recorded, BadOffset
  <1>7. QED
    BY <1>4, <1>5, <1>6 DEF AInv

(* A running process touches no frame but its own, and of those only the   *)
(* page it fills and the bad bits of the page it has compared.             *)
LEMMA InnerFrames ==
  ASSUME IInv, NEW p \in Procs, Inner(p), NEW f \in Frames
  PROVE  /\ ~(Fill(p) /\ f = frame[p][ipage[p]]) => cell'[f] = cell[f]
         /\ ~(BadWrite(p) /\ f = OFrame(p)) => Recorded(f)' = Recorded(f)
  <1> USE DEF IInv
  <1>1. ASSUME ~(Fill(p) /\ f = frame[p][ipage[p]]) PROVE cell'[f] = cell[f]
    <2>1. CASE Fill(p)
      BY <1>1, <2>1 DEF Fill, TypeOK
    <2>2. CASE ~Fill(p)
      BY <2>2 DEF Inner, Compare, Count, BadRead, BadWrite, CheckRead, CheckWrite, ReadCounter
    <2>3. QED BY <2>1, <2>2
  <1>2. ASSUME ~(BadWrite(p) /\ f = OFrame(p)) PROVE Recorded(f)' = Recorded(f)
    <2>1. OFrame(p) \in Frames /\ BadOffset(f) \in DOMAIN stats
      BY OffsetsDiffer DEF TypeOK, OFrame
    <2>2. CASE BadWrite(p)
      <3>1. BadOffset(f) # BadOffset(OFrame(p))
        BY <1>2, <2>1, <2>2, OffsetsDiffer
      <3>2. stats'[BadOffset(f)] = stats[BadOffset(f)]
        BY <2>1, <2>2, <3>1 DEF BadWrite
      <3>3. QED BY <3>2 DEF Recorded, BadOffset
    <2>3. CASE CheckWrite(p)
      <3>1. BadOffset(f) # CheckOffset(OFrame(p))
        BY <2>1, OffsetsDiffer
      <3>2. stats'[BadOffset(f)] = stats[BadOffset(f)]
        BY <2>1, <2>3, <3>1 DEF CheckWrite
      <3>3. QED BY <3>2 DEF Recorded, BadOffset
    <2>4. CASE ~BadWrite(p) /\ ~CheckWrite(p)
      <3>1. stats' = stats
        BY <2>4 DEF Inner, Fill, Compare, Count, BadRead, CheckRead, ReadCounter, file
      <3>2. QED BY <3>1 DEF Recorded, BadOffset
    <2>5. QED BY <2>2, <2>3, <2>4
  <1>3. QED BY <1>1, <1>2

LEMMA AlarmOthers ==
  ASSUME IInv, IInv', AInv, NEW p \in Procs, Inner(p), NEW q \in Running, q # p
  PROVE  UncountedOf(q)' /\ PendingOf(q)'
  <1> USE DEF IInv
  <1>1. frame' = frame /\ flips' = flips /\ p \in Running
    BY InnerKeeps
  <1>2. /\ q \in Procs /\ pc'[q] = pc[q] /\ ipage'[q] = ipage[q] /\ opage'[q] = opage[q]
        /\ n_errors'[q] = n_errors[q]
    BY InnerOthers DEF Running
  <1>3. \A f \in {frame[q][g] : g \in Pages} :
          f \in Frames /\ cell'[f] = cell[f] /\ Recorded(f)' = Recorded(f)
    <2>1. SUFFICES ASSUME NEW g \in Pages
                   PROVE  /\ frame[q][g] \in Frames
                          /\ cell'[frame[q][g]] = cell[frame[q][g]]
                          /\ stats'[BadOffset(frame[q][g])] = stats[BadOffset(frame[q][g])]
      BY DEF Recorded, BadOffset
    <2>2. PICK f \in Frames : f = frame[q][g]
      BY PageFrames
    <2>3. f # frame[p][ipage[p]] /\ f # OFrame(p)
      BY <1>1, <2>2, PageFrames DEF Exclusive, OFrame
    <2>4. cell'[f] = cell[f] /\ Recorded(f)' = Recorded(f)
      BY <2>3, InnerFrames
    <2>5. QED BY <2>2, <2>4 DEF Recorded, BadOffset
  <1>4. \A f \in {frame[q][g] : g \in Pages} :
          flips[f] <= flips'[f] /\ Bad(f)' + flips[f] <= Bad(f) + flips'[f]
    <2>1. SUFFICES ASSUME NEW f \in {frame[q][g] : g \in Pages}
                   PROVE  flips[f] <= flips'[f] /\ Bad(f)' + flips[f] <= Bad(f) + flips'[f]
      OBVIOUS
    <2>2. Bad(f)' = Bad(f)
      BY <1>3 DEF Bad
    <2>3. Bad(f) \in Nat /\ flips[f] \in Nat
      BY <1>3, Numbers
    <2>4. QED BY <1>1, <2>2, <2>3
  <1>5. UncountedOf(q) /\ PendingOf(q)
    BY DEF AInv
  <1>6. QED
    BY <1>1, <1>2, <1>3, <1>4, <1>5, Unmoved

(* The page that is compared or recorded is the one filled last but        *)
(* NPages - 1, at ipage again.                                             *)
LEMMA SamePage ==
  ASSUME IInv, NEW p \in Running, pc[p] # "fill"
  PROVE  opage[p] = ipage[p]
  BY DEF IInv, Behind, BehindOf

(* What the process that moves knows of its own pages.                     *)
LEMMA AlarmOwn ==
  ASSUME IInv, IInv', AInv, NEW p \in Procs, Inner(p)
  PROVE  UncountedOf(p)' /\ PendingOf(p)'
  <1> USE DEF IInv
  <1>1. frame' = frame /\ flips' = flips /\ p \in Running
    BY InnerKeeps
  <1>2. UncountedOf(p) /\ PendingOf(p)
    BY <1>1 DEF AInv
  <1>3. /\ opage[p] \in Pages /\ ipage[p] \in Pages /\ OFrame(p) \in Frames
        /\ \A g \in Pages : frame[p][g] \in Frames
    BY <1>1, PageFrames
  (* A page whose frame is left alone keeps what is known of it.           *)
  <1>4. ASSUME NEW g \in Pages, ~Counted(p, g),
               ~(Fill(p) /\ g = ipage[p]), ~(BadWrite(p) /\ g = opage[p])
        PROVE  Recorded(frame[p][g])' + Bad(frame[p][g])' <= flips'[frame[p][g]]
    <2>1. PICK f \in Frames : f = frame[p][g]
      BY <1>3
    <2>2. ~(Fill(p) /\ f = frame[p][ipage[p]]) /\ ~(BadWrite(p) /\ f = OFrame(p))
      BY <1>1, <1>3, <1>4, <2>1 DEF Exclusive, OFrame
    <2>3. cell'[f] = cell[f] /\ Recorded(f)' = Recorded(f)
      BY <2>2, InnerFrames
    <2>4. Recorded(f) + Bad(f) <= flips[f]
      BY <1>2, <1>4, <2>1 DEF UncountedOf
    <2>5. stats'[BadOffset(f)] = stats[BadOffset(f)] /\ Bad(f)' = Bad(f)
      BY <2>3 DEF Recorded, Bad, BadOffset
    <2>6. QED
      BY <1>1, <2>1, <2>4, <2>5 DEF Recorded, Bad, BadOffset
  <1>5. UncountedOf(p)' <=>
          \A g \in Pages : ~Counted(p, g)' =>
            Recorded(frame[p][g])' + Bad(frame[p][g])' <= flips'[frame[p][g]]
    BY <1>1 DEF UncountedOf, Recorded, Bad, BadOffset
  <1>6. CASE Fill(p)
    <2>1. pc[p] = "fill" /\ opage' = opage /\ pc'[p] \in {"fill", "compare"}
      BY <1>6 DEF Fill, At, Goto, TypeOK
    <2>2. PendingOf(p)'
      BY <2>1 DEF PendingOf
    <2>3. ASSUME NEW g \in Pages, g # ipage[p] PROVE ~Counted(p, g)
      BY <2>1, <2>3 DEF Counted
    <2>4. ASSUME NEW g \in Pages, g = ipage[p]
          PROVE  Recorded(frame[p][g])' + Bad(frame[p][g])' <= flips'[frame[p][g]]
      <3>1. PICK f \in Frames : f = frame[p][g]
        BY <1>3
      <3>2. cell'[f].bad = {}
        BY <1>6, <2>4, <3>1 DEF Fill, TypeOK
      <3>3. Cardinality(cell'[f].bad) = 0
        BY <3>2, FS_EmptySet
      <3>4. stats'[BadOffset(f)] = stats[BadOffset(f)]
        BY <1>6 DEF Fill, file
      <3>5. Recorded(f) <= flips[f] /\ Recorded(f) \in Nat /\ flips[f] \in Nat
        BY Numbers DEF AInv, NoFalseAlarm, Recorded, BadOffset
      <3>6. stats'[BadOffset(f)] + Cardinality(cell'[f].bad) <= flips'[f]
        BY <1>1, <3>3, <3>4, <3>5 DEF Recorded
      <3>7. QED
        BY <1>1, <3>1, <3>6 DEF Recorded, Bad, BadOffset
    <2>5. ~BadWrite(p)
      BY <2>1 DEF BadWrite, At
    <2>6. \A g \in Pages :
            Recorded(frame[p][g])' + Bad(frame[p][g])' <= flips'[frame[p][g]]
      BY <1>4, <2>3, <2>4, <2>5
    <2>7. QED BY <1>5, <2>2, <2>6
  <1>7. CASE Compare(p) \/ Count(p)
    <2>1. pc[p] \in {"compare", "count"}
      BY <1>7 DEF Compare, Count, At
    <2>2. \A g \in Pages : ~Counted(p, g)
      BY <2>1 DEF Counted
    <2>3. ~Fill(p) /\ ~BadWrite(p)
      BY <2>1 DEF Fill, BadWrite, At
    <2>4. UncountedOf(p)'
      BY <1>4, <1>5, <2>2, <2>3
    <2>5. PendingOf(p)'
      <3>1. CASE pc'[p] \notin {"badread", "badwrite"}
        BY <3>1 DEF PendingOf
      <3>2. CASE pc'[p] \in {"badread", "badwrite"}
        <4>1. /\ Count(p) /\ Found(p)
              /\ n_errors'[p] = Cardinality(Differing(p)) /\ opage' = opage
          <5>1. CASE Compare(p)
            BY <3>2, <5>1 DEF Compare, GoOn, Goto, TypeOK
          <5>2. CASE Count(p)
            <6>1. n_errors'[p] = Cardinality(Differing(p))
              BY <5>2 DEF Count, TypeOK
            <6>2. Found(p) /\ opage' = opage
              BY <3>2, <5>2 DEF Count, GoOn, Goto, TypeOK
            <6>3. QED BY <5>2, <6>1, <6>2
          <5>3. QED BY <1>7, <5>1, <5>2
        <4>2. Differing(p) = cell[OFrame(p)].bad
          BY <2>1, OwnFillCompared DEF ComparesOwnFill, Differing
        <4>3. Recorded(OFrame(p)) + Bad(OFrame(p)) <= flips[OFrame(p)]
          BY <1>2, <1>3, <2>2 DEF UncountedOf, OFrame
        <4>4. stats' = stats
          BY <4>1 DEF Count, file
        <4>5. QED
          BY <1>1, <4>1, <4>2, <4>3, <4>4 DEF PendingOf, Recorded, Bad, BadOffset, OFrame
      <3>3. QED BY <3>1, <3>2
    <2>6. QED BY <2>4, <2>5
  <1>8. CASE BadRead(p) \/ CheckRead(p)
    <2>1. \/ pc[p] = "badread" /\ pc'[p] = "badwrite"
          \/ pc[p] = "checkread" /\ pc'[p] = "checkwrite"
      BY <1>8 DEF BadRead, CheckRead, At, Goto, TypeOK
    <2>2. opage' = opage /\ n_errors' = n_errors /\ stats' = stats
      BY <1>8 DEF BadRead, CheckRead, ReadCounter, ring, file
    <2>3. \A g \in Pages : Counted(p, g)' <=> Counted(p, g)
      BY <2>1, <2>2 DEF Counted
    <2>4. ~Fill(p) /\ ~BadWrite(p)
      BY <2>1 DEF Fill, BadWrite, At
    <2>5. UncountedOf(p)'
      BY <1>4, <1>5, <2>3, <2>4
    <2>6. PendingOf(p)'
      BY <1>1, <1>2, <2>1, <2>2 DEF PendingOf, Recorded, BadOffset, OFrame
    <2>7. QED BY <2>5, <2>6
  <1>9. CASE BadWrite(p)
    <2>1. pc[p] = "badwrite" /\ pc'[p] = "checkread" /\ opage' = opage
      BY <1>9 DEF BadWrite, At, Goto, ring, TypeOK
    <2>2. \A g \in Pages : ~Counted(p, g)' => ~Counted(p, g) /\ g # opage[p]
      BY <2>1 DEF Counted
    <2>3. ~Fill(p)
      BY <2>1 DEF Fill, At
    <2>4. UncountedOf(p)'
      BY <1>4, <1>5, <2>2, <2>3
    <2>5. PendingOf(p)'
      BY <2>1 DEF PendingOf
    <2>6. QED BY <2>4, <2>5
  <1>10. CASE CheckWrite(p)
    <2>1. pc[p] = "checkwrite" /\ pc'[p] = "fill" /\ ipage' = ipage
      BY <1>10 DEF CheckWrite, At, Goto, TypeOK
    <2>2. opage[p] = ipage[p]
      BY <1>1, <2>1, SamePage
    <2>3. \A g \in Pages : ~Counted(p, g)' => ~Counted(p, g)
      BY <2>1, <2>2 DEF Counted
    <2>4. ~Fill(p) /\ ~BadWrite(p)
      BY <2>1 DEF Fill, BadWrite, At
    <2>5. UncountedOf(p)'
      BY <1>4, <1>5, <2>3, <2>4
    <2>6. PendingOf(p)'
      BY <2>1 DEF PendingOf
    <2>7. QED BY <2>5, <2>6
  <1>11. QED
    BY <1>6, <1>7, <1>8, <1>9, <1>10 DEF Inner

LEMMA AlarmInner ==
  ASSUME IInv, IInv', AInv, NEW p \in Procs, Inner(p)
  PROVE  AInv'
  <1> USE DEF IInv
  <1>1. frame' = frame /\ flips' = flips /\ Running' = Running /\ p \in Running
    BY InnerKeeps
  <1>2. Clean'
    <2>1. Locked' = Locked
      BY <1>1 DEF Locked
    <2>2. ASSUME NEW f \in Frames, f \notin Locked PROVE cell'[f].bad = {}
      <3>1. f # frame[p][ipage[p]]
        BY <1>1, <2>2, PageFrames, LockedFrames
      <3>2. cell'[f] = cell[f]
        BY <3>1, InnerFrames
      <3>3. QED
        BY <2>2, <3>2 DEF AInv, Clean
    <2>3. QED BY <2>1, <2>2 DEF Clean
  <1>3. NoFalseAlarm'
    <2>1. SUFFICES ASSUME NEW f \in Frames PROVE stats'[BadOffset(f)] <= flips[f]
      BY <1>1 DEF NoFalseAlarm, BadOffset
    <2>2. Recorded(f) <= flips[f] /\ Recorded(f) \in Nat /\ flips[f] \in Nat
      BY Numbers DEF AInv, NoFalseAlarm, Recorded, BadOffset
    <2>3. CASE ~(BadWrite(p) /\ f = OFrame(p))
      <3>1. Recorded(f)' = Recorded(f)
        BY <2>3, InnerFrames
      <3>2. QED BY <2>2, <3>1 DEF Recorded, BadOffset
    <2>4. CASE BadWrite(p) /\ f = OFrame(p)
      <3>1. pc[p] = "badwrite" /\ v[p] = Recorded(f)
        BY <2>4 DEF BadWrite, At, FreshCounters, FreshOf, Recorded
      <3>2. Recorded(f) + n_errors[p] <= flips[f]
        BY <1>1, <2>4, <3>1 DEF AInv, PendingOf
      <3>3. v[p] \in 0..(IntMod - 1) /\ n_errors[p] \in Nat
        BY DEF TypeOK
      <3>4. Incremented(v[p], n_errors[p]) \in 0..(IntMod - 1)
            /\ Incremented(v[p], n_errors[p]) <= v[p] + n_errors[p]
        BY <3>3, IncrementedRange
      <3>5. stats'[BadOffset(f)] = Incremented(v[p], n_errors[p])
        BY <2>4, OffsetsDiffer DEF BadWrite, TypeOK
      <3>6. QED
        BY <2>2, <3>1, <3>2, <3>3, <3>4, <3>5, UrumtAssumption
    <2>5. QED BY <2>3, <2>4
  <1>4. ASSUME NEW q \in Running PROVE UncountedOf(q)' /\ PendingOf(q)'
    BY <1>4, AlarmOthers, AlarmOwn
  <1>5. QED
    BY <1>1, <1>2, <1>3, <1>4 DEF AInv

(* No bad bit is recorded in a frame but for one that flipped there, and   *)
(* none is counted twice, for any number of processes that share the file  *)
(* and are killed anywhere.                                                *)
THEOREM NoBitTooMany == Spec => []NoFalseAlarm
  <1>1. IInv /\ [Next]_vars => IInv'
    BY TypeStep, IdleStep, ExclusiveStep, BehindStep, OwnFillsStep, FreshStep DEF IInv
  <1>2. IInv /\ AInv /\ [Next]_vars => AInv'
    BY <1>1, NextCases, AlarmStart, AlarmExit, AlarmFlip, AlarmInner
  <1>3. IInv /\ AInv => NoFalseAlarm
    BY DEF AInv
  <1>4. QED
    BY InitHolds, AlarmInit, <1>1, <1>2, <1>3, PTL DEF Spec
=============================================================================
