---------------------------- MODULE EepromProofs ----------------------------
(***************************************************************************)
(* Proofs about Eeprom for every width of an address and of a word, every  *)
(* memory and every table: its type invariant, that words are written and  *)
(* read as they should be, and that no other word changes.                 *)
(***************************************************************************)
EXTENDS Eeprom, FiniteSetTheorems, WellFoundedInduction, TLAPS

(* Where the bits of a command are sent, and where those of a word come.   *)
Sending   == pc \in {"put", "clock", "settle", "end"}
Receiving == pc \in {"strobe", "sample", "return"}

(* Where each loop variable is, and what the loop has done so far.         *)
Loops ==
  /\ pc \in {"put", "clock"} => i \in 0..LastBit
  /\ pc \in {"settle", "end"} => i = -1
  /\ pc \in {"strobe", "sample"} => i \in 1..DataBits
  /\ pc = "return" => i = 0
  /\ Sending => retval = 0
  /\ Receiving => retval < 2^(DataBits - i)

(* Which function is where, and which word is its business.                *)
Flow ==
  /\ pc # "idle" => word \in 1..Len(job.table) /\ (job.reads <=> fn = "read")
  /\ pc = "settle" \/ Receiving => fn = "read"
  /\ pc = "end" => fn # "read"
  /\ pc = "wait" => fn = "disable"
  /\ job.reads => Len(got) = word - 1

(* When the chip has taken nothing, and when the next access is heard.     *)
Wires ==
  /\ pins.cs = 0 \/ pc \in {"high", "wait"} \/ chip.writing => chip.sr = 0
  /\ Sending \/ Receiving => pins.cs = 1
  /\ pc \in {"clock", "strobe"} => pins.clk = 0

(* The clocks given to the chip since the command was complete.            *)
Strobes == DataBits - i + (IF pc = "sample" THEN 1 ELSE 0)

(* The chip has taken every bit, or has missed the start bit at least: then *)
(* what it takes for a command is shorter than the one that was sent.       *)
Hears ==
  /\ Sending => chip.sr = Command \div 2^(i + 1)
  /\ Receiving => chip.sr = Command * 2^Strobes

Missed ==
  /\ Sending => (chip.sr + 1) * 2^(i + 1) <= 2^(LastBit - 2)
  /\ Receiving => chip.sr < 2^(AddrBits + 2) * 2^Strobes

Line == Hears \/ Missed

(* What may become of a word.                                              *)
Allowed(a, v) == v \in asked[a] \/ (~whole /\ v = Erased)

AskedWord ==
  fn = "write" /\ pc \notin {"idle", "low"} => job.table[word] \in asked[location]

AskedShift == \A a \in Targets(chip.sr) : Allowed(a, Datum(chip.sr))

AskedNext ==
  chip.writing => \A a \in Locs : chip.next[a] # chip.mem[a] => Allowed(a, chip.next[a])

AskedFor == AskedWord /\ AskedShift /\ AskedNext

(* A program that found no command in the chip is heard, except when it    *)
(* disables writing: then the chip may be writing, or have just finished.  *)
Heard ==
  whole =>
    /\ Hears \/ (fn = "disable" /\ chip.sr = 0)
    /\ pc = "low" => Targets(chip.sr) = {}
    /\ chip.writing => ~job.reads /\ (pc = "idle" \/ fn = "disable")

Writes ==
  whole /\ ~job.reads =>
    /\ chip.writing => chip.next = [chip.mem EXCEPT ![location] = job.table[word]]
    /\ fn = "enable" /\ pc = "end" => chip.wen
    /\ pc # "idle" /\ fn = "write" => chip.wen
    /\ pc # "idle" /\ fn = "disable" =>
         chip.writing \/ chip.mem[location] = job.table[word]

Reads ==
  whole /\ job.reads /\ Receiving => retval = chip.mem[location] \div 2^i

IInv == /\ TypeOK /\ Loops /\ Flow /\ Wires /\ Line /\ AskedFor
        /\ Heard /\ Writes /\ Reads /\ WordsWritten /\ ReadsTrue

-----------------------------------------------------------------------------
(* Powers of two.  The recursion of the operator ^ is out of reach, but 2^k *)
(* is also the number of subsets of a set of k elements.                    *)

LEMMA PowZero == 2^0 = 1
  OBVIOUS

(* 2^k is the number of subsets of 1..k. *)
LEMMA PowCounts ==
  ASSUME NEW k \in Nat
  PROVE  IsFiniteSet(SUBSET (1..k)) /\ Cardinality(SUBSET (1..k)) = 2^k
<1>1. IsFiniteSet(1..k) /\ Cardinality(1..k) = k
  BY FS_Interval
<1>. QED
  BY <1>1, FS_SUBSET

LEMMA PowStep ==
  ASSUME NEW k \in Nat
  PROVE  2^k \in Nat /\ 2^(k + 1) = 2 * 2^k
<1>. DEFINE S == SUBSET (1..k)
            T == {s \cup {k + 1} : s \in S}
            f == [s \in S |-> s \cup {k + 1}]
<1>1. IsFiniteSet(S) /\ Cardinality(S) = 2^k
  BY PowCounts
<1>2. f \in Bijection(S, T)
  <2>1. f \in Surjection(S, T)
    BY DEF Surjection
  <2>2. \A s, t \in S : f[s] = f[t] => s = t
    <3>. SUFFICES ASSUME NEW s \in S, NEW t \in S, s \cup {k + 1} = t \cup {k + 1}
                  PROVE  s = t
      OBVIOUS
    <3>1. k + 1 \notin s /\ k + 1 \notin t
      OBVIOUS
    <3>. QED
      BY <3>1
  <2>. QED
    BY <2>1, <2>2 DEF Bijection, Injection, IsInjective, Surjection
<1>3. IsFiniteSet(T) /\ Cardinality(T) = 2^k
  BY <1>1, <1>2, FS_Bijection DEF ExistsBijection
<1>4. S \cap T = {}
  <2>1. \A s \in S : k + 1 \notin s
    OBVIOUS
  <2>. QED
    BY <2>1
<1>5. SUBSET (1..(k + 1)) = S \cup T
  <2>1. ASSUME NEW u \in SUBSET (1..(k + 1))
        PROVE  u \in S \cup T
    <3>1. CASE k + 1 \in u
      <4>1. u \ {k + 1} \in S
        OBVIOUS
      <4>2. u = (u \ {k + 1}) \cup {k + 1}
        BY <3>1
      <4>. QED
        BY <4>1, <4>2
    <3>2. CASE k + 1 \notin u
      <4>1. u \in S
        BY <3>2
      <4>. QED
        BY <4>1
    <3>. QED
      BY <3>1, <3>2
  <2>2. ASSUME NEW u \in S \cup T
        PROVE  u \in SUBSET (1..(k + 1))
    <3>1. 1..k \subseteq 1..(k + 1) /\ k + 1 \in 1..(k + 1)
      OBVIOUS
    <3>2. CASE u \in S
      BY <3>1, <3>2, Zenon
    <3>3. CASE u \in T
      BY <3>1, <3>3, Zenon
    <3>. QED
      BY <3>2, <3>3
  <2>. HIDE DEF S, T
  <2>. QED
    BY <2>1, <2>2, Zenon
<1>6. Cardinality(S \cup T) = Cardinality(S) + Cardinality(T)
  <2>1. Cardinality(S) \in Nat /\ Cardinality(T) \in Nat
    BY <1>1, <1>3, FS_CardinalityType
  <2>2. Cardinality(S \cap T) = 0
    BY <1>4, FS_EmptySet
  <2>. HIDE DEF S, T
  <2>3. Cardinality(S \cup T) = Cardinality(S) + Cardinality(T) - Cardinality(S \cap T)
    BY <1>1, <1>3, FS_Union
  <2>. QED
    BY <2>1, <2>2, <2>3
<1>7. Cardinality(SUBSET (1..(k + 1))) = 2^(k + 1)
  <2>1. k + 1 \in Nat
    OBVIOUS
  <2>. HIDE DEF S, T
  <2>. QED
    BY <2>1, PowCounts
<1>8. 2^k \in Nat
  BY <1>1, FS_CardinalityType
<1>9. 2^(k + 1) = 2^k + 2^k
  BY <1>1, <1>3, <1>5, <1>6, <1>7
<1>. QED
  BY <1>8, <1>9

(* A set of naturals that is not empty has a least element. *)
LEMMA Least ==
  ASSUME NEW S \in SUBSET Nat, S # {}
  PROVE  \E x \in S : \A y \in S : x <= y
<1>1. PICK x \in S : \A y \in S : <<y, x>> \notin OpToRel(<, Nat)
  BY NatLessThanWellFounded, WFMin, Zenon
<1>2. \A y \in S : ~ (y < x)
  BY <1>1, Zenon DEF OpToRel
<1>. QED
  BY <1>2

LEMMA PowSum ==
  ASSUME NEW a \in Nat, NEW b \in Nat
  PROVE  2^(a + b) = 2^a * 2^b
<1>. DEFINE Bad == {k \in Nat : 2^(a + k) # 2^a * 2^k}
<1>. SUFFICES ASSUME Bad # {} PROVE FALSE
  OBVIOUS
<1>1. PICK x \in Bad : \A y \in Bad : x <= y
  BY Least
<1>2. x # 0
  <2>1. a + 0 = a /\ 2^a * 1 = 2^a
    BY PowStep
  <2>. QED
    BY <2>1, PowZero
<1>3. x - 1 \in Nat /\ x - 1 \notin Bad
  BY <1>1, <1>2
<1>4. 2^(a + (x - 1)) = 2^a * 2^(x - 1)
  BY <1>3
<1>5. 2^x = 2 * 2^(x - 1) /\ 2^(x - 1) \in Nat
  <2>1. x = (x - 1) + 1
    BY <1>3
  <2>. QED
    BY <2>1, <1>3, PowStep
<1>6. 2^(a + x) = 2 * 2^(a + (x - 1))
  <2>1. a + x = (a + (x - 1)) + 1 /\ a + (x - 1) \in Nat
    BY <1>3
  <2>. QED
    BY <2>1, PowStep
<1>7. 2^(a + x) = 2^a * 2^x
  BY <1>4, <1>5, <1>6, PowStep
<1>. QED
  BY <1>1, <1>7

LEMMA PowPositive ==
  ASSUME NEW k \in Nat
  PROVE  2^k \in Nat /\ 2^k >= 1
<1>. DEFINE Bad == {n \in Nat : 2^n = 0}
<1>1. 2^k \in Nat
  BY PowStep
<1>. SUFFICES ASSUME Bad # {} PROVE FALSE
  BY <1>1
<1>2. PICK x \in Bad : \A y \in Bad : x <= y
  BY Least
<1>3. x # 0
  <2>1. 2^0 # 0
    BY PowZero
  <2>. QED
    BY <1>2, <2>1
<1>4. x - 1 \in Nat /\ x - 1 \notin Bad /\ x = (x - 1) + 1
  BY <1>2, <1>3
<1>5. 2^x = 2 * 2^(x - 1) /\ 2^(x - 1) \in Nat
  BY <1>4, PowStep
<1>. QED
  BY <1>2, <1>4, <1>5

LEMMA PowMono ==
  ASSUME NEW a \in Nat, NEW b \in Nat, a <= b
  PROVE  2^a <= 2^b /\ (a < b => 2 * 2^a <= 2^b)
<1>1. 2^b = 2^a * 2^(b - a)
  <2>1. b - a \in Nat /\ a + (b - a) = b
    OBVIOUS
  <2>. QED
    BY <2>1, PowSum
<1>2. 2^a \in Nat /\ 2^(b - a) \in Nat /\ 2^(b - a) >= 1
  BY PowPositive
<1>3. 2^a <= 2^b
  BY <1>1, <1>2
<1>4. ASSUME a < b PROVE 2 * 2^a <= 2^b
  <2>1. b - a - 1 \in Nat /\ b - a = (b - a - 1) + 1
    BY <1>4
  <2>2. 2^(b - a) = 2 * 2^(b - a - 1) /\ 2^(b - a - 1) >= 1 /\ 2^(b - a - 1) \in Nat
    BY <2>1, PowStep, PowPositive
  <2>3. 2^(b - a) >= 2
    BY <2>2
  <2>. QED
    BY <1>1, <1>2, <2>3
<1>. QED
  BY <1>3, <1>4

LEMMA PowPlace ==
  ASSUME NEW k \in Nat
  PROVE  2^k \in Nat /\ 2^k >= 1 /\ (k = 0 => 2^k = 1) /\ (k >= 1 => 2^k >= 2)
<1>1. 2^k \in Nat /\ 2^k >= 1
  BY PowPositive
<1>2. ASSUME k = 0 PROVE 2^k = 1
  BY <1>2, PowZero
<1>3. ASSUME k >= 1 PROVE 2^k >= 2
  <2>1. k - 1 \in Nat /\ k = (k - 1) + 1
    BY <1>3
  <2>2. 2^((k - 1) + 1) = 2 * 2^(k - 1) /\ 2^(k - 1) \in Nat /\ 2^(k - 1) >= 1
    BY <2>1, PowStep, PowPositive
  <2>. QED
    BY <2>1, <2>2
<1>. QED
  BY <1>1, <1>2, <1>3

-----------------------------------------------------------------------------
(* Quotients and remainders. *)

(* The bits of a number, one by one. *)
LEMMA NextBit ==
  ASSUME NEW c \in Nat, NEW p \in Nat, p >= 1
  PROVE  c \div p = 2 * (c \div (2 * p)) + ((c \div p) % 2)
  OBVIOUS

LEMMA DivLess ==
  ASSUME NEW c \in Nat, NEW p \in Nat, p >= 1, NEW q \in Nat
  PROVE  /\ c \div p \in Nat
         /\ c \div p = q <=> q * p <= c /\ c < (q + 1) * p
  OBVIOUS

LEMMA DivBounds ==
  ASSUME NEW c \in Nat, NEW p \in Nat, p >= 1
  PROVE  /\ c \div p \in Nat
         /\ (c \div p) * p <= c /\ c < ((c \div p) + 1) * p
         /\ c \div p <= c
  OBVIOUS

LEMMA Parts ==
  ASSUME NEW q \in Nat, NEW p \in Nat, NEW r \in 0..(p - 1)
  PROVE  (q * p + r) \div p = q /\ (q * p + r) % p = r
  OBVIOUS

LEMMA ModNat ==
  ASSUME NEW c \in Nat, NEW p \in Nat, p >= 1
  PROVE  c % p \in 0..(p - 1)
  OBVIOUS

LEMMA TimesMono ==
  ASSUME NEW p \in Nat, p >= 1, NEW x \in Nat, NEW y \in Nat
  PROVE  /\ x <= y => x * p <= y * p
         /\ x < y => x * p < y * p
  OBVIOUS

LEMMA BitRange ==
  ASSUME NEW c \in Nat
  PROVE c % 2 \in {0, 1}
  OBVIOUS

LEMMA Sizes ==
  /\ 2^(AddrBits - 2) \in Nat /\ 2^(AddrBits - 2) >= 1
  /\ 2^AddrBits \in Nat /\ 2^AddrBits = 4 * 2^(AddrBits - 2)
  /\ 2^(AddrBits + 2) = 4 * 2^AddrBits
  /\ 2^(AddrBits + 3) = 8 * 2^AddrBits
  /\ 2^DataBits \in Nat /\ 2^DataBits >= 2
  /\ 2^(AddrBits + DataBits) \in Nat /\ 2^(AddrBits + DataBits) >= 2 * 2^AddrBits
  /\ 2^(AddrBits + DataBits) = 2^AddrBits * 2^DataBits
  /\ 2^(AddrBits + DataBits - 2) \in Nat
  /\ 2^(AddrBits + DataBits) = 4 * 2^(AddrBits + DataBits - 2)
  /\ 2^(AddrBits + DataBits + 2) = 4 * 2^(AddrBits + DataBits)
  /\ 2^(AddrBits + DataBits + 3) = 8 * 2^(AddrBits + DataBits)
<1>1. AddrBits \in Nat /\ AddrBits >= 2 /\ DataBits \in Nat /\ DataBits >= 1
  BY EepromAssumption
<1>. DEFINE Twice(k) == 2^k \in Nat /\ 2^k >= 1 /\ 2^(k + 1) = 2 * 2^k
<1>2. \A k \in Nat : Twice(k)
  BY PowStep, PowPositive
<1>3. ASSUME NEW k \in Nat
      PROVE  /\ 2^k \in Nat /\ 2^k >= 1
             /\ 2^(k + 2) = 4 * 2^k /\ 2^(k + 3) = 8 * 2^k
  <2>1. k + 2 = (k + 1) + 1 /\ k + 3 = ((k + 1) + 1) + 1
    OBVIOUS
  <2>2. Twice(k) /\ Twice(k + 1) /\ Twice((k + 1) + 1)
    BY <1>2
  <2>. QED
    BY <2>1, <2>2
<1>4. 2^(AddrBits - 2) >= 1 /\ 2^(AddrBits - 2) \in Nat /\ 2^AddrBits = 4 * 2^(AddrBits - 2)
  <2>1. AddrBits - 2 \in Nat /\ AddrBits = (AddrBits - 2) + 2
    BY <1>1
  <2>. QED
    BY <2>1, <1>3
<1>5. /\ 2^(AddrBits + DataBits - 2) \in Nat
      /\ 2^(AddrBits + DataBits) = 4 * 2^(AddrBits + DataBits - 2)
  <2>1. AddrBits + DataBits - 2 \in Nat
        /\ AddrBits + DataBits = (AddrBits + DataBits - 2) + 2
    BY <1>1
  <2>. QED
    BY <2>1, <1>3
<1>6. 2^DataBits \in Nat /\ 2^DataBits >= 2
  <2>1. DataBits - 1 \in Nat /\ DataBits = (DataBits - 1) + 1
    BY <1>1
  <2>2. Twice(DataBits - 1)
    BY <2>1, <1>2
  <2>. QED
    BY <2>1, <2>2
<1>7. 2^(AddrBits + DataBits) = 2^AddrBits * 2^DataBits
  BY <1>1, PowSum
<1>8. 2^(AddrBits + DataBits) >= 2 * 2^AddrBits
  BY <1>1, PowMono
<1>9. AddrBits + DataBits \in Nat
  BY <1>1
<1>. QED
  BY <1>1, <1>3, <1>4, <1>5, <1>6, <1>7, <1>8, <1>9

-----------------------------------------------------------------------------
(* The chip. *)

LEMMA TargetsTyped ==
  ASSUME NEW s \in Nat
  PROVE  Targets(s) \subseteq Locs /\ Datum(s) \in Words /\ Erased \in Words
<1>1. 2^DataBits \in Nat /\ 2^DataBits >= 1
  BY Sizes
<1>2. s % 2^DataBits \in 0..(2^DataBits - 1)
  BY <1>1, ModNat
<1>. QED
  BY <1>1, <1>2 DEF Targets, Datum, Erased, Words, Locs

(* The quotients that make a number a complete command. *)
LEMMA TargetsNeed ==
  ASSUME NEW s \in Nat, Targets(s) # {}
  PROVE  \/ s \div 2^(AddrBits + DataBits) = 5
         \/ s \div 2^(AddrBits + DataBits - 2) = 17
         \/ s \div 2^AddrBits = 7
         \/ s \div 2^(AddrBits - 2) = 18
  BY DEF Targets

LEMMA TooShort ==
  ASSUME NEW s \in Nat, s < 4 * 2^AddrBits
  PROVE  Targets(s) = {}
<1>. DEFINE r == 2^(AddrBits - 2)
            R == 2^(AddrBits + DataBits - 2)
<1>1. /\ r \in Nat /\ r >= 1 /\ 2^AddrBits = 4 * r
      /\ R \in Nat /\ R >= 2 * r /\ 2^(AddrBits + DataBits) = 4 * R
  BY Sizes
<1>. SUFFICES ASSUME Targets(s) # {}
              PROVE  FALSE
  OBVIOUS
<1>. HIDE DEF r, R
<1>2. s \div (4 * R) = 5 \/ s \div R = 17 \/ s \div (4 * r) = 7 \/ s \div r = 18
  BY <1>1, TargetsNeed DEF r, R
<1>. QED
  BY <1>1, <1>2, DivLess

LEMMA TargetsZero == Targets(0) = {}
  BY Sizes, TooShort

(* What each kind of access to the port does to the chip. *)
LEMMA QuietAccess ==
  ASSUME TypeOK, NEW b \in Bit, Out(1, 0, b)
  PROVE  /\ chip' = chip
         /\ pins' \in [cs : Bit, clk : Bit, di : Bit]
         /\ pins'.cs = 1 /\ pins'.clk = 0
  BY DEF Out, TypeOK, Bit

LEMMA DeselectAccess ==
  ASSUME TypeOK, pins.cs = 0 => chip.sr = 0,
         NEW k \in Bit, NEW d \in Bit, Out(0, k, d)
  PROVE  /\ chip' \in ChipType
         /\ pins' \in [cs : Bit, clk : Bit, di : Bit] /\ pins'.cs = 0
         /\ chip'.sr = 0 /\ chip'.wen = chip.wen /\ chip'.mem = chip.mem
         /\ ~chip.wen \/ Targets(chip.sr) = {} =>
              chip'.writing = chip.writing /\ chip'.next = chip.next
         /\ chip.wen /\ Targets(chip.sr) # {} =>
              /\ chip'.writing
              /\ chip'.next = [a \in Locs |-> IF a \in Targets(chip.sr) THEN Datum(chip.sr)
                                               ELSE chip.mem[a]]
<1>1. pins' = [cs |-> 0, clk |-> k, di |-> d]
  BY DEF Out
<1>2. chip \in ChipType /\ pins.cs \in Bit
  BY DEF TypeOK
<1>3. CASE pins.cs = 0
  <2>1. chip' = chip /\ chip.sr = 0
    BY <1>3 DEF Out
  <2>. QED
    BY <1>1, <1>2, <2>1, TargetsZero DEF ChipType, Bit
<1>4. CASE pins.cs = 1
  <2>1. chip' = Deselected(chip)
    BY <1>4 DEF Out
  <2>. DEFINE new == [a \in Locs |-> IF a \in Targets(chip.sr) THEN Datum(chip.sr)
                                     ELSE chip.mem[a]]
  <2>2. new \in [Locs -> Words]
    BY <1>2, TargetsTyped DEF ChipType
  <2>3. CASE chip.wen /\ Targets(chip.sr) # {}
    <3>1. chip' = [chip EXCEPT !.sr = 0, !.writing = TRUE, !.next = new]
      BY <2>1, <2>3 DEF Deselected
    <3>. HIDE DEF new
    <3>. QED
      BY <1>1, <1>2, <2>2, <2>3, <3>1 DEF ChipType, Bit, new
  <2>4. CASE ~(chip.wen /\ Targets(chip.sr) # {})
    <3>1. chip' = [chip EXCEPT !.sr = 0]
      <4>1. (chip.writing \/ (chip.wen /\ Targets(chip.sr) # {})) = chip.writing
        BY <1>2, <2>4, Zenon DEF ChipType
      <4>. QED
        BY <1>2, <2>1, <2>4, <4>1 DEF Deselected, ChipType
    <3>. QED
      BY <1>1, <1>2, <2>4, <3>1 DEF ChipType, Bit
  <2>. QED
    BY <2>3, <2>4
<1>. QED
  BY <1>2, <1>3, <1>4 DEF Bit

LEMMA ClockAccess ==
  ASSUME TypeOK, pins.clk = 0, NEW b \in Bit, Out(1, 1, b)
  PROVE  /\ chip' \in ChipType
         /\ pins' \in [cs : Bit, clk : Bit, di : Bit] /\ pins'.cs = 1
         /\ chip'.mem = chip.mem /\ chip'.writing = chip.writing /\ chip'.next = chip.next
         /\ chip.writing => chip' = chip
         /\ ~chip.writing =>
              /\ chip'.sr = 2 * chip.sr + b
              /\ chip'.sr \div 2^(AddrBits - 2) = 19 => chip'.wen
              /\ chip'.sr \div 2^(AddrBits - 2) # 16 /\ chip.wen => chip'.wen
<1>1. pins' = [cs |-> 1, clk |-> 1, di |-> b]
  BY DEF Out
<1>2. chip \in ChipType /\ pins.cs \in Bit
  BY DEF TypeOK
<1>3. chip' = Clocked(chip, b)
  BY DEF Out
<1>4. CASE chip.writing
  BY <1>1, <1>2, <1>3, <1>4 DEF Clocked, Bit
<1>5. CASE ~chip.writing
  <2>. DEFINE s == 2 * chip.sr + b
              w == IF s \div 2^(AddrBits - 2) \in {16, 19}
                   THEN s \div 2^(AddrBits - 2) = 19 ELSE chip.wen
  <2>1. chip' = [chip EXCEPT !.sr = s, !.wen = w]
    BY <1>3, <1>5 DEF Clocked
  <2>2. s \in Nat
    BY <1>2 DEF ChipType, Bit
  <2>3. w \in BOOLEAN
    BY <1>2, Zenon DEF ChipType
  <2>4. /\ s \div 2^(AddrBits - 2) = 19 => w
        /\ s \div 2^(AddrBits - 2) # 16 /\ chip.wen => w
    OBVIOUS
  <2>. HIDE DEF s, w
  <2>5. chip' \in ChipType /\ chip'.sr = s /\ chip'.wen = w
        /\ chip'.mem = chip.mem /\ chip'.writing = chip.writing /\ chip'.next = chip.next
    BY <1>2, <2>1, <2>2, <2>3 DEF ChipType
  <2>. QED
    BY <1>1, <1>5, <2>4, <2>5 DEF s, Bit
<1>. QED
  BY <1>4, <1>5

-----------------------------------------------------------------------------
(* The program. *)

LEMMA JobTyped ==
  ASSUME TypeOK
  PROVE  /\ job.reads \in BOOLEAN /\ job.first \in Locs /\ job.table \in Seq(Words)
         /\ Len(job.table) \in Nat /\ Len(job.table) >= 1
         /\ job.first + Len(job.table) <= 2^AddrBits
<1>1. job \in JobType /\ job.table # << >> /\ job.first + Len(job.table) <= 2^AddrBits
  BY EepromAssumption DEF TypeOK
<1>. QED
  BY <1>1 DEF JobType

LEMMA LocationTyped ==
  ASSUME TypeOK, word \in 1..Len(job.table)
  PROVE  /\ location \in Locs /\ location = job.first + word - 1
         /\ job.table[word] \in Words
<1>1. 2^AddrBits \in Nat
  BY Sizes
<1>. QED
  BY <1>1, JobTyped DEF location, Locs

(* Where a command lies among the powers of two. *)
LEMMA CommandRange ==
  ASSUME TypeOK, word \in 1..Len(job.table)
  PROVE  /\ Command \in Nat
         /\ fn = "enable" => Command = 19 * 2^(AddrBits - 2)
         /\ fn = "disable" => Command = 4 * 2^AddrBits
         /\ fn = "read" => /\ Command = 6 * 2^AddrBits + location
                           /\ 6 * 2^AddrBits <= Command /\ Command < 7 * 2^AddrBits
         /\ fn = "write" => /\ Command = (5 * 2^AddrBits + location) * 2^DataBits + job.table[word]
                            /\ 5 * 2^(AddrBits + DataBits) <= Command
                            /\ Command < 6 * 2^(AddrBits + DataBits)
<1>. DEFINE r == 2^(AddrBits - 2)
            p == 2^AddrBits
            q == 2^DataBits
            v == job.table[word]
<1>1. /\ r \in Nat /\ p \in Nat /\ p = 4 * r /\ q \in Nat /\ q >= 2
      /\ 2^(AddrBits + DataBits) = p * q
  BY Sizes
<1>2. location \in 0..(p - 1) /\ v \in 0..(q - 1)
  BY LocationTyped DEF Locs, Words
<1>3. CASE fn = "enable"
  <2>1. Command = 4 * p + 3 * r
    BY <1>3 DEF Command
  <2>2. p = 4 * r /\ r \in Nat
    BY <1>1
  <2>. HIDE DEF p, r
  <2>3. Command = 19 * r
    BY <2>1, <2>2
  <2>4. Command \in Nat
    BY <2>2, <2>3
  <2>. QED
    BY <1>3, <2>3, <2>4 DEF r
<1>4. CASE fn = "disable"
  BY <1>1, <1>4 DEF Command
<1>5. CASE fn = "read"
  <2>1. Command = 6 * p + location
    BY <1>5 DEF Command
  <2>. HIDE DEF r, p, q, v
  <2>2. Command \in Nat /\ 6 * p <= Command /\ Command < 7 * p
    BY <1>1, <1>2, <2>1
  <2>. QED
    BY <1>5, <2>1, <2>2 DEF p
<1>6. CASE fn = "write"
  <2>1. Command = (5 * p + location) * q + v
    BY <1>6 DEF Command, WriteCommand
  <2>. HIDE DEF r, p, q, v
  <2>2. location * q + v >= 0 /\ location * q + v < p * q /\ location * q \in Nat
    <3>1. (location + 1) * q <= p * q
      BY <1>1, <1>2
    <3>2. location * q \in Nat /\ (location + 1) * q = location * q + q
      BY <1>1, <1>2
    <3>. QED
      BY <1>1, <1>2, <3>1, <3>2
  <2>3. (5 * p + location) * q + v = 5 * (p * q) + (location * q + v)
    BY <1>1, <1>2
  <2>4. p * q \in Nat
    BY <1>1
  <2>5. /\ Command \in Nat
        /\ 5 * (p * q) <= Command /\ Command < 6 * (p * q)
    BY <1>2, <2>1, <2>2, <2>3, <2>4
  <2>. QED
    BY <1>1, <1>6, <2>1, <2>5 DEF p, q, v
<1>7. fn \in {"enable", "write", "disable", "read"}
  BY DEF TypeOK
<1>. QED
  BY <1>3, <1>4, <1>5, <1>6, <1>7, Zenon

LEMMA BitTyped ==
  ASSUME NEW n \in Nat, NEW k \in Nat
  PROVE  BitOf(n, k) \in Bit
<1>1. 2^k \in Nat /\ 2^k >= 1
  BY PowPositive
<1>2. n \div 2^k \in Nat
  BY <1>1, DivLess
<1>. QED
  BY <1>2, BitRange DEF BitOf, Bit

LEMMA DataOutTyped == DataOut \in Bit
  BY DEF DataOut, Bit

TInv == TypeOK /\ Loops /\ Flow /\ Wires

LEMMA LastBitTyped ==
  ASSUME TypeOK
  PROVE  LastBit \in Nat /\ LastBit >= 6 /\ LastBit <= AddrBits + DataBits + 4
  BY EepromAssumption DEF LastBit

LEMMA TInvInit == Init => TInv
<1>. SUFFICES ASSUME Init
              PROVE  TInv
  OBVIOUS
<1>. USE DEF Init
<1>1. 2^DataBits \in Nat /\ 2^DataBits >= 2
  BY Sizes
<1>2. job \in JobType /\ job.table # << >> /\ Len(job.table) \in Nat
  BY EepromAssumption DEF JobType
<1>3. chip \in ChipType /\ chip.sr = 0
  <2>1. PICK m \in Contents :
          chip = [sr |-> 0, wen |-> FALSE, mem |-> m, writing |-> FALSE, next |-> m]
    OBVIOUS
  <2>. QED
    BY <2>1, EepromAssumption DEF ChipType
<1>4. TypeOK
  <2>1. i \in -1..(AddrBits + DataBits + 4) /\ runs \in 0..MaxRuns
    BY EepromAssumption
  <2>2. retval \in Words /\ word \in 1..(Len(job.table) + 1)
    BY <1>1, <1>2 DEF Words
  <2>. QED
    BY <1>3, <2>1, <2>2 DEF TypeOK, Bit
<1>. QED
  BY <1>3, <1>4 DEF TInv, Loops, Flow, Wires, Sending, Receiving

(* A quiet access leaves the chip alone, and with it what Wires says of it. *)
LEMMA TInvStep == TInv /\ [Next]_vars => TInv'
<1>. SUFFICES ASSUME TInv, [Next]_vars
              PROVE  TInv'
  OBVIOUS
<1>1. TypeOK /\ Loops /\ Flow /\ Wires
  BY DEF TInv
<1>. USE DEF Sending, Receiving
<1>2. CASE Start
  <2>1. /\ pc = "idle" /\ job' \in Jobs /\ word' = 1 /\ got' = << >> /\ runs < MaxRuns
        /\ runs' = runs + 1 /\ whole' = (Targets(chip.sr) = {}) /\ pc' = "low"
        /\ fn' = (IF job'.reads THEN "read" ELSE "enable")
        /\ i' = i /\ retval' = retval /\ asked' = asked /\ pins' = pins /\ chip' = chip
    BY <1>2 DEF Start, Call
  <2>2. job' \in JobType /\ job'.table # << >>
    BY <2>1, EepromAssumption
  <2>3. Len(job'.table) \in Nat /\ Len(job'.table) >= 1 /\ job'.reads \in BOOLEAN
    BY <2>2 DEF JobType
  <2>4. runs' \in 0..MaxRuns
    BY <1>1, <2>1, EepromAssumption DEF TypeOK
  <2>5. TypeOK'
    <3>1. whole' \in BOOLEAN
      BY <2>1
    <3>2. word' \in 1..(Len(job'.table) + 1) /\ got' \in Seq(Words)
      BY <2>1, <2>3
    <3>. QED
      BY <1>1, <2>1, <2>3, <2>4, <3>1, <3>2 DEF TypeOK
  <2>6. Flow'
    BY <2>1, <2>3 DEF Flow
  <2>7. Loops' /\ Wires'
    BY <1>1, <2>1 DEF Loops, Wires
  <2>. QED
    BY <2>5, <2>6, <2>7 DEF TInv
<1>3. CASE Low
  <2>1. /\ pc = "low" /\ pc' = "high" /\ Out(0, 0, 0)
        /\ asked' = IF fn = "write" THEN [asked EXCEPT ![location] = @ \cup {job.table[word]}]
                    ELSE asked
        /\ job' = job /\ word' = word /\ fn' = fn /\ i' = i /\ retval' = retval /\ got' = got
        /\ runs' = runs /\ whole' = whole
    BY <1>3 DEF Low
  <2>2. /\ chip' \in ChipType /\ chip'.sr = 0
        /\ pins' \in [cs : Bit, clk : Bit, di : Bit] /\ pins'.cs = 0
    BY <1>1, <2>1, DeselectAccess DEF Wires, Bit
  <2>3. word \in 1..Len(job.table)
    BY <1>1, <2>1 DEF Flow
  <2>4. location \in Locs /\ job.table[word] \in Words
    BY <1>1, <2>3, LocationTyped
  <2>5. asked' \in [Locs -> SUBSET Words]
    BY <1>1, <2>1, <2>4 DEF TypeOK
  <2>6. TypeOK'
    BY <1>1, <2>1, <2>2, <2>5 DEF TypeOK
  <2>7. Loops' /\ Flow' /\ Wires'
    BY <1>1, <2>1, <2>2 DEF Loops, Flow, Wires
  <2>. QED
    BY <2>6, <2>7 DEF TInv
<1>4. CASE High
  <2>1. /\ pc = "high" /\ pc' = "put" /\ Out(1, 0, 0) /\ i' = LastBit /\ retval' = 0
        /\ job' = job /\ word' = word /\ fn' = fn /\ got' = got
        /\ runs' = runs /\ whole' = whole /\ asked' = asked
    BY <1>4 DEF High
  <2>2. /\ chip' = chip /\ pins' \in [cs : Bit, clk : Bit, di : Bit]
        /\ pins'.cs = 1 /\ pins'.clk = 0
    BY <1>1, <2>1, QuietAccess DEF Bit
  <2>3. LastBit \in Nat /\ LastBit' = LastBit /\ LastBit <= AddrBits + DataBits + 4
    BY <1>1, <2>1, LastBitTyped DEF LastBit
  <2>4. retval' \in Words /\ i' \in -1..(AddrBits + DataBits + 4)
    BY <2>1, <2>3, Sizes, EepromAssumption DEF Words
  <2>5. TypeOK'
    BY <1>1, <2>1, <2>2, <2>4 DEF TypeOK
  <2>6. Loops'
    BY <2>1, <2>3 DEF Loops
  <2>7. Flow' /\ Wires'
    BY <1>1, <2>1, <2>2 DEF Flow, Wires
  <2>. QED
    BY <2>5, <2>6, <2>7 DEF TInv
<1>5. CASE Put
  <2>1. pc = "put" /\ pc' = "clock" /\ Out(1, 0, BitOf(Command, i)) /\ UNCHANGED prog
    BY <1>5 DEF Put
  <2>2. word \in 1..Len(job.table) /\ i \in Nat
    BY <1>1, <2>1, LastBitTyped DEF Flow, Loops
  <2>3. BitOf(Command, i) \in Bit
    BY <1>1, <2>2, CommandRange, BitTyped
  <2>4. /\ chip' = chip /\ pins' \in [cs : Bit, clk : Bit, di : Bit]
        /\ pins'.cs = 1 /\ pins'.clk = 0
    <3>1. PICK b \in Bit : b = BitOf(Command, i)
      BY <2>3
    <3>. QED
      BY <1>1, <2>1, <3>1, QuietAccess
  <2>5. TypeOK'
    BY <1>1, <2>1, <2>4 DEF TypeOK, prog
  <2>6. LastBit' = LastBit
    BY <2>1 DEF LastBit, prog
  <2>7. Loops' /\ Flow' /\ Wires'
    BY <1>1, <2>1, <2>4, <2>6 DEF Loops, Flow, Wires, prog
  <2>. QED
    BY <2>5, <2>7 DEF TInv
<1>6. CASE Clock
  <2>1. /\ pc = "clock" /\ Out(1, 1, BitOf(Command, i)) /\ i' = i - 1
        /\ pc' = (IF i > 0 THEN "put" ELSE IF fn = "read" THEN "settle" ELSE "end")
        /\ job' = job /\ word' = word /\ fn' = fn /\ retval' = retval /\ got' = got
        /\ runs' = runs /\ whole' = whole /\ asked' = asked
    BY <1>6 DEF Clock
  <2>2. word \in 1..Len(job.table) /\ i \in 0..LastBit /\ i \in Nat
    BY <1>1, <2>1, LastBitTyped DEF Flow, Loops
  <2>3. BitOf(Command, i) \in Bit /\ pins.clk = 0
    BY <1>1, <2>1, <2>2, CommandRange, BitTyped DEF Wires
  <2>4. /\ chip' \in ChipType /\ pins' \in [cs : Bit, clk : Bit, di : Bit] /\ pins'.cs = 1
        /\ chip'.writing = chip.writing /\ (chip.writing => chip' = chip)
    <3>1. PICK b \in Bit : b = BitOf(Command, i)
      BY <2>3
    <3>. QED
      BY <1>1, <2>1, <2>3, <3>1, ClockAccess
  <2>5. LastBit' = LastBit /\ LastBit \in Nat /\ LastBit <= AddrBits + DataBits + 4
    BY <1>1, <2>1, LastBitTyped DEF LastBit
  <2>6. i' \in -1..(AddrBits + DataBits + 4) /\ (i > 0 => i' \in 0..LastBit') /\ (~(i > 0) => i' = -1)
    BY <2>1, <2>2, <2>5, EepromAssumption
  <2>7. TypeOK'
    BY <1>1, <2>1, <2>4, <2>6 DEF TypeOK
  <2>8. Loops' /\ Flow' /\ Wires'
    BY <1>1, <2>1, <2>4, <2>6 DEF Loops, Flow, Wires
  <2>. QED
    BY <2>7, <2>8 DEF TInv
<1>7. CASE End
  <2>1. /\ pc = "end" /\ Out(0, 1, 1)
        /\ \/ fn = "enable" /\ fn' = "write" /\ pc' = "low"
           \/ fn = "write" /\ fn' = "disable" /\ pc' = "low"
           \/ fn = "disable" /\ fn' = fn /\ pc' = "wait"
        /\ job' = job /\ word' = word /\ i' = i /\ retval' = retval /\ got' = got
        /\ runs' = runs /\ whole' = whole /\ asked' = asked
    BY <1>7 DEF End, Call
  <2>2. /\ chip' \in ChipType /\ chip'.sr = 0
        /\ pins' \in [cs : Bit, clk : Bit, di : Bit] /\ pins'.cs = 0
    BY <1>1, <2>1, DeselectAccess DEF Wires, Bit
  <2>3. TypeOK'
    BY <1>1, <2>1, <2>2 DEF TypeOK
  <2>4. Loops' /\ Flow' /\ Wires'
    BY <1>1, <2>1, <2>2 DEF Loops, Flow, Wires
  <2>. QED
    BY <2>3, <2>4 DEF TInv
<1>8. ASSUME pc \in {"wait", "return"}, NextWord,
             got' = IF pc = "return" THEN Append(got, retval) ELSE got,
             UNCHANGED <<job, i, retval, runs, whole, asked, pins, chip>>
      PROVE  TInv'
  <2>1. /\ job' = job /\ i' = i /\ retval' = retval /\ runs' = runs /\ whole' = whole
        /\ asked' = asked /\ pins' = pins /\ chip' = chip
    BY <1>8
  <2>2. /\ word' = word + 1
        /\ IF word < Len(job.table)
           THEN pc' = "low" /\ fn' = (IF job.reads THEN "read" ELSE "enable")
           ELSE pc' = "idle" /\ fn' = fn
    BY <1>8 DEF NextWord, Call
  <2>3. word \in 1..Len(job.table) /\ Len(job.table) \in Nat /\ job.reads \in BOOLEAN
    BY <1>1, <1>8, JobTyped DEF Flow
  <2>4. job.reads <=> pc = "return"
    BY <1>1, <1>8 DEF Flow
  <2>5. got' \in Seq(Words) /\ (job.reads => Len(got') = Len(got) + 1)
    BY <1>1, <1>8, <2>4 DEF TypeOK
  <2>6. TypeOK'
    <3>1. word' \in 1..(Len(job'.table) + 1)
      BY <2>1, <2>2, <2>3
    <3>2. /\ fn' \in {"enable", "write", "disable", "read"}
          /\ pc' \in {"idle", "low"}
      BY <1>1, <2>2 DEF TypeOK
    <3>. QED
      BY <1>1, <2>1, <2>5, <3>1, <3>2 DEF TypeOK
  <2>7. Flow'
    <3>1. pc' # "idle" => word' \in 1..Len(job'.table) /\ (job'.reads <=> fn' = "read")
      BY <2>1, <2>2, <2>3
    <3>2. job'.reads => Len(got') = word' - 1
      BY <1>1, <2>1, <2>2, <2>3, <2>5 DEF Flow
    <3>. QED
      BY <2>2, <3>1, <3>2 DEF Flow
  <2>8. Loops' /\ Wires'
    BY <1>1, <2>1, <2>2 DEF Loops, Wires
  <2>. QED
    BY <2>6, <2>7, <2>8 DEF TInv
<1>9. CASE Wait
  BY <1>8, <1>9 DEF Wait
<1>10. CASE Return
  BY <1>8, <1>10 DEF Return
<1>11. CASE Settle
  <2>1. /\ pc = "settle" /\ pc' = "strobe" /\ Out(1, 0, 0) /\ i' = DataBits
        /\ job' = job /\ word' = word /\ fn' = fn /\ retval' = retval /\ got' = got
        /\ runs' = runs /\ whole' = whole /\ asked' = asked
    BY <1>11 DEF Settle
  <2>2. /\ chip' = chip /\ pins' \in [cs : Bit, clk : Bit, di : Bit]
        /\ pins'.cs = 1 /\ pins'.clk = 0
    BY <1>1, <2>1, QuietAccess DEF Bit
  <2>3. DataBits \in Nat /\ DataBits >= 1 /\ DataBits - i' = 0 /\ AddrBits \in Nat
    BY <2>1, EepromAssumption
  <2>4. i' \in -1..(AddrBits + DataBits + 4) /\ i' \in 1..DataBits
    BY <2>1, <2>3
  <2>5. TypeOK'
    BY <1>1, <2>1, <2>2, <2>4 DEF TypeOK
  <2>6. Loops'
    BY <1>1, <2>1, <2>3, <2>4, PowZero DEF Loops
  <2>7. Flow' /\ Wires'
    BY <1>1, <2>1, <2>2 DEF Flow, Wires
  <2>. QED
    BY <2>5, <2>6, <2>7 DEF TInv
<1>12. CASE Strobe
  <2>1. pc = "strobe" /\ pc' = "sample" /\ Out(1, 1, 0) /\ UNCHANGED prog
    BY <1>12 DEF Strobe
  <2>2. /\ chip' \in ChipType /\ pins' \in [cs : Bit, clk : Bit, di : Bit] /\ pins'.cs = 1
        /\ chip'.writing = chip.writing /\ (chip.writing => chip' = chip)
    BY <1>1, <2>1, ClockAccess DEF Wires, Bit
  <2>3. TypeOK'
    BY <1>1, <2>1, <2>2 DEF TypeOK, prog
  <2>4. Loops' /\ Flow' /\ Wires'
    BY <1>1, <2>1, <2>2 DEF Loops, Flow, Wires, prog
  <2>. QED
    BY <2>3, <2>4 DEF TInv
<1>13. CASE Sample
  <2>1. /\ pc = "sample" /\ pc' = (IF i > 1 THEN "strobe" ELSE "return")
        /\ retval' = 2 * retval + DataOut /\ Out(1, 0, 0) /\ i' = i - 1
        /\ job' = job /\ word' = word /\ fn' = fn /\ got' = got
        /\ runs' = runs /\ whole' = whole /\ asked' = asked
    BY <1>13 DEF Sample, SampleUntil
  <2>2. /\ chip' = chip /\ pins' \in [cs : Bit, clk : Bit, di : Bit]
        /\ pins'.cs = 1 /\ pins'.clk = 0
    BY <1>1, <2>1, QuietAccess DEF Bit
  <2>3. i \in 1..DataBits /\ DataBits \in Nat /\ AddrBits \in Nat
    BY <1>1, <2>1, EepromAssumption DEF Loops
  <2>4. i' \in -1..(AddrBits + DataBits + 4) /\ (i > 1 => i' \in 1..DataBits) /\ (~(i > 1) => i' = 0)
    BY <2>1, <2>3
  <2>5. retval' \in Nat /\ retval' < 2^(DataBits - i')
    <3>1. DataBits - i \in Nat /\ DataBits - i' = (DataBits - i) + 1
      BY <2>1, <2>3
    <3>2. 2^(DataBits - i') = 2 * 2^(DataBits - i) /\ 2^(DataBits - i) \in Nat
      BY <3>1, PowStep
    <3>3. retval \in Nat /\ retval < 2^(DataBits - i)
      BY <1>1, <2>1, Sizes DEF TypeOK, Loops, Words
    <3>4. DataOut \in {0, 1}
      BY DataOutTyped DEF Bit
    <3>. QED
      BY <2>1, <3>2, <3>3, <3>4
  <2>6. retval' \in Words
    <3>1. DataBits - i' \in Nat /\ DataBits - i' <= DataBits
      BY <2>1, <2>3
    <3>2. 2^(DataBits - i') <= 2^DataBits /\ 2^(DataBits - i') \in Nat /\ 2^DataBits \in Nat
      BY <2>3, <3>1, PowMono, PowPositive
    <3>. QED
      BY <2>5, <3>2 DEF Words
  <2>7. TypeOK'
    BY <1>1, <2>1, <2>2, <2>4, <2>6 DEF TypeOK
  <2>8. Loops' /\ Flow' /\ Wires'
    BY <1>1, <2>1, <2>2, <2>4, <2>5 DEF Loops, Flow, Wires
  <2>. QED
    BY <2>7, <2>8 DEF TInv
<1>14. CASE Finish
  <2>1. /\ chip.writing /\ chip' = [chip EXCEPT !.mem = chip.next, !.writing = FALSE]
        /\ UNCHANGED <<prog, pc, pins>>
    BY <1>14 DEF Finish
  <2>2. chip' \in ChipType /\ chip'.sr = chip.sr /\ chip.sr = 0
    BY <1>1, <2>1 DEF TypeOK, ChipType, Wires
  <2>3. TypeOK'
    BY <1>1, <2>1, <2>2 DEF TypeOK, prog
  <2>4. Loops' /\ Flow' /\ Wires'
    BY <1>1, <2>1, <2>2 DEF Loops, Flow, Wires, prog, LastBit
  <2>. QED
    BY <2>3, <2>4 DEF TInv
<1>15. CASE Interrupt
  <2>1. pc' = "idle" /\ UNCHANGED <<prog, pins, chip>>
    BY <1>15 DEF Interrupt
  <2>2. TypeOK'
    BY <1>1, <2>1 DEF TypeOK, prog
  <2>3. Loops' /\ Flow' /\ Wires'
    BY <1>1, <2>1 DEF Loops, Flow, Wires, prog
  <2>. QED
    BY <2>2, <2>3 DEF TInv
<1>16. CASE UNCHANGED vars
  <2>1. UNCHANGED <<prog, pc, pins, chip>>
    BY <1>16 DEF vars
  <2>2. TypeOK'
    BY <1>1, <2>1 DEF TypeOK, prog
  <2>3. Loops' /\ Flow' /\ Wires'
    BY <1>1, <2>1 DEF Loops, Flow, Wires, prog, LastBit
  <2>. QED
    BY <2>2, <2>3 DEF TInv
<1>. QED
  BY <1>2, <1>3, <1>4, <1>5, <1>6, <1>7, <1>9, <1>10, <1>11, <1>12, <1>13, <1>14,
     <1>15, <1>16 DEF Next, Program

(* Type correctness: the loops of the functions end where the shift does, *)
(* every location asked for is one of the chip, and what read_eeprom puts  *)
(* together is a word (eeprom.c, 100 to 293).                              *)
THEOREM TypeCorrect == Spec => []TypeOK
<1>1. TInv => TypeOK
  BY DEF TInv
<1>. QED
  BY <1>1, TInvInit, TInvStep, PTL DEF Spec

-----------------------------------------------------------------------------
(* Which numbers are complete commands. *)

LEMMA WriteIsComplete ==
  ASSUME NEW l \in Locs, NEW v \in Words
  PROVE  LET c == (5 * 2^AddrBits + l) * 2^DataBits + v
         IN  Targets(c) = {l} /\ Datum(c) = v
<1>. DEFINE r == 2^(AddrBits - 2)
            p == 2^AddrBits
            q == 2^DataBits
            R == 2^(AddrBits + DataBits - 2)
            Q == 2^(AddrBits + DataBits)
            c == (5 * p + l) * q + v
<1>1. /\ r \in Nat /\ r >= 1 /\ p \in Nat /\ p = 4 * r /\ q \in Nat /\ q >= 2
      /\ R \in Nat /\ Q = 4 * R /\ Q \in Nat /\ Q >= 2 * p /\ Q = p * q
      /\ 2^(AddrBits + 3) = 8 * p
  BY Sizes
<1>2. l \in 0..(p - 1) /\ v \in 0..(q - 1) /\ 5 * p + l \in Nat
  BY <1>1 DEF Locs, Words
<1>. HIDE DEF r, p, q, R, Q
<1>3. c \div q = 5 * p + l /\ c % q = v
  <2>. DEFINE h == 5 * p + l
  <2>1. h \in Nat
    BY <1>2
  <2>. HIDE DEF h
  <2>2. (h * q + v) \div q = h /\ (h * q + v) % q = v
    <3>1. q \in Nat /\ v \in 0..(q - 1)
      BY <1>1, <1>2
    <3>. QED
      BY <2>1, <3>1, Parts, Zenon
  <2>. QED
    BY <2>2 DEF h
<1>4. (5 * p + l) % p = l
  <2>1. PICK h \in Nat : h = 5
    OBVIOUS
  <2>2. p \in Nat /\ l \in 0..(p - 1)
    BY <1>1, <1>2
  <2>3. (h * p + l) \div p = h /\ (h * p + l) % p = l
    BY <2>2, Parts, Zenon
  <2>. QED
    BY <2>1, <2>3
<1>5. c \in Nat /\ 5 * Q <= c /\ c < 6 * Q
  <2>1. l * q + v >= 0 /\ l * q + v < p * q /\ l * q \in Nat
    <3>1. (l + 1) * q <= p * q
      BY <1>1, <1>2
    <3>2. l * q \in Nat /\ (l + 1) * q = l * q + q
      BY <1>1, <1>2
    <3>. QED
      BY <1>1, <1>2, <3>1, <3>2
  <2>2. c = 5 * (p * q) + (l * q + v)
    BY <1>1, <1>2
  <2>. QED
    BY <1>1, <1>2, <2>1, <2>2
<1>. HIDE DEF c
<1>6. c \div Q = 5
  BY <1>1, <1>5, DivLess
<1>7. c \div R # 17 /\ c \div p # 7 /\ c \div r # 18
  BY <1>1, <1>5, DivLess
<1>8. ~(c < 2^(AddrBits + 3))
  BY <1>1, <1>5
<1>9. Targets(c) = {a \in Locs : a = l}
  BY <1>3, <1>4, <1>6, <1>7 DEF Targets, p, q, r, R, Q
<1>10. Targets(c) = {l}
  BY <1>9
<1>11. Datum(c) = v
  BY <1>3, <1>8 DEF Datum, q
<1>. QED
  BY <1>10, <1>11 DEF c, p, q

(* The first bits of a write are no command: the start bit and the opcode 01 *)
(* are followed by too few or by too many bits for an erase.               *)
LEMMA WriteBeginning ==
  ASSUME NEW c \in Nat, 5 * 2^(AddrBits + DataBits) <= c, c < 6 * 2^(AddrBits + DataBits),
         NEW n \in Nat, n >= 1
  PROVE  /\ Targets(c \div 2^n) = {}
         /\ (c \div 2^n) \div 2^(AddrBits - 2) # 16
<1>. DEFINE r == 2^(AddrBits - 2)
            p == 2^AddrBits
            R == 2^(AddrBits + DataBits - 2)
            Q == 2^(AddrBits + DataBits)
            N == 2^n
            s == c \div N
            X == p * N
<1>1. /\ r \in Nat /\ r >= 1 /\ p \in Nat /\ p = 4 * r
      /\ R \in Nat /\ Q = 4 * R /\ Q \in Nat /\ Q >= 2 * p
  BY Sizes
<1>2. N \in Nat /\ N >= 2
  BY PowPlace
<1>3. X = Q \/ 2 * X <= Q \/ 2 * Q <= X
  <2>1. AddrBits \in Nat /\ DataBits \in Nat
    BY EepromAssumption
  <2>2. X = 2^(AddrBits + n)
    BY <2>1, PowSum
  <2>3. CASE n = DataBits
    BY <2>2, <2>3
  <2>4. CASE n < DataBits
    <3>1. AddrBits + n < AddrBits + DataBits /\ AddrBits + n \in Nat /\ AddrBits + DataBits \in Nat
      BY <2>1, <2>4
    <3>. QED
      BY <2>2, <3>1, PowMono
  <2>5. CASE n > DataBits
    <3>1. AddrBits + DataBits < AddrBits + n /\ AddrBits + n \in Nat /\ AddrBits + DataBits \in Nat
      BY <2>1, <2>5
    <3>. QED
      BY <2>2, <3>1, PowMono
  <2>. QED
    BY <2>1, <2>3, <2>4, <2>5
<1>. HIDE DEF r, p, R, Q, N, s, X
<1>4. s \in Nat /\ s * N <= c /\ c < (s + 1) * N
  BY <1>2, DivBounds DEF s
<1>5. X \in Nat /\ X = 4 * (r * N) /\ r * N \in Nat
  BY <1>1, <1>2 DEF X
<1>6. 5 * Q <= c /\ c < 6 * Q
  BY DEF Q
<1>7. s < 3 * Q
  <2>1. 2 * s <= s * N
    BY <1>2, <1>4
  <2>. QED
    BY <1>1, <1>2, <1>4, <1>6, <2>1
<1>8. ASSUME NEW a \in Nat, NEW b \in Nat, NEW y \in Nat, a * y <= s, s < b * y
      PROVE  a * (y * N) <= c /\ c < b * (y * N)
  <2>1. (a * y) * N <= s * N
    BY <1>2, <1>4, <1>8
  <2>2. (s + 1) * N <= (b * y) * N
    <3>1. s + 1 <= b * y /\ b * y \in Nat
      BY <1>4, <1>8
    <3>. QED
      BY <1>2, <1>4, <3>1
  <2>3. (a * y) * N = a * (y * N) /\ (b * y) * N = b * (y * N)
    BY <1>2
  <2>4. a * (y * N) \in Nat /\ b * (y * N) \in Nat /\ s * N \in Nat /\ (s + 1) * N \in Nat
    BY <1>2, <1>4
  <2>. QED
    BY <1>4, <2>1, <2>2, <2>3, <2>4
<1>9. s \div Q # 5 /\ s \div R # 17
  BY <1>1, <1>4, <1>7, DivLess
<1>10. s \div p # 7
  <2>. SUFFICES ASSUME s \div p = 7
                PROVE  FALSE
    OBVIOUS
  <2>1. 7 * p <= s /\ s < 8 * p
    BY <1>1, <1>4, DivLess
  <2>2. 7 * X <= c /\ c < 8 * X
    BY <1>1, <1>8, <2>1 DEF X
  <2>. QED
    BY <1>1, <1>3, <1>5, <1>6, <2>2
<1>11. ASSUME NEW k \in {16, 18}
       PROVE  s \div r # k
  <2>. SUFFICES ASSUME s \div r = k
                PROVE  FALSE
    OBVIOUS
  <2>1. 16 * r <= s /\ s < 19 * r
    BY <1>1, <1>4, DivLess
  <2>2. 16 * (r * N) <= c /\ c < 19 * (r * N)
    BY <1>1, <1>8, <2>1
  <2>. QED
    BY <1>1, <1>3, <1>5, <1>6, <2>2
<1>12. Targets(s) = {}
  BY <1>4, <1>9, <1>10, <1>11, TargetsNeed DEF p, r, R, Q
<1>. QED
  BY <1>11, <1>12 DEF s, N, r

LEMMA EnableDisableHarmless ==
  ASSUME NEW c \in Nat, c = 19 * 2^(AddrBits - 2) \/ c = 4 * 2^AddrBits, NEW n \in Nat
  PROVE  Targets(c \div 2^n) = {}
<1>. DEFINE r == 2^(AddrBits - 2)
            p == 2^AddrBits
            R == 2^(AddrBits + DataBits - 2)
            Q == 2^(AddrBits + DataBits)
            N == 2^n
<1>1. /\ r \in Nat /\ r >= 1 /\ p \in Nat /\ p = 4 * r
      /\ R \in Nat /\ Q = 4 * R /\ Q \in Nat /\ Q >= 2 * p
  BY Sizes
<1>2. N \in Nat /\ N >= 1 /\ (n >= 1 => N >= 2)
  BY PowPlace
<1>3. CASE n = 0
  <2>1. c \div N = c
    BY <1>3, PowZero
  <2>2. c = 19 * r \/ c = 16 * r
    BY <1>1
  <2>. HIDE DEF r, p, R, Q, N
  <2>3. c \div Q # 5 /\ c \div R # 17 /\ c \div p # 7 /\ c \div r # 18
    BY <1>1, <2>2, DivLess
  <2>. QED
    BY <2>1, <2>3, TargetsNeed DEF r, p, R, Q, N
<1>4. CASE n >= 1
  <2>1. c <= 19 * r
    BY <1>1
  <2>. HIDE DEF r, p, R, Q, N
  <2>2. c \div N \in Nat /\ (c \div N) * N <= c
    BY <1>2, DivBounds
  <2>3. 2 * (c \div N) <= (c \div N) * N
    BY <1>2, <1>4, <2>2
  <2>4. c \div N < 4 * p
    BY <1>1, <1>2, <2>1, <2>2, <2>3
  <2>. QED
    BY <2>2, <2>4, TooShort DEF p, N
<1>. QED
  BY <1>3, <1>4

LEMMA ReadHarmless ==
  ASSUME NEW c \in Nat, 6 * 2^AddrBits <= c, c < 7 * 2^AddrBits, NEW n \in Nat
  PROVE  /\ Targets(c \div 2^n) = {}
         /\ n <= DataBits => Targets(c * 2^n) = {}
<1>. DEFINE r == 2^(AddrBits - 2)
            p == 2^AddrBits
            R == 2^(AddrBits + DataBits - 2)
            Q == 2^(AddrBits + DataBits)
            X(k) == p * 2^k
<1>1. /\ r \in Nat /\ r >= 1 /\ p \in Nat /\ p = 4 * r
      /\ R \in Nat /\ Q = 4 * R /\ Q \in Nat /\ Q >= 2 * p
  BY Sizes
<1>2. AddrBits \in Nat /\ DataBits \in Nat /\ DataBits >= 1
  BY EepromAssumption
<1>3. ASSUME NEW k \in Nat, k <= DataBits
      PROVE  Targets(c * 2^k) = {}
  <2>. DEFINE K == 2^k
              x == p * K
              s == c * K
  <2>1. K \in Nat /\ K >= 1 /\ (k = 0 => K = 1) /\ (k >= 1 => K >= 2)
    BY PowPlace
  <2>2. x = Q \/ 2 * x <= Q
    <3>1. x = 2^(AddrBits + k) /\ AddrBits + k \in Nat /\ AddrBits + DataBits \in Nat
      BY <1>2, PowSum
    <3>2. CASE k = DataBits
      BY <3>1, <3>2
    <3>3. CASE k < DataBits
      <4>1. AddrBits + k < AddrBits + DataBits
        BY <1>2, <3>3
      <4>. QED
        BY <3>1, <4>1, PowMono
    <3>. QED
      BY <1>2, <1>3, <3>2, <3>3
  <2>. HIDE DEF r, p, R, Q, K
  <2>3. 6 * p <= c /\ c < 7 * p
    BY DEF p
  <2>4. s \in Nat /\ 6 * x <= s /\ s < 7 * x /\ x \in Nat /\ p <= x
    BY <1>1, <2>1, <2>3
  <2>5. k >= 1 => 2 * p <= x
    BY <1>1, <2>1
  <2>6. k = 0 => x = p
    BY <1>1, <2>1
  <2>. HIDE DEF x, s
  <2>7. s \div Q # 5 /\ s \div R # 17
    BY <1>1, <2>2, <2>4, DivLess
  <2>8. s \div p # 7 /\ s \div r # 18
    <3>1. CASE k = 0
      BY <1>1, <2>4, <2>6, <3>1, DivLess
    <3>2. CASE k >= 1
      BY <1>1, <2>4, <2>5, <3>2, DivLess
    <3>. QED
      BY <3>1, <3>2
  <2>. QED
    BY <2>4, <2>7, <2>8, TargetsNeed DEF s, r, p, R, Q, K
<1>4. Targets(c \div 2^n) = {}
  <2>. DEFINE N == 2^n
  <2>1. N \in Nat /\ N >= 1 /\ (n >= 1 => N >= 2)
    BY PowPlace
  <2>2. CASE n = 0
    <3>1. c \div N = c /\ c * 2^0 = c
      BY <2>2, PowZero
    <3>2. Targets(c * 2^0) = {}
      <4>1. 0 \in Nat /\ 0 <= DataBits
        BY <1>2
      <4>. QED
        BY <4>1, <1>3, Zenon
    <3>. QED
      BY <3>1, <3>2
  <2>3. CASE n >= 1
    <3>. HIDE DEF r, p, R, Q, N
    <3>1. c < 7 * p
      BY DEF p
    <3>2. c \div N \in Nat /\ (c \div N) * N <= c
      BY <2>1, DivBounds
    <3>3. 2 * (c \div N) <= (c \div N) * N
      BY <2>1, <2>3, <3>2
    <3>4. c \div N < 4 * p
      BY <1>1, <2>1, <3>1, <3>2, <3>3
    <3>. QED
      BY <3>2, <3>4, TooShort DEF p, N
  <2>. QED
    BY <2>2, <2>3
<1>. QED
  BY <1>3, <1>4

(* What is shorter than a write can only erase. *)
LEMMA ShortErases ==
  ASSUME NEW s \in Nat, s < 4 * 2^(AddrBits + DataBits), Targets(s) # {}
  PROVE  Datum(s) = Erased
<1>. DEFINE r == 2^(AddrBits - 2)
            p == 2^AddrBits
            R == 2^(AddrBits + DataBits - 2)
            Q == 2^(AddrBits + DataBits)
<1>1. /\ r \in Nat /\ r >= 1 /\ p \in Nat /\ p = 4 * r /\ 2^(AddrBits + 3) = 8 * p
      /\ R \in Nat /\ Q = 4 * R /\ Q \in Nat /\ Q >= 2 * p
  BY Sizes
<1>. HIDE DEF r, p, R, Q
<1>2. s \div Q = 5 \/ s \div R = 17 \/ s \div p = 7 \/ s \div r = 18
  BY TargetsNeed DEF r, p, R, Q
<1>3. s < 8 * p
  <2>1. s < 4 * Q
    BY DEF Q
  <2>. QED
    BY <1>1, <1>2, <2>1, DivLess
<1>. QED
  BY <1>1, <1>3 DEF Datum

-----------------------------------------------------------------------------
(* What the chip has taken while it is spoken to. *)

LEMMA Places ==
  TInv => /\ Sending => i + 1 \in Nat /\ i + 1 <= LastBit + 1
          /\ Sending /\ fn = "write" /\ pc # "end" => i + 1 >= 1
          /\ Sending /\ pc = "end" => i + 1 = 0
          /\ Receiving => Strobes \in 0..DataBits /\ fn = "read"
          /\ Sending \/ Receiving => word \in 1..Len(job.table)
<1>. SUFFICES ASSUME TInv
              PROVE  /\ Sending => i + 1 \in Nat /\ i + 1 <= LastBit + 1
                     /\ Sending /\ fn = "write" /\ pc # "end" => i + 1 >= 1
                     /\ Sending /\ pc = "end" => i + 1 = 0
                     /\ Receiving => Strobes \in 0..DataBits /\ fn = "read"
                     /\ Sending \/ Receiving => word \in 1..Len(job.table)
  OBVIOUS
<1>1. TypeOK /\ Loops /\ Flow
  BY DEF TInv
<1>2. LastBit \in Nat /\ DataBits \in Nat
  BY <1>1, LastBitTyped, EepromAssumption
<1>3. ASSUME Sending
      PROVE  /\ i + 1 \in Nat /\ i + 1 <= LastBit + 1
             /\ fn = "write" /\ pc # "end" => i + 1 >= 1
             /\ pc = "end" => i + 1 = 0
  <2>1. CASE pc \in {"put", "clock"}
    <3>1. i \in 0..LastBit
      BY <1>1, <2>1 DEF Loops
    <3>. QED
      BY <1>2, <2>1, <3>1
  <2>2. CASE pc \in {"settle", "end"}
    <3>1. i = -1 /\ (pc = "settle" => fn = "read")
      BY <1>1, <2>2 DEF Loops, Flow
    <3>. QED
      BY <1>2, <2>2, <3>1
  <2>. QED
    BY <1>3, <2>1, <2>2 DEF Sending
<1>4. ASSUME Receiving
      PROVE  Strobes \in 0..DataBits /\ fn = "read"
  <2>1. CASE pc = "strobe"
    BY <1>1, <1>2, <2>1 DEF Loops, Flow, Receiving, Strobes
  <2>2. CASE pc = "sample"
    BY <1>1, <1>2, <2>2 DEF Loops, Flow, Receiving, Strobes
  <2>3. CASE pc = "return"
    BY <1>1, <1>2, <2>3 DEF Loops, Flow, Receiving, Strobes
  <2>. QED
    BY <1>4, <2>1, <2>2, <2>3 DEF Receiving
<1>5. ASSUME Sending \/ Receiving
      PROVE  word \in 1..Len(job.table)
  BY <1>1, <1>5 DEF Flow, Sending, Receiving
<1>. QED
  BY <1>3, <1>4, <1>5

(* Of what is heard only a write that is complete changes the memory. *)
LEMMA HeardHarmless ==
  TInv /\ Hears /\ (Sending \/ Receiving) /\ ~(fn = "write" /\ pc = "end")
    => Targets(chip.sr) = {}
<1>. SUFFICES ASSUME TInv, Hears, Sending \/ Receiving, ~(fn = "write" /\ pc = "end")
              PROVE  Targets(chip.sr) = {}
  OBVIOUS
<1>1. TypeOK /\ word \in 1..Len(job.table)
  BY Places DEF TInv
<1>2. CASE Sending
  <2>1. PICK n \in Nat : n = i + 1 /\ (fn = "write" => n >= 1)
    BY <1>2, Places
  <2>2. PICK c \in Nat : c = Command
    BY <1>1, CommandRange
  <2>3. chip.sr = c \div 2^n
    BY <1>2, <2>1, <2>2 DEF Hears
  <2>4. CASE fn \in {"enable", "disable"}
    <3>1. c = 19 * 2^(AddrBits - 2) \/ c = 4 * 2^AddrBits
      BY <1>1, <2>2, <2>4, CommandRange
    <3>. QED
      BY <2>3, <3>1, EnableDisableHarmless
  <2>5. CASE fn = "read"
    <3>1. 6 * 2^AddrBits <= c /\ c < 7 * 2^AddrBits
      BY <1>1, <2>2, <2>5, CommandRange
    <3>. QED
      BY <2>3, <3>1, ReadHarmless
  <2>6. CASE fn = "write"
    <3>1. 5 * 2^(AddrBits + DataBits) <= c /\ c < 6 * 2^(AddrBits + DataBits)
      BY <1>1, <2>2, <2>6, CommandRange
    <3>. QED
      BY <2>1, <2>3, <2>6, <3>1, WriteBeginning
  <2>. QED
    BY <1>1, <2>4, <2>5, <2>6 DEF TypeOK
<1>3. CASE Receiving
  <2>1. PICK k \in Nat : k = Strobes /\ k <= DataBits
    BY <1>3, Places
  <2>2. PICK c \in Nat : c = Command
    BY <1>1, CommandRange
  <2>3. chip.sr = c * 2^k
    BY <1>3, <2>1, <2>2 DEF Hears
  <2>4. 6 * 2^AddrBits <= c /\ c < 7 * 2^AddrBits
    BY <1>1, <1>3, <2>2, CommandRange, Places
  <2>. QED
    BY <2>1, <2>3, <2>4, ReadHarmless
<1>. QED
  BY <1>2, <1>3

LEMMA HeardWrite ==
  TInv /\ Hears /\ fn = "write" /\ pc = "end"
    => /\ Targets(chip.sr) = {location} /\ Datum(chip.sr) = job.table[word]
       /\ location \in Locs
<1>. SUFFICES ASSUME TInv, Hears, fn = "write", pc = "end"
              PROVE  /\ Targets(chip.sr) = {location} /\ Datum(chip.sr) = job.table[word]
                     /\ location \in Locs
  OBVIOUS
<1>1. TypeOK /\ word \in 1..Len(job.table) /\ i + 1 = 0 /\ Sending
  BY Places DEF TInv, Sending
<1>2. chip.sr = Command \div 2^0
  BY <1>1 DEF Hears
<1>3. PICK l \in Locs, v \in Words : l = location /\ v = job.table[word]
  BY <1>1, LocationTyped
<1>4. Command \in Nat /\ Command = (5 * 2^AddrBits + l) * 2^DataBits + v
  BY <1>1, <1>3, CommandRange
<1>5. chip.sr = Command
  BY <1>2, <1>4, PowZero
<1>. QED
  BY <1>3, <1>4, <1>5, WriteIsComplete

LEMMA MissedErases ==
  TInv /\ Missed /\ (Sending \/ Receiving) /\ Targets(chip.sr) # {}
    => Datum(chip.sr) = Erased
<1>. SUFFICES ASSUME TInv, Missed, Sending \/ Receiving, Targets(chip.sr) # {}
              PROVE  Datum(chip.sr) = Erased
  OBVIOUS
<1>. DEFINE Q == 2^(AddrBits + DataBits)
            p == 2^AddrBits
<1>1. PICK s \in Nat : s = chip.sr
  BY DEF TInv, TypeOK, ChipType
<1>2. /\ Q \in Nat /\ p \in Nat /\ Q = p * 2^DataBits /\ Q >= 2 * p
      /\ 2^(AddrBits + 2) = 4 * p /\ 2^(AddrBits + DataBits + 2) = 4 * Q
  BY Sizes
<1>3. CASE Sending
  <2>1. PICK n \in Nat : n = i + 1
    BY <1>3, Places
  <2>2. 2^n \in Nat /\ 2^n >= 1
    BY PowPositive
  <2>3. 2^(LastBit - 2) <= 4 * Q /\ 2^(LastBit - 2) \in Nat
    <3>1. CASE fn = "write"
      <4>1. LastBit - 2 = AddrBits + DataBits + 2
        BY <3>1, EepromAssumption DEF LastBit
      <4>. QED
        BY <1>2, <4>1
    <3>2. CASE fn # "write"
      <4>1. LastBit - 2 = AddrBits + 2
        BY <3>2, EepromAssumption DEF LastBit
      <4>. QED
        BY <1>2, <4>1
    <3>. QED
      BY <3>1, <3>2
  <2>4. (s + 1) * 2^n <= 2^(LastBit - 2)
    BY <1>1, <1>3, <2>1 DEF Missed
  <2>5. s < 4 * Q
    <3>1. s + 1 <= (s + 1) * 2^n
      BY <2>2
    <3>2. (s + 1) * 2^n \in Nat
      BY <2>2
    <3>. HIDE DEF Q, p
    <3>. QED
      BY <1>2, <2>3, <2>4, <3>1, <3>2
  <2>. QED
    BY <1>1, <2>5, ShortErases
<1>4. CASE Receiving
  <2>1. PICK k \in Nat : k = Strobes /\ k <= DataBits
    BY <1>4, Places
  <2>2. DataBits \in Nat
    BY EepromAssumption
  <2>3. 2^k <= 2^DataBits /\ 2^k \in Nat /\ 2^DataBits \in Nat
    BY <2>1, <2>2, PowMono, PowPositive
  <2>4. s < 4 * p * 2^k
    BY <1>1, <1>2, <1>4, <2>1 DEF Missed
  <2>5. s < 4 * Q
    <3>. HIDE DEF Q, p
    <3>1. p * 2^k <= p * 2^DataBits
      BY <1>2, <2>3
    <3>2. 4 * p * 2^k = 4 * (p * 2^k) /\ p * 2^k \in Nat
      BY <1>2, <2>3
    <3>. QED
      BY <1>2, <2>4, <3>1, <3>2
  <2>. QED
    BY <1>1, <2>5, ShortErases
<1>. QED
  BY <1>3, <1>4

(* So every change there may be is one that was asked for, or an erase. *)
LEMMA LineAsked ==
  TInv /\ Line /\ Heard /\ (Sending \/ Receiving) /\ AskedWord => AskedShift
<1>. SUFFICES ASSUME TInv, Line, Heard, Sending \/ Receiving, AskedWord,
                     NEW a \in Targets(chip.sr)
              PROVE  Allowed(a, Datum(chip.sr))
  BY DEF AskedShift
<1>1. CASE Hears
  <2>1. fn = "write" /\ pc = "end"
    BY <1>1, HeardHarmless
  <2>2. a = location /\ Datum(chip.sr) = job.table[word]
    BY <1>1, <2>1, HeardWrite
  <2>. QED
    BY <2>1, <2>2 DEF Allowed, AskedWord
<1>2. CASE ~Hears
  <2>1. chip.sr # 0
    BY TargetsZero
  <2>2. ~whole
    BY <1>2, <2>1 DEF Heard
  <2>3. Datum(chip.sr) = Erased
    BY <1>2, MissedErases DEF Line
  <2>. QED
    BY <2>2, <2>3 DEF Allowed
<1>. QED
  BY <1>1, <1>2

LEMMA LineAskedNext ==
  TInv' /\ Line' /\ Heard' /\ (Sending \/ Receiving)' /\ AskedWord' => AskedShift'
  BY LineAsked, PTL

-----------------------------------------------------------------------------
(* What each step does to the chip and to what is being sent. *)

LEMMA SameWork ==
  UNCHANGED <<job, word, fn>> =>
    /\ job' = job /\ word' = word /\ fn' = fn
    /\ Command' = Command /\ location' = location /\ LastBit' = LastBit
  BY DEF Command, WriteCommand, location, LastBit

LEMMA HighStep ==
  TInv /\ High =>
    /\ pc = "high" /\ pc' = "put" /\ i' = LastBit /\ chip' = chip /\ chip.sr = 0
    /\ UNCHANGED <<job, word, fn, got, runs, whole, asked>>
  BY QuietAccess DEF TInv, High, Bit, Wires

LEMMA PutStep ==
  TInv /\ Put => pc = "put" /\ pc' = "clock" /\ chip' = chip /\ UNCHANGED prog
<1>. SUFFICES ASSUME TInv, Put
              PROVE  pc = "put" /\ pc' = "clock" /\ chip' = chip /\ UNCHANGED prog
  OBVIOUS
<1>1. pc = "put" /\ pc' = "clock" /\ Out(1, 0, BitOf(Command, i)) /\ UNCHANGED prog
  BY DEF Put
<1>2. TypeOK /\ word \in 1..Len(job.table) /\ i \in Nat
  BY <1>1, LastBitTyped DEF TInv, Flow, Loops
<1>3. PICK b \in Bit : b = BitOf(Command, i)
  BY <1>2, CommandRange, BitTyped
<1>. QED
  BY <1>1, <1>2, <1>3, QuietAccess

LEMMA ClockStep ==
  TInv /\ Clock =>
    /\ pc = "clock" /\ i \in 0..LastBit /\ i' = i - 1 /\ LastBit \in Nat
    /\ pc' = (IF i > 0 THEN "put" ELSE IF fn = "read" THEN "settle" ELSE "end")
    /\ UNCHANGED <<job, word, fn, retval, got, runs, whole, asked>>
    /\ chip'.mem = chip.mem /\ chip'.writing = chip.writing /\ chip'.next = chip.next
    /\ chip.writing => chip' = chip
    /\ ~chip.writing =>
         /\ chip'.sr = 2 * chip.sr + BitOf(Command, i)
         /\ chip'.sr \div 2^(AddrBits - 2) = 19 => chip'.wen
         /\ chip'.sr \div 2^(AddrBits - 2) # 16 /\ chip.wen => chip'.wen
    /\ Command \in Nat /\ BitOf(Command, i) \in Bit
<1>. SUFFICES ASSUME TInv, Clock
              PROVE  /\ pc = "clock" /\ i \in 0..LastBit /\ i' = i - 1 /\ LastBit \in Nat
                     /\ pc' = (IF i > 0 THEN "put" ELSE IF fn = "read" THEN "settle" ELSE "end")
                     /\ UNCHANGED <<job, word, fn, retval, got, runs, whole, asked>>
                     /\ chip'.mem = chip.mem /\ chip'.writing = chip.writing
                     /\ chip'.next = chip.next
                     /\ chip.writing => chip' = chip
                     /\ ~chip.writing =>
                          /\ chip'.sr = 2 * chip.sr + BitOf(Command, i)
                          /\ chip'.sr \div 2^(AddrBits - 2) = 19 => chip'.wen
                          /\ chip'.sr \div 2^(AddrBits - 2) # 16 /\ chip.wen => chip'.wen
                     /\ Command \in Nat /\ BitOf(Command, i) \in Bit
  OBVIOUS
<1>1. /\ pc = "clock" /\ Out(1, 1, BitOf(Command, i)) /\ i' = i - 1
      /\ pc' = (IF i > 0 THEN "put" ELSE IF fn = "read" THEN "settle" ELSE "end")
      /\ UNCHANGED <<job, word, fn, retval, got, runs, whole, asked>>
  BY DEF Clock
<1>2. TypeOK /\ word \in 1..Len(job.table) /\ i \in 0..LastBit /\ LastBit \in Nat /\ i \in Nat
  BY <1>1, LastBitTyped DEF TInv, Flow, Loops
<1>3. Command \in Nat /\ BitOf(Command, i) \in Bit /\ pins.clk = 0
  BY <1>1, <1>2, CommandRange, BitTyped DEF TInv, Wires
<1>4. PICK b \in Bit : b = BitOf(Command, i)
  BY <1>3
<1>5. Out(1, 1, b)
  BY <1>1, <1>4
<1>. QED
  BY <1>1, <1>2, <1>3, <1>4, <1>5, ClockAccess

LEMMA SettleStep ==
  TInv /\ Settle =>
    /\ pc = "settle" /\ pc' = "strobe" /\ i = -1 /\ i' = DataBits /\ chip' = chip
    /\ retval = 0
    /\ UNCHANGED <<job, word, fn, retval, got, runs, whole, asked>>
  BY QuietAccess DEF TInv, Settle, Bit, Loops, Sending

LEMMA StrobeStep ==
  TInv /\ Strobe =>
    /\ pc = "strobe" /\ pc' = "sample" /\ UNCHANGED prog
    /\ chip'.mem = chip.mem /\ chip'.writing = chip.writing /\ chip'.next = chip.next
    /\ chip.writing => chip' = chip
    /\ ~chip.writing => chip'.sr = 2 * chip.sr
<1>. SUFFICES ASSUME TInv, Strobe
              PROVE  /\ pc = "strobe" /\ pc' = "sample" /\ UNCHANGED prog
                     /\ chip'.mem = chip.mem /\ chip'.writing = chip.writing
                     /\ chip'.next = chip.next
                     /\ chip.writing => chip' = chip
                     /\ ~chip.writing => chip'.sr = 2 * chip.sr
  OBVIOUS
<1>1. pc = "strobe" /\ pc' = "sample" /\ Out(1, 1, 0) /\ UNCHANGED prog
  BY DEF Strobe
<1>2. TypeOK /\ pins.clk = 0 /\ chip.sr \in Nat /\ 0 \in Bit
  BY <1>1 DEF TInv, Wires, TypeOK, ChipType, Bit
<1>3. /\ chip'.mem = chip.mem /\ chip'.writing = chip.writing /\ chip'.next = chip.next
      /\ chip.writing => chip' = chip
      /\ ~chip.writing => chip'.sr = 2 * chip.sr + 0
  BY <1>1, <1>2, ClockAccess
<1>. QED
  BY <1>1, <1>2, <1>3

LEMMA SampleStep ==
  TInv /\ Sample =>
    /\ pc = "sample" /\ pc' = (IF i > 1 THEN "strobe" ELSE "return")
    /\ i \in 1..DataBits /\ i' = i - 1 /\ chip' = chip /\ retval' = 2 * retval + DataOut
    /\ UNCHANGED <<job, word, fn, got, runs, whole, asked>>
  BY QuietAccess DEF TInv, Sample, SampleUntil, Bit, Loops

(* Deselecting: Low and End. *)
Deselects ==
  /\ chip'.sr = 0 /\ chip'.wen = chip.wen /\ chip'.mem = chip.mem
  /\ ~chip.wen \/ Targets(chip.sr) = {} =>
       chip'.writing = chip.writing /\ chip'.next = chip.next
  /\ chip.wen /\ Targets(chip.sr) # {} =>
       /\ chip'.writing
       /\ chip'.next = [a \in Locs |-> IF a \in Targets(chip.sr) THEN Datum(chip.sr)
                                        ELSE chip.mem[a]]

LEMMA LowStep ==
  TInv /\ Low =>
    /\ pc = "low" /\ pc' = "high" /\ Deselects
    /\ asked' = (IF fn = "write" THEN [asked EXCEPT ![location] = @ \cup {job.table[word]}]
                 ELSE asked)
    /\ UNCHANGED <<job, word, fn, i, retval, got, runs, whole>>
<1>. SUFFICES ASSUME TInv, Low
              PROVE  Deselects
  BY DEF Low
<1>1. Out(0, 0, 0) /\ TypeOK /\ (pins.cs = 0 => chip.sr = 0) /\ 0 \in Bit
  BY DEF Low, TInv, Wires, Bit
<1>. QED
  BY <1>1, DeselectAccess DEF Deselects

LEMMA EndStep ==
  TInv /\ End =>
    /\ pc = "end" /\ Deselects
    /\ \/ fn = "enable" /\ fn' = "write" /\ pc' = "low"
       \/ fn = "write" /\ fn' = "disable" /\ pc' = "low"
       \/ fn = "disable" /\ fn' = fn /\ pc' = "wait"
    /\ UNCHANGED <<job, word, i, retval, got, runs, whole, asked>>
<1>. SUFFICES ASSUME TInv, End
              PROVE  Deselects
  BY DEF End, Call
<1>1. Out(0, 1, 1) /\ TypeOK /\ (pins.cs = 0 => chip.sr = 0) /\ 0 \in Bit /\ 1 \in Bit
  BY DEF End, TInv, Wires, Bit
<1>. QED
  BY <1>1, DeselectAccess DEF Deselects

LEMMA WordStep ==
  TInv /\ (Wait \/ Return) =>
    /\ \/ pc = "wait" /\ fn = "disable" /\ chip.sr = 0 /\ ~chip.writing /\ got' = got
       \/ pc = "return" /\ fn = "read" /\ got' = Append(got, retval)
    /\ word' = word + 1
    /\ \/ pc' = "low" /\ fn' = (IF job.reads THEN "read" ELSE "enable")
       \/ pc' = "idle" /\ fn' = fn
    /\ UNCHANGED <<job, i, retval, runs, whole, asked, chip>>
  BY DEF TInv, Wait, Return, Pause, NextWord, Call, Flow, Receiving, Wires

LEMMA StartStep ==
  Start => /\ pc = "idle" /\ pc' = "low" /\ ~chip.writing /\ chip' = chip
           /\ job' \in Jobs /\ word' = 1 /\ got' = << >>
           /\ whole' = (Targets(chip.sr) = {})
           /\ fn' = (IF job'.reads THEN "read" ELSE "enable")
           /\ UNCHANGED <<i, retval, asked>>
  BY DEF Start, Call

LEMMA FinishStep ==
  TInv /\ Finish =>
    /\ chip.writing /\ chip.sr = 0 /\ chip'.sr = 0 /\ chip'.wen = chip.wen
    /\ chip'.mem = chip.next /\ ~chip'.writing
    /\ UNCHANGED <<job, word, fn, pc, i, retval, got, runs, whole, asked>>
  BY DEF TInv, TypeOK, ChipType, Finish, Wires, prog

LEMMA InterruptStep ==
  Interrupt => /\ pc # "idle" /\ pc' = "idle" /\ chip' = chip
               /\ UNCHANGED <<job, word, fn, i, retval, got, runs, whole, asked>>
  BY DEF Interrupt, prog

-----------------------------------------------------------------------------
(* The line: what the chip takes, bit by bit. *)

LEMMA BitSent ==
  ASSUME NEW c \in Nat, NEW n \in Nat
  PROVE  c \div 2^n = 2 * (c \div 2^(n + 1)) + BitOf(c, n)
<1>1. 2^n \in Nat /\ 2^n >= 1 /\ 2^(n + 1) = 2 * 2^n
  BY PowStep, PowPositive
<1>. QED
  BY <1>1, NextBit DEF BitOf

(* A command is shorter than its loop. *)
LEMMA CommandFits ==
  ASSUME TypeOK, word \in 1..Len(job.table), NEW n \in Nat, n >= LastBit - 1
  PROVE  Command \div 2^n = 0
<1>. DEFINE Q == 2^(AddrBits + DataBits)
            p == 2^AddrBits
            r == 2^(AddrBits - 2)
<1>1. /\ Q \in Nat /\ p \in Nat /\ r \in Nat /\ p = 4 * r
      /\ 2^(AddrBits + 3) = 8 * p /\ 2^(AddrBits + DataBits + 3) = 8 * Q
  BY Sizes
<1>2. LastBit - 1 \in Nat /\ 2^(LastBit - 1) <= 2^n /\ 2^n \in Nat /\ 2^n >= 1
      /\ 2^(LastBit - 1) \in Nat
  <2>1. LastBit - 1 \in Nat
    BY LastBitTyped
  <2>. QED
    BY <2>1, PowMono, PowPositive
<1>3. Command \in Nat /\ Command < 2^(LastBit - 1)
  <2>1. CASE fn = "write"
    <3>1. LastBit - 1 = AddrBits + DataBits + 3
      BY <2>1, EepromAssumption DEF LastBit
    <3>2. Command \in Nat /\ Command < 6 * Q
      BY <2>1, CommandRange
    <3>. QED
      BY <1>1, <3>1, <3>2
  <2>2. CASE fn # "write"
    <3>1. LastBit - 1 = AddrBits + 3
      BY <2>2, EepromAssumption DEF LastBit
    <3>2. Command \in Nat /\ (Command = 19 * r \/ Command = 4 * p \/ Command < 7 * p)
      BY <2>2, CommandRange DEF TypeOK
    <3>. HIDE DEF p, r
    <3>3. Command < 8 * p
      <4>1. r >= 1 /\ p >= 4
        BY Sizes DEF p, r
      <4>. QED
        BY <1>1, <3>2, <4>1
    <3>. QED
      BY <1>1, <3>1, <3>2, <3>3 DEF p
  <2>. QED
    BY <2>1, <2>2
<1>. QED
  BY <1>2, <1>3, DivLess

LEMMA HearsStep == TInv /\ Hears /\ ~chip.writing /\ [Next]_vars => Hears'
<1>. SUFFICES ASSUME TInv, Hears, ~chip.writing, [Next]_vars
              PROVE  Hears'
  OBVIOUS
<1>. USE DEF Sending, Receiving
<1>1. TypeOK /\ Loops /\ Flow
  BY DEF TInv
<1>2. CASE High
  <2>1. /\ pc = "high" /\ pc' = "put" /\ i' = LastBit /\ chip' = chip /\ chip.sr = 0
        /\ Command' = Command
    BY <1>2, HighStep, SameWork
  <2>2. word \in 1..Len(job.table)
    BY <1>1, <2>1 DEF Flow
  <2>3. LastBit + 1 \in Nat /\ LastBit + 1 >= LastBit - 1
    BY <1>1, LastBitTyped
  <2>4. Command \div 2^(LastBit + 1) = 0
    BY <1>1, <2>2, <2>3, CommandFits
  <2>. QED
    BY <2>1, <2>4 DEF Hears
<1>3. CASE Put
  <2>1. /\ pc = "put" /\ pc' = "clock" /\ i' = i /\ chip' = chip /\ Command' = Command
    BY <1>3, PutStep, SameWork DEF prog
  <2>. QED
    BY <2>1 DEF Hears
<1>4. CASE Clock
  <2>1. /\ pc = "clock" /\ i \in Nat /\ i' = i - 1 /\ pc' \in {"put", "settle", "end"}
        /\ Command' = Command /\ Command \in Nat
        /\ chip'.sr = 2 * chip.sr + BitOf(Command, i)
    BY <1>4, ClockStep, SameWork
  <2>2. chip.sr = Command \div 2^(i + 1)
    BY <2>1 DEF Hears
  <2>3. chip'.sr = Command \div 2^i
    BY <2>1, <2>2, BitSent
  <2>4. i' + 1 = i
    BY <2>1
  <2>. QED
    BY <2>1, <2>3, <2>4 DEF Hears
<1>5. CASE Settle
  <2>1. /\ pc = "settle" /\ pc' = "strobe" /\ i = -1 /\ i' = DataBits /\ chip' = chip
        /\ Command' = Command
    BY <1>5, SettleStep, SameWork
  <2>2. Strobes' = 0 /\ i + 1 = 0
    BY <2>1, EepromAssumption DEF Strobes
  <2>3. Command \in Nat
    BY <1>1, <2>1, CommandRange DEF Flow
  <2>4. chip.sr = Command \div 2^0
    BY <2>1, <2>2 DEF Hears
  <2>5. Command \div 2^0 = Command /\ Command * 2^0 = Command
    BY <2>3, PowZero
  <2>. QED
    BY <2>1, <2>2, <2>4, <2>5 DEF Hears
<1>6. CASE Strobe
  <2>1. /\ pc = "strobe" /\ pc' = "sample" /\ i' = i /\ chip'.sr = 2 * chip.sr
        /\ Command' = Command
    BY <1>6, StrobeStep, SameWork DEF prog
  <2>2. Strobes \in Nat /\ Strobes' = Strobes + 1
    <3>1. i \in 1..DataBits /\ DataBits \in Nat
      BY <1>1, <2>1, EepromAssumption DEF Loops
    <3>. QED
      BY <2>1, <3>1 DEF Strobes
  <2>3. PICK k \in Nat : k = Strobes
    BY <2>2
  <2>4. Command \in Nat
    BY <1>1, <2>1, CommandRange DEF Flow
  <2>5. chip.sr = Command * 2^k
    BY <2>1, <2>3 DEF Hears
  <2>6. 2^k \in Nat /\ 2^(k + 1) = 2 * 2^k
    BY PowStep
  <2>7. chip'.sr = Command * 2^(k + 1)
    BY <2>1, <2>4, <2>5, <2>6
  <2>. QED
    BY <2>1, <2>2, <2>3, <2>7 DEF Hears
<1>7. CASE Sample
  <2>1. /\ pc = "sample" /\ pc' \in {"strobe", "return"} /\ i \in 1..DataBits /\ i' = i - 1
        /\ chip' = chip /\ Command' = Command
    BY <1>7, SampleStep, SameWork
  <2>2. Strobes' = Strobes
    BY <2>1, EepromAssumption DEF Strobes
  <2>. QED
    BY <2>1, <2>2 DEF Hears
<1>8. CASE Low \/ End \/ Wait \/ Return \/ Start \/ Interrupt
  <2>1. pc' \in {"high", "low", "wait", "idle"}
    BY <1>8, LowStep, EndStep, WordStep, StartStep, InterruptStep
  <2>. QED
    BY <2>1 DEF Hears
<1>9. CASE Finish
  BY <1>9 DEF Finish
<1>10. CASE UNCHANGED vars
  <2>1. UNCHANGED <<job, word, fn, pc, i, chip>>
    BY <1>10 DEF vars, prog
  <2>2. Command' = Command
    BY <2>1, SameWork
  <2>. QED
    BY <2>1, <2>2 DEF Hears, Strobes
<1>. QED
  BY <1>2, <1>3, <1>4, <1>5, <1>6, <1>7, <1>8, <1>9, <1>10 DEF Next, Program

LEMMA MissedStep ==
  TInv /\ Missed /\ pc # "high" /\ ~chip.writing /\ [Next]_vars => Missed'
<1>. SUFFICES ASSUME TInv, Missed, pc # "high", ~chip.writing, [Next]_vars
              PROVE  Missed'
  OBVIOUS
<1>. USE DEF Sending, Receiving
<1>1. TypeOK /\ Loops /\ Flow /\ chip.sr \in Nat
  BY DEF TInv, TypeOK, ChipType
<1>2. CASE Put
  <2>1. /\ pc = "put" /\ pc' = "clock" /\ i' = i /\ chip' = chip /\ LastBit' = LastBit
    BY <1>2, PutStep, SameWork DEF prog
  <2>. QED
    BY <2>1 DEF Missed
<1>3. CASE Clock
  <2>1. /\ pc = "clock" /\ i \in Nat /\ i' = i - 1 /\ pc' \in {"put", "settle", "end"}
        /\ LastBit' = LastBit /\ BitOf(Command, i) \in {0, 1} /\ LastBit \in Nat
        /\ chip'.sr = 2 * chip.sr + BitOf(Command, i)
    BY <1>3, ClockStep, SameWork DEF Bit
  <2>2. (chip.sr + 1) * 2^(i + 1) <= 2^(LastBit - 2)
    BY <2>1 DEF Missed
  <2>3. 2^i \in Nat /\ 2^(i + 1) = 2 * 2^i
    BY <2>1, PowStep
  <2>4. 2^(LastBit - 2) \in Nat
    <3>1. LastBit - 2 \in Nat
      BY <1>1, LastBitTyped
    <3>. QED
      BY <3>1, PowPositive
  <2>5. (chip'.sr + 1) * 2^i <= 2^(LastBit - 2)
    <3>1. (chip.sr + 1) * (2 * 2^i) = (2 * chip.sr + 2) * 2^i
      BY <1>1, <2>3
    <3>2. chip'.sr + 1 <= 2 * chip.sr + 2 /\ chip'.sr + 1 \in Nat
      BY <1>1, <2>1
    <3>3. (chip'.sr + 1) * 2^i <= (2 * chip.sr + 2) * 2^i
      BY <1>1, <2>3, <3>2
    <3>4. (chip'.sr + 1) * 2^i \in Nat /\ (2 * chip.sr + 2) * 2^i \in Nat
      BY <1>1, <2>3, <3>2
    <3>. QED
      BY <2>2, <2>3, <2>4, <3>1, <3>3, <3>4
  <2>6. i' + 1 = i
    BY <2>1
  <2>. QED
    BY <2>1, <2>5, <2>6 DEF Missed
<1>4. CASE Settle
  <2>1. /\ pc = "settle" /\ pc' = "strobe" /\ i = -1 /\ i' = DataBits /\ chip' = chip
        /\ fn = "read"
    BY <1>1, <1>4, SettleStep DEF Flow
  <2>2. Strobes' = 0 /\ i + 1 = 0 /\ LastBit - 2 = AddrBits + 2
    BY <2>1, EepromAssumption DEF Strobes, LastBit
  <2>3. (chip.sr + 1) * 2^0 <= 2^(AddrBits + 2)
    BY <2>1, <2>2 DEF Missed
  <2>4. 2^0 = 1 /\ 2^(AddrBits + 2) \in Nat
    <3>1. AddrBits + 2 \in Nat
      BY EepromAssumption
    <3>. QED
      BY <3>1, PowZero, PowPositive
  <2>5. chip.sr < 2^(AddrBits + 2) * 2^0
    BY <1>1, <2>3, <2>4
  <2>. QED
    BY <2>1, <2>2, <2>5 DEF Missed
<1>5. CASE Strobe
  <2>1. /\ pc = "strobe" /\ pc' = "sample" /\ i' = i /\ chip'.sr = 2 * chip.sr
    BY <1>5, StrobeStep DEF prog
  <2>2. Strobes \in Nat /\ Strobes' = Strobes + 1
    <3>1. i \in 1..DataBits /\ DataBits \in Nat
      BY <1>1, <2>1, EepromAssumption DEF Loops
    <3>. QED
      BY <2>1, <3>1 DEF Strobes
  <2>3. PICK k \in Nat : k = Strobes
    BY <2>2
  <2>4. chip.sr < 2^(AddrBits + 2) * 2^k
    BY <2>1, <2>3 DEF Missed
  <2>5. 2^k \in Nat /\ 2^(k + 1) = 2 * 2^k
    BY PowStep
  <2>6. PICK S \in Nat : S = 2^(AddrBits + 2)
    <3>1. AddrBits + 2 \in Nat
      BY EepromAssumption
    <3>. QED
      BY <3>1, PowPositive
  <2>7. S * (2 * 2^k) = 2 * (S * 2^k) /\ S * 2^k \in Nat
    BY <2>5, <2>6
  <2>8. chip'.sr < 2^(AddrBits + 2) * 2^(k + 1)
    BY <1>1, <2>1, <2>4, <2>5, <2>6, <2>7
  <2>. QED
    BY <2>1, <2>2, <2>3, <2>8 DEF Missed
<1>6. CASE Sample
  <2>1. /\ pc = "sample" /\ pc' \in {"strobe", "return"} /\ i \in 1..DataBits /\ i' = i - 1
        /\ chip' = chip
    BY <1>6, SampleStep
  <2>2. Strobes' = Strobes
    BY <2>1, EepromAssumption DEF Strobes
  <2>. QED
    BY <2>1, <2>2 DEF Missed
<1>7. CASE Low \/ End \/ Wait \/ Return \/ Start \/ Interrupt
  <2>1. pc' \in {"high", "low", "wait", "idle"}
    BY <1>7, LowStep, EndStep, WordStep, StartStep, InterruptStep
  <2>. QED
    BY <2>1 DEF Missed
<1>8. CASE Finish \/ High
  BY <1>8 DEF Finish, High
<1>9. CASE UNCHANGED vars
  <2>1. UNCHANGED <<job, word, fn, pc, i, chip>>
    BY <1>9 DEF vars, prog
  <2>2. LastBit' = LastBit
    BY <2>1, SameWork
  <2>. QED
    BY <2>1, <2>2 DEF Missed, Strobes
<1>. QED
  BY <1>2, <1>3, <1>4, <1>5, <1>6, <1>7, <1>8, <1>9 DEF Next, Program

(* While the chip writes it takes nothing.                                 *)
LEMMA BusyStep == TInv /\ chip.writing /\ [Next]_vars => chip'.sr = 0
<1>. SUFFICES ASSUME TInv, chip.writing, [Next]_vars
              PROVE  chip'.sr = 0
  OBVIOUS
<1>1. chip.sr = 0
  BY DEF TInv, Wires
<1>2. CASE Low \/ End
  BY <1>2, LowStep, EndStep DEF Deselects
<1>3. CASE High \/ Put \/ Clock \/ Settle \/ Strobe \/ Sample
  BY <1>1, <1>3, HighStep, PutStep, ClockStep, SettleStep, StrobeStep, SampleStep
<1>4. CASE Wait \/ Return \/ Start \/ Interrupt
  BY <1>1, <1>4, WordStep, StartStep, InterruptStep
<1>5. CASE Finish \/ UNCHANGED vars
  BY <1>1, <1>5, FinishStep DEF vars
<1>. QED
  BY <1>2, <1>3, <1>4, <1>5 DEF Next, Program

LEMMA SilentLine == TInv /\ chip.sr = 0 => Line
<1>. SUFFICES ASSUME TInv, chip.sr = 0
              PROVE  Line
  OBVIOUS
<1>1. CASE Sending
  <2>1. PICK n \in Nat : n = i + 1
    BY <1>1, Places
  <2>2. TypeOK /\ word \in 1..Len(job.table) /\ LastBit \in Nat /\ LastBit - 2 \in Nat
    BY <1>1, Places, LastBitTyped DEF TInv
  <2>3. ~Receiving
    BY <1>1 DEF Sending, Receiving
  <2>4. CASE n <= LastBit - 2
    <3>1. 2^n <= 2^(LastBit - 2) /\ 2^n \in Nat
      BY <2>2, <2>4, PowMono, PowPositive
    <3>2. (chip.sr + 1) * 2^n <= 2^(LastBit - 2)
      BY <3>1
    <3>3. (chip.sr + 1) * 2^(i + 1) <= 2^(LastBit - 2)
      BY <2>1, <3>2
    <3>4. Missed
      BY <2>3, <3>3, Zenon DEF Missed
    <3>. QED
      BY <3>4 DEF Line
  <2>5. CASE n >= LastBit - 1
    <3>1. Command \div 2^n = 0
      BY <2>2, <2>5, CommandFits
    <3>. QED
      BY <2>1, <2>3, <3>1 DEF Line, Hears
  <2>. QED
    BY <2>2, <2>4, <2>5
<1>2. CASE Receiving
  <2>1. PICK k \in Nat : k = Strobes
    BY <1>2, Places, EepromAssumption
  <2>2. 2^k \in Nat /\ 2^k >= 1 /\ 2^(AddrBits + 2) \in Nat /\ 2^(AddrBits + 2) >= 1
    <3>1. AddrBits + 2 \in Nat
      BY EepromAssumption
    <3>. QED
      BY <3>1, PowPositive
  <2>3. 0 < 2^(AddrBits + 2) * 2^k
    BY <2>2
  <2>4. ~Sending
    BY <1>2 DEF Sending, Receiving
  <2>. QED
    BY <2>1, <2>3, <2>4 DEF Line, Missed
<1>3. CASE ~Sending /\ ~Receiving
  BY <1>3 DEF Line, Hears
<1>. QED
  BY <1>1, <1>2, <1>3

LEMMA LineStep == TInv /\ Line /\ [Next]_vars => Line'
<1>1. TInv /\ [Next]_vars => TInv'
  BY TInvStep
<1>2. TInv' /\ (chip.sr = 0)' => Line'
  BY SilentLine, PTL
<1>3. ASSUME TInv, Line, [Next]_vars, ~chip.writing
      PROVE  Line'
  <2>1. CASE Hears
    BY <1>3, <2>1, HearsStep DEF Line
  <2>2. CASE ~Hears
    <3>1. Missed /\ pc # "high"
      BY <1>3, <2>2 DEF Line, Hears, Sending, Receiving
    <3>. QED
      BY <1>3, <3>1, MissedStep DEF Line
  <2>. QED
    BY <2>1, <2>2
<1>. QED
  BY <1>1, <1>2, <1>3, BusyStep

(* The bits behind the start bit of the disable command are zeros. *)
LEMMA DisableBits ==
  ASSUME NEW n \in Nat, 2^(AddrBits + 2) \div 2^(n + 1) # 0
  PROVE  BitOf(2^(AddrBits + 2), n) = 0
<1>. DEFINE a == AddrBits + 2
            m == a - (n + 1)
<1>1. a \in Nat /\ n + 1 \in Nat
  BY EepromAssumption
<1>2. n + 1 <= a
  <2>. SUFFICES ASSUME a < n + 1
                PROVE  FALSE
    BY <1>1
  <2>1. 2 * 2^a <= 2^(n + 1) /\ 2^a \in Nat /\ 2^a >= 1 /\ 2^(n + 1) \in Nat
    BY <1>1, PowMono, PowPositive
  <2>2. 2^a \div 2^(n + 1) = 0
    BY <2>1, DivLess
  <2>. QED
    BY <2>2
<1>3. m \in Nat /\ a = n + (m + 1) /\ m + 1 \in Nat
  BY <1>1, <1>2
<1>. HIDE DEF a, m
<1>4. 2^a = 2^n * 2^(m + 1)
  BY <1>3, PowSum
<1>5. 2^n \in Nat /\ 2^n >= 1 /\ 2^m \in Nat /\ 2^(m + 1) = 2 * 2^m
  BY <1>3, PowStep, PowPositive
<1>6. 2^a = (2 * 2^m) * 2^n + 0
  BY <1>4, <1>5
<1>7. 2^a \div 2^n = 2 * 2^m
  <2>1. PICK h \in Nat : h = 2 * 2^m
    BY <1>5
  <2>2. 0 \in 0..(2^n - 1)
    BY <1>5
  <2>3. (h * 2^n + 0) \div 2^n = h
    BY <1>5, <2>2, Parts, Zenon
  <2>. QED
    BY <1>6, <2>1, <2>3
<1>8. (2 * 2^m) % 2 = 0
  BY <1>5
<1>. QED
  BY <1>7, <1>8 DEF BitOf, a

(* Between two deselections a program stays in one function. *)
LEMMA TalkStep ==
  TInv /\ [Next]_vars /\ (Sending \/ Receiving)' =>
    /\ UNCHANGED <<job, word, fn, whole, asked>>
    /\ pc = "high" \/ Sending \/ Receiving
    /\ chip'.sr = chip.sr \/ Clock \/ Strobe
<1>. SUFFICES ASSUME TInv, [Next]_vars, (Sending \/ Receiving)'
              PROVE  /\ UNCHANGED <<job, word, fn, whole, asked>>
                     /\ pc = "high" \/ Sending \/ Receiving
                     /\ chip'.sr = chip.sr \/ Clock \/ Strobe
  OBVIOUS
<1>. USE DEF Sending, Receiving
<1>1. CASE Low \/ End \/ Wait \/ Return \/ Start \/ Interrupt
  <2>1. pc' \in {"high", "low", "wait", "idle"}
    BY <1>1, LowStep, EndStep, WordStep, StartStep, InterruptStep
  <2>. QED
    BY <2>1
<1>2. CASE High \/ Put \/ Clock \/ Settle \/ Strobe \/ Sample
  BY <1>2, HighStep, PutStep, ClockStep, SettleStep, StrobeStep, SampleStep DEF prog
<1>3. CASE Finish \/ UNCHANGED vars
  BY <1>3, FinishStep DEF vars, prog
<1>. QED
  BY <1>1, <1>2, <1>3 DEF Next, Program

LEMMA HeardStep == TInv /\ Heard /\ [Next]_vars => Heard'
<1>. SUFFICES ASSUME TInv, Heard, [Next]_vars
              PROVE  Heard'
  OBVIOUS
<1>. USE DEF Sending, Receiving
<1>1. TypeOK /\ Flow /\ Wires
  BY DEF TInv
<1>2. ASSUME whole'
      PROVE  Hears' \/ (fn' = "disable" /\ chip'.sr = 0)
  <2>1. CASE ~(Sending \/ Receiving)'
    BY <2>1 DEF Hears
  <2>2. CASE (Sending \/ Receiving)'
    <3>1. /\ fn' = fn /\ job' = job /\ word' = word /\ whole
          /\ pc = "high" \/ Sending \/ Receiving
          /\ chip'.sr = chip.sr \/ Clock \/ Strobe
      BY <1>2, <2>2, TalkStep
    <3>2. CASE chip.writing
      <4>1. fn = "disable"
        BY <3>1, <3>2 DEF Heard
      <4>. QED
        BY <3>1, <3>2, <4>1, BusyStep
    <3>3. CASE ~chip.writing /\ Hears
      BY <3>3, HearsStep
    <3>4. CASE ~chip.writing /\ ~Hears
      <4>1. fn = "disable" /\ chip.sr = 0
        BY <3>1, <3>4 DEF Heard
      <4>2. CASE chip'.sr = chip.sr
        BY <3>1, <4>1, <4>2
      <4>3. CASE Strobe
        BY <1>1, <4>1, <4>3, StrobeStep DEF Flow
      <4>4. CASE Clock
        <5>1. /\ pc = "clock" /\ i \in Nat /\ chip'.sr = 2 * chip.sr + BitOf(Command, i)
              /\ BitOf(Command, i) \in Bit
          BY <3>4, <4>4, ClockStep
        <5>2. word \in 1..Len(job.table)
          BY <1>1, <5>1 DEF Flow
        <5>3. Command = 2^(AddrBits + 2)
          BY <1>1, <4>1, <5>2, CommandRange, Sizes
        <5>4. Command \div 2^(i + 1) # 0
          BY <3>4, <4>1, <5>1 DEF Hears
        <5>5. BitOf(Command, i) = 0
          BY <5>1, <5>3, <5>4, DisableBits
        <5>. QED
          BY <3>1, <4>1, <5>1, <5>5
      <4>. QED
        BY <3>1, <4>2, <4>3, <4>4
    <3>. QED
      BY <3>2, <3>3, <3>4
  <2>. QED
    BY <2>1, <2>2
<1>3. ASSUME whole', pc' = "low"
      PROVE  Targets(chip'.sr) = {}
  <2>1. CASE Start
    BY <1>3, <2>1, StartStep
  <2>2. CASE End
    BY <2>2, EndStep, TargetsZero DEF Deselects
  <2>3. CASE Wait \/ Return
    <3>1. /\ chip' = chip /\ whole
          /\ (pc = "wait" /\ chip.sr = 0) \/ (pc = "return" /\ fn = "read")
      BY <1>3, <2>3, WordStep
    <3>2. CASE pc = "wait" /\ chip.sr = 0
      BY <3>1, <3>2, TargetsZero
    <3>3. CASE pc = "return" /\ fn = "read"
      <4>1. Hears
        BY <3>1, <3>3 DEF Heard
      <4>. QED
        BY <3>1, <3>3, <4>1, HeardHarmless
    <3>. QED
      BY <3>1, <3>2, <3>3
  <2>4. CASE Low \/ High \/ Put \/ Clock \/ Settle \/ Strobe \/ Sample \/ Interrupt
    BY <1>3, <2>4, LowStep, HighStep, PutStep, ClockStep, SettleStep, StrobeStep,
       SampleStep, InterruptStep
  <2>5. CASE Finish \/ UNCHANGED vars
    <3>1. pc = "low" /\ chip'.sr = chip.sr /\ whole
      BY <1>3, <2>5, FinishStep DEF vars, prog
    <3>. QED
      BY <3>1 DEF Heard
  <2>. QED
    BY <2>1, <2>2, <2>3, <2>4, <2>5 DEF Next, Program
<1>4. ASSUME whole', chip'.writing
      PROVE  ~job'.reads /\ (pc' = "idle" \/ fn' = "disable")
  <2>1. CASE Start
    BY <1>4, <2>1, StartStep
  <2>2. CASE Low
    <3>1. pc = "low" /\ Deselects /\ whole /\ job' = job /\ fn' = fn
      BY <1>4, <2>2, LowStep
    <3>2. Targets(chip.sr) = {}
      BY <3>1 DEF Heard
    <3>3. chip.writing
      BY <1>4, <3>1, <3>2 DEF Deselects
    <3>. QED
      BY <3>1, <3>3 DEF Heard
  <2>3. CASE End
    <3>1. /\ pc = "end" /\ Deselects /\ whole /\ job' = job
          /\ \/ fn = "enable" /\ fn' = "write" /\ pc' = "low"
             \/ fn = "write" /\ fn' = "disable" /\ pc' = "low"
             \/ fn = "disable" /\ fn' = fn /\ pc' = "wait"
      BY <1>4, <2>3, EndStep
    <3>2. ~job.reads
      BY <1>1, <3>1, JobTyped DEF Flow
    <3>3. CASE fn = "enable"
      <4>1. Hears /\ ~chip.writing
        BY <3>1, <3>3 DEF Heard
      <4>2. Targets(chip.sr) = {}
        BY <3>1, <3>3, <4>1, HeardHarmless
      <4>3. chip'.writing = chip.writing
        BY <3>1, <4>2 DEF Deselects
      <4>. QED
        BY <1>4, <4>1, <4>3
    <3>4. CASE fn # "enable"
      BY <3>1, <3>2, <3>4
    <3>. QED
      BY <3>3, <3>4
  <2>4. CASE Wait \/ Return
    <3>1. chip.writing /\ whole /\ ((pc = "wait" /\ ~chip.writing) \/ (pc = "return" /\ fn = "read"))
      BY <1>4, <2>4, WordStep
    <3>. QED
      BY <3>1 DEF Heard
  <2>5. CASE High \/ Put \/ Clock \/ Settle \/ Strobe \/ Sample
    <3>1. chip'.writing = chip.writing /\ fn' = fn /\ job' = job /\ whole' = whole /\ pc # "idle"
      BY <2>5, HighStep, PutStep, ClockStep, SettleStep, StrobeStep, SampleStep DEF prog
    <3>. QED
      BY <1>4, <3>1 DEF Heard
  <2>6. CASE Interrupt
    BY <1>4, <2>6, InterruptStep DEF Heard
  <2>7. CASE Finish
    BY <1>4, <2>7, FinishStep
  <2>8. CASE UNCHANGED vars
    BY <1>4, <2>8 DEF vars, prog, Heard
  <2>. QED
    BY <2>1, <2>2, <2>3, <2>4, <2>5, <2>6, <2>7, <2>8 DEF Next, Program
<1>. QED
  BY <1>2, <1>3, <1>4 DEF Heard

(* What may become of a word does not get less while a program runs. *)
LEMMA AllowedStep ==
  ASSUME TInv, [Next]_vars, ~Start, NEW a \in Locs, NEW v, Allowed(a, v)
  PROVE  Allowed(a, v)'
<1>1. TypeOK
  BY DEF TInv
<1>2. CASE Low
  <2>1. /\ asked' = (IF fn = "write" THEN [asked EXCEPT ![location] = @ \cup {job.table[word]}]
                     ELSE asked)
        /\ whole' = whole
    BY <1>2, LowStep
  <2>. QED
    BY <1>1, <2>1 DEF Allowed, TypeOK
<1>3. CASE UNCHANGED <<asked, whole>>
  BY <1>3 DEF Allowed
<1>4. Low \/ UNCHANGED <<asked, whole>>
  BY HighStep, PutStep, ClockStep, SettleStep, StrobeStep, SampleStep, EndStep, WordStep,
     FinishStep, InterruptStep DEF Next, Program, vars, prog
<1>. QED
  BY <1>2, <1>3, <1>4

LEMMA AskedWordStep == TInv /\ AskedWord /\ [Next]_vars => AskedWord'
<1>. SUFFICES ASSUME TInv, AskedWord, [Next]_vars, (fn = "write" /\ pc \notin {"idle", "low"})'
              PROVE  (job.table[word] \in asked[location])'
  BY DEF AskedWord
<1>1. TypeOK /\ Flow
  BY DEF TInv
<1>2. CASE Low
  <2>1. /\ pc = "low" /\ fn = "write" /\ UNCHANGED <<job, word, fn>>
        /\ asked' = [asked EXCEPT ![location] = @ \cup {job.table[word]}]
    BY <1>2, LowStep
  <2>2. location \in Locs
    BY <1>1, <2>1, LocationTyped DEF Flow
  <2>3. asked'[location] = asked[location] \cup {job.table[word]}
    BY <1>1, <2>1, <2>2 DEF TypeOK
  <2>. QED
    BY <2>1, <2>3, SameWork
<1>3. CASE High \/ Put \/ Clock \/ Settle \/ Strobe \/ Sample \/ Finish \/ UNCHANGED vars
  <2>1. /\ UNCHANGED <<job, word, fn, asked>>
        /\ pc \notin {"idle", "low"}
    BY <1>3, HighStep, PutStep, ClockStep, SettleStep, StrobeStep, SampleStep, FinishStep
       DEF vars, prog
  <2>. QED
    BY <2>1, SameWork DEF AskedWord
<1>4. CASE End \/ Wait \/ Return \/ Start \/ Interrupt
  BY <1>4, EndStep, WordStep, StartStep, InterruptStep
<1>. QED
  BY <1>2, <1>3, <1>4 DEF Next, Program

LEMMA AskedShiftStep ==
  TInv /\ Line /\ Heard /\ AskedWord /\ AskedShift /\ [Next]_vars => AskedShift'
<1>. SUFFICES ASSUME TInv, Line, Heard, AskedWord, AskedShift, [Next]_vars
              PROVE  AskedShift'
  OBVIOUS
<1>1. CASE (Sending \/ Receiving)'
  BY <1>1, TInvStep, LineStep, HeardStep, AskedWordStep, LineAskedNext
<1>2. CASE Low \/ End \/ Finish
  <2>1. chip'.sr = 0
    BY <1>2, LowStep, EndStep, FinishStep DEF Deselects
  <2>. QED
    BY <2>1, TargetsZero DEF AskedShift
<1>3. CASE High \/ Put \/ Clock \/ Settle \/ Strobe \/ Sample
  <2>1. pc' \in {"put", "clock", "settle", "end", "strobe", "sample", "return"}
    BY <1>3, HighStep, PutStep, ClockStep, SettleStep, StrobeStep, SampleStep
  <2>. QED
    BY <1>1, <2>1 DEF Sending, Receiving
<1>4. CASE Wait \/ Return \/ Interrupt \/ UNCHANGED vars
  <2>1. UNCHANGED <<chip, asked, whole>>
    BY <1>4, WordStep, InterruptStep DEF vars, prog
  <2>. QED
    BY <2>1 DEF AskedShift, Allowed
<1>5. CASE Start
  <2>1. UNCHANGED <<chip, asked>> /\ whole' = (Targets(chip.sr) = {})
    BY <1>5, StartStep
  <2>2. ASSUME NEW a \in Targets(chip.sr)
        PROVE  Allowed(a, Datum(chip.sr))'
    <3>1. ~whole' /\ Allowed(a, Datum(chip.sr))
      BY <2>1 DEF AskedShift
    <3>. QED
      BY <2>1, <3>1 DEF Allowed
  <2>. QED
    BY <2>1, <2>2 DEF AskedShift
<1>. QED
  BY <1>2, <1>3, <1>4, <1>5 DEF Next, Program

LEMMA AskedNextStep == TInv /\ AskedShift /\ AskedNext /\ [Next]_vars => AskedNext'
<1>. SUFFICES ASSUME TInv, AskedShift, AskedNext, [Next]_vars, chip'.writing,
                     NEW a \in Locs, chip'.next[a] # chip'.mem[a]
              PROVE  Allowed(a, chip.next[a])'
  BY DEF AskedNext
<1>1. ASSUME ~Start, Allowed(a, chip'.next[a])
      PROVE  Allowed(a, chip.next[a])'
  <2>1. PICK v : v = chip'.next[a]
    OBVIOUS
  <2>2. Allowed(a, v)
    BY <1>1, <2>1
  <2>3. Allowed(a, v)'
    BY <1>1, <2>2, AllowedStep
  <2>. QED
    BY <2>1, <2>3 DEF Allowed
<1>2. CASE ~Start /\ chip.writing /\ chip'.next = chip.next /\ chip'.mem = chip.mem
  BY <1>1, <1>2 DEF AskedNext
<1>3. CASE Low \/ End
  <2>1. Deselects /\ ~Start
    BY <1>3, LowStep, EndStep, StartStep
  <2>2. CASE chip.wen /\ Targets(chip.sr) # {}
    <3>1. /\ chip'.next = [b \in Locs |-> IF b \in Targets(chip.sr) THEN Datum(chip.sr)
                                           ELSE chip.mem[b]]
          /\ chip'.mem = chip.mem
      BY <2>1, <2>2 DEF Deselects
    <3>2. a \in Targets(chip.sr) /\ chip'.next[a] = Datum(chip.sr)
      BY <3>1
    <3>3. Allowed(a, chip'.next[a])
      BY <3>2 DEF AskedShift
    <3>. QED
      BY <1>1, <2>1, <3>3
  <2>3. CASE ~chip.wen \/ Targets(chip.sr) = {}
    <3>1. chip.writing /\ chip'.next = chip.next /\ chip'.mem = chip.mem
      BY <2>1, <2>3 DEF Deselects
    <3>. QED
      BY <1>2, <2>1, <3>1
  <2>4. chip.wen \in BOOLEAN
    BY DEF TInv, TypeOK, ChipType
  <2>. QED
    BY <2>2, <2>3, <2>4
<1>4. CASE High \/ Put \/ Clock \/ Settle \/ Strobe \/ Sample \/ Wait \/ Return \/ Interrupt
           \/ UNCHANGED vars
  <2>1. chip.writing /\ chip'.next = chip.next /\ chip'.mem = chip.mem
    BY <1>4, HighStep, PutStep, ClockStep, SettleStep, StrobeStep, SampleStep, WordStep,
       InterruptStep DEF vars
  <2>2. ~Start
    BY <2>1, StartStep
  <2>. QED
    BY <1>2, <2>1, <2>2
<1>5. CASE Start \/ Finish
  BY <1>5, StartStep, FinishStep
<1>. QED
  BY <1>3, <1>4, <1>5 DEF Next, Program

LEMMA AskedForStep ==
  TInv /\ Line /\ Heard /\ AskedFor /\ [Next]_vars => AskedFor'
BY AskedWordStep, AskedShiftStep, AskedNextStep DEF AskedFor

(* The memory changes only when the chip has written what it was to write. *)
LEMMA OnlyAskedStep ==
  TInv /\ AskedFor /\ [Next]_vars =>
    \A a \in Locs : chip.mem[a]' # chip.mem[a] =>
      chip.mem[a]' \in asked[a] \/ (~whole /\ chip.mem[a]' = Erased)
<1>. SUFFICES ASSUME TInv, AskedFor, [Next]_vars, NEW a \in Locs, chip.mem[a]' # chip.mem[a]
              PROVE  Allowed(a, chip'.mem[a])
  BY DEF Allowed
<1>1. Finish
  BY LowStep, HighStep, PutStep, ClockStep, EndStep, WordStep, SettleStep, StrobeStep,
     SampleStep, StartStep, InterruptStep DEF Deselects, Next, Program, vars
<1>2. chip.writing /\ chip'.mem = chip.next
  BY <1>1, FinishStep
<1>. QED
  BY <1>2 DEF AskedFor, AskedNext

LEMMA AskedInit == Init => Line /\ Heard /\ AskedFor
<1>. SUFFICES ASSUME Init PROVE Line /\ Heard /\ AskedFor
  OBVIOUS
<1>1. pc = "idle" /\ fn = "read" /\ chip.sr = 0 /\ ~chip.writing
  BY DEF Init
<1>2. ~Sending /\ ~Receiving
  BY <1>1 DEF Sending, Receiving
<1>3. Hears
  BY <1>2 DEF Hears
<1>. QED
  BY <1>1, <1>3, TargetsZero DEF Line, Heard, AskedFor, AskedWord, AskedShift, AskedNext

-----------------------------------------------------------------------------
(* Writing.  A program that found no command in the chip starts no writing  *)
(* but its own.                                                             *)

LEMMA QuietDeselect ==
  TInv /\ Heard /\ whole /\ (Low \/ (End /\ fn # "write")) =>
    /\ chip'.writing = chip.writing /\ chip'.next = chip.next
    /\ chip'.mem = chip.mem /\ chip'.wen = chip.wen
<1>. SUFFICES ASSUME TInv, Heard, whole, Low \/ (End /\ fn # "write")
              PROVE  /\ chip'.writing = chip.writing /\ chip'.next = chip.next
                     /\ chip'.mem = chip.mem /\ chip'.wen = chip.wen
  OBVIOUS
<1>1. Deselects
  BY LowStep, EndStep
<1>2. Targets(chip.sr) = {}
  <2>1. CASE Low
    BY <2>1, LowStep DEF Heard
  <2>2. CASE End /\ fn # "write"
    <3>1. pc = "end" /\ Sending
      BY <2>2, EndStep DEF Sending
    <3>2. Hears \/ chip.sr = 0
      BY DEF Heard
    <3>. QED
      BY <2>2, <3>1, <3>2, HeardHarmless, TargetsZero
  <2>. QED
    BY <2>1, <2>2
<1>. QED
  BY <1>1, <1>2 DEF Deselects

(* At the end of write_eeprom the chip has the word and its place.          *)
LEMMA WriteStarts ==
  TInv /\ Heard /\ Writes /\ whole /\ ~job.reads /\ End /\ fn = "write" =>
    /\ chip'.writing /\ chip'.mem = chip.mem
    /\ chip'.next = [chip.mem EXCEPT ![location] = job.table[word]]
<1>. SUFFICES ASSUME TInv, Heard, Writes, whole, ~job.reads, End, fn = "write"
              PROVE  /\ chip'.writing /\ chip'.mem = chip.mem
                     /\ chip'.next = [chip.mem EXCEPT ![location] = job.table[word]]
  OBVIOUS
<1>1. pc = "end" /\ Deselects
  BY EndStep
<1>2. Hears
  BY DEF Heard
<1>3. Targets(chip.sr) = {location} /\ Datum(chip.sr) = job.table[word] /\ location \in Locs
  BY <1>1, <1>2, HeardWrite
<1>4. chip.wen
  BY <1>1 DEF Writes
<1>5. /\ chip'.writing /\ chip'.mem = chip.mem
      /\ chip'.next = [a \in Locs |-> IF a \in Targets(chip.sr) THEN Datum(chip.sr)
                                       ELSE chip.mem[a]]
  BY <1>1, <1>3, <1>4 DEF Deselects
<1>6. chip.mem \in [Locs -> Words]
  BY DEF TInv, TypeOK, ChipType
<1>7. chip'.next = [a \in Locs |-> IF a = location THEN job.table[word] ELSE chip.mem[a]]
  BY <1>3, <1>5
<1>. QED
  BY <1>5, <1>6, <1>7

(* What is being written is the word of the table, whatever the step.       *)
LEMMA WritingStep ==
  TInv /\ Heard /\ Writes /\ whole' /\ ~job'.reads /\ chip'.writing /\ [Next]_vars
    => chip'.next = [chip'.mem EXCEPT ![location'] = job'.table[word']]
<1>. SUFFICES ASSUME TInv, Heard, Writes, whole', ~job'.reads, chip'.writing, [Next]_vars
              PROVE  chip'.next = [chip'.mem EXCEPT ![location'] = job'.table[word']]
  OBVIOUS
<1>1. CASE /\ UNCHANGED <<job, word, fn, whole>>
           /\ chip'.writing = chip.writing /\ chip'.next = chip.next /\ chip'.mem = chip.mem
  BY <1>1, SameWork DEF Writes
<1>2. CASE Low
  BY <1>1, <1>2, LowStep, QuietDeselect
<1>3. CASE End
  <2>1. /\ whole' = whole /\ job' = job /\ word' = word
        /\ pc = "end"
    BY <1>3, EndStep
  <2>2. location' = location
    BY <2>1 DEF location
  <2>3. CASE fn = "write"
    BY <1>3, <2>1, <2>2, <2>3, WriteStarts
  <2>4. CASE fn # "write"
    <3>1. chip'.writing = chip.writing /\ chip'.next = chip.next /\ chip'.mem = chip.mem
      BY <1>3, <2>1, <2>4, QuietDeselect
    <3>. QED
      BY <2>1, <2>2, <3>1 DEF Writes
  <2>. QED
    BY <2>3, <2>4
<1>4. CASE High \/ Put \/ Clock \/ Settle \/ Strobe \/ Sample \/ Interrupt \/ UNCHANGED vars
  <2>1. /\ UNCHANGED <<job, word, fn, whole>>
        /\ chip'.writing = chip.writing /\ chip'.next = chip.next /\ chip'.mem = chip.mem
    BY <1>4, HighStep, PutStep, ClockStep, SettleStep, StrobeStep, SampleStep, InterruptStep
       DEF vars, prog
  <2>. QED
    BY <1>1, <2>1
<1>5. CASE Wait \/ Return
  <2>1. /\ chip' = chip /\ job' = job
        /\ (pc = "wait" /\ ~chip.writing) \/ (pc = "return" /\ fn = "read")
    BY <1>5, WordStep
  <2>. QED
    BY <2>1 DEF TInv, Flow
<1>6. CASE Start \/ Finish
  BY <1>6, StartStep, FinishStep
<1>. QED
  BY <1>2, <1>3, <1>4, <1>5, <1>6 DEF Next, Program

(* The enable command ends with writing switched on, and no beginning of a  *)
(* write command switches it off.                                           *)
LEMMA SwitchStep ==
  TInv /\ Heard /\ Clock /\ whole =>
    /\ fn = "enable" /\ i = 0 => chip'.wen
    /\ fn = "write" /\ chip.wen => chip'.wen
<1>. SUFFICES ASSUME TInv, Heard, Clock, whole, fn \in {"enable", "write"}
              PROVE  /\ fn = "enable" /\ i = 0 => chip'.wen
                     /\ fn = "write" /\ chip.wen => chip'.wen
  OBVIOUS
<1>1. TypeOK /\ pc = "clock" /\ word \in 1..Len(job.table) /\ Sending
  BY ClockStep DEF TInv, Flow, Sending
<1>2. Hears /\ ~chip.writing
  BY <1>1 DEF Heard
<1>3. /\ i \in Nat /\ chip'.sr = 2 * chip.sr + BitOf(Command, i) /\ Command \in Nat
      /\ chip'.sr \div 2^(AddrBits - 2) = 19 => chip'.wen
      /\ chip'.sr \div 2^(AddrBits - 2) # 16 /\ chip.wen => chip'.wen
  BY <1>2, ClockStep
<1>4. chip'.sr = Command \div 2^i
  <2>1. chip.sr = Command \div 2^(i + 1)
    BY <1>1, <1>2 DEF Hears
  <2>. QED
    BY <1>3, <2>1, BitSent
<1>5. PICK r \in Nat : r = 2^(AddrBits - 2)
  BY Sizes
<1>6. r >= 1 /\ 2^AddrBits = 4 * r
  BY <1>5, Sizes
<1>7. CASE i = 0
  <2>1. chip'.sr = Command
    BY <1>3, <1>4, <1>7, PowZero
  <2>2. CASE fn = "enable"
    <3>1. Command = 19 * r
      BY <1>1, <1>5, <2>2, CommandRange
    <3>2. Command \div r = 19
      BY <1>6, <3>1, DivLess
    <3>. QED
      BY <1>3, <1>5, <2>1, <2>2, <3>2
  <2>3. CASE fn = "write"
    <3>1. PICK q \in Nat : q = 2^(AddrBits + DataBits)
      BY Sizes
    <3>2. q >= 8 * r
      BY <1>6, <3>1, Sizes
    <3>3. 5 * q <= Command
      BY <1>1, <2>3, <3>1, CommandRange
    <3>4. PICK c \in Nat : c = Command
      BY <1>3
    <3>5. 17 * r <= c
      BY <1>6, <3>2, <3>3, <3>4
    <3>6. c \div r # 16
      BY <1>6, <3>5, DivLess
    <3>. QED
      BY <1>3, <1>5, <2>1, <2>3, <3>4, <3>6
  <2>. QED
    BY <2>2, <2>3
<1>8. CASE i >= 1
  <2>1. CASE fn = "write"
    <3>1. 5 * 2^(AddrBits + DataBits) <= Command /\ Command < 6 * 2^(AddrBits + DataBits)
      BY <1>1, <2>1, CommandRange
    <3>2. (Command \div 2^i) \div 2^(AddrBits - 2) # 16
      BY <1>3, <1>8, <3>1, WriteBeginning
    <3>. QED
      BY <1>3, <1>4, <2>1, <3>2
  <2>. QED
    BY <1>8, <2>1
<1>. QED
  BY <1>3, <1>7, <1>8

(* When write_eeprom has ended, its word is on the way or in its place.     *)
LEMMA WritesStep == TInv /\ Heard /\ Writes /\ [Next]_vars => Writes'
<1>. SUFFICES ASSUME TInv, Heard, Writes, [Next]_vars, whole', ~job'.reads
              PROVE  /\ chip'.writing =>
                          chip'.next = [chip'.mem EXCEPT ![location'] = job'.table[word']]
                     /\ fn' = "enable" /\ pc' = "end" => chip'.wen
                     /\ pc' # "idle" /\ fn' = "write" => chip'.wen
                     /\ pc' # "idle" /\ fn' = "disable" =>
                          chip'.writing \/ chip'.mem[location'] = job'.table[word']
  BY DEF Writes
<1>1. TypeOK /\ Flow /\ Loops
  BY DEF TInv
<1>2. chip'.writing => chip'.next = [chip'.mem EXCEPT ![location'] = job'.table[word']]
  BY WritingStep
<1>3. ASSUME fn' = "enable", pc' = "end"
      PROVE  chip'.wen
  <2>1. CASE Clock
    <3>1. i \in 0..LastBit /\ pc' = (IF i > 0 THEN "put" ELSE IF fn = "read" THEN "settle" ELSE "end")
          /\ LastBit \in Nat /\ fn = "enable" /\ whole
      BY <1>3, <2>1, ClockStep
    <3>2. i = 0
      BY <1>3, <3>1
    <3>. QED
      BY <2>1, <3>1, <3>2, SwitchStep
  <2>2. CASE Finish \/ UNCHANGED vars
    <3>1. /\ UNCHANGED <<job, word, fn, whole, pc>> /\ chip'.wen = chip.wen
      BY <2>2, FinishStep DEF vars, prog
    <3>. QED
      BY <1>3, <3>1 DEF Writes
  <2>3. CASE Low \/ High \/ Put \/ End \/ Settle \/ Strobe \/ Sample \/ Wait \/ Return \/ Start
             \/ Interrupt
    BY <1>3, <2>3, LowStep, HighStep, PutStep, EndStep, SettleStep, StrobeStep, SampleStep,
       WordStep, StartStep, InterruptStep
  <2>. QED
    BY <2>1, <2>2, <2>3 DEF Next, Program
<1>4. ASSUME pc' # "idle", fn' = "write"
      PROVE  chip'.wen
  <2>1. CASE End
    <3>1. pc = "end" /\ fn = "enable" /\ whole /\ job' = job /\ chip'.wen = chip.wen
      BY <1>4, <2>1, EndStep DEF Deselects
    <3>. QED
      BY <3>1 DEF Writes
  <2>2. CASE Clock
    <3>1. whole /\ job' = job /\ fn = "write" /\ pc # "idle"
      BY <1>4, <2>2, ClockStep
    <3>. QED
      BY <2>2, <3>1, SwitchStep DEF Writes
  <2>3. CASE Low \/ High \/ Put \/ Settle \/ Finish \/ UNCHANGED vars
    <3>1. /\ whole /\ job' = job /\ fn = "write" /\ pc # "idle" /\ chip'.wen = chip.wen
      BY <1>4, <2>3, LowStep, HighStep, PutStep, SettleStep, FinishStep
         DEF Deselects, vars, prog
    <3>. QED
      BY <3>1 DEF Writes
  <2>4. CASE Strobe \/ Sample
    BY <1>1, <1>4, <2>4, StrobeStep, SampleStep DEF Flow, Receiving, prog
  <2>5. CASE Wait \/ Return \/ Start \/ Interrupt
    BY <1>4, <2>5, WordStep, StartStep, InterruptStep
  <2>. QED
    BY <2>1, <2>2, <2>3, <2>4, <2>5 DEF Next, Program
<1>5. ASSUME pc' # "idle", fn' = "disable"
      PROVE  chip'.writing \/ chip'.mem[location'] = job'.table[word']
  <2>1. CASE End /\ fn = "write"
    BY <2>1, EndStep, WriteStarts
  <2>2. CASE /\ UNCHANGED <<job, word, fn, whole>> /\ pc # "idle"
             /\ chip'.writing = chip.writing /\ chip'.mem = chip.mem
    BY <1>5, <2>2, SameWork DEF Writes
  <2>3. CASE Low \/ (End /\ fn # "write")
    <3>1. UNCHANGED <<job, word, whole>> /\ pc # "idle" /\ fn' = fn
      BY <1>5, <2>3, LowStep, EndStep
    <3>2. chip'.writing = chip.writing /\ chip'.mem = chip.mem
      BY <2>3, <3>1, QuietDeselect
    <3>. QED
      BY <2>2, <3>1, <3>2
  <2>4. CASE High \/ Put \/ Clock \/ Settle \/ Strobe \/ Sample \/ UNCHANGED vars
    <3>1. /\ UNCHANGED <<job, word, fn, whole>> /\ pc # "idle"
          /\ chip'.writing = chip.writing /\ chip'.mem = chip.mem
      BY <1>5, <2>4, HighStep, PutStep, ClockStep, SettleStep, StrobeStep, SampleStep
         DEF vars, prog
    <3>. QED
      BY <2>2, <3>1
  <2>5. CASE Finish
    <3>1. /\ UNCHANGED <<job, word, fn, whole, pc>> /\ chip.writing /\ chip'.mem = chip.next
      BY <2>5, FinishStep
    <3>2. chip.next = [chip.mem EXCEPT ![location] = job.table[word]]
      BY <3>1 DEF Writes
    <3>3. location \in Locs
      BY <1>1, <1>5, <3>1, LocationTyped DEF Flow
    <3>4. chip.mem \in [Locs -> Words]
      BY <1>1 DEF TypeOK, ChipType
    <3>5. chip.next[location] = job.table[word]
      BY <3>2, <3>3, <3>4
    <3>. QED
      BY <3>1, <3>5, SameWork
  <2>6. CASE Wait \/ Return \/ Start \/ Interrupt
    BY <1>5, <2>6, WordStep, StartStep, InterruptStep
  <2>. QED
    BY <2>1, <2>3, <2>4, <2>5, <2>6 DEF Next, Program
<1>. QED
  BY <1>2, <1>3, <1>4, <1>5

LEMMA WordsWrittenStep ==
  TInv /\ Writes /\ WordsWritten /\ [Next]_vars => WordsWritten'
<1>. SUFFICES ASSUME TInv, Writes, WordsWritten, [Next]_vars, whole', ~job'.reads,
                     NEW k \in 1..(word' - 1)
              PROVE  chip'.mem[job'.first + k - 1] = job'.table[k]
  BY DEF WordsWritten
<1>1. TypeOK /\ Flow
  BY DEF TInv
<1>2. job.first \in Nat /\ word \in Nat
  BY <1>1, JobTyped DEF TypeOK, Locs
<1>3. CASE Start
  BY <1>3, StartStep
<1>4. CASE Wait
  <2>1. /\ pc = "wait" /\ fn = "disable" /\ ~chip.writing /\ chip' = chip
        /\ word' = word + 1 /\ job' = job /\ whole
    BY <1>1, <1>4, WordStep DEF Flow, Wait
  <2>2. CASE k = word
    <3>1. chip.mem[location] = job.table[word]
      BY <2>1 DEF Writes
    <3>. QED
      BY <2>1, <2>2, <3>1 DEF location
  <2>3. CASE k \in 1..(word - 1)
    BY <2>1, <2>3 DEF WordsWritten
  <2>. QED
    BY <1>2, <2>1, <2>2, <2>3
<1>5. CASE Return
  BY <1>1, <1>5, WordStep DEF Flow, Return
<1>6. CASE Finish
  <2>1. /\ UNCHANGED <<job, word, whole>> /\ chip.writing /\ chip'.mem = chip.next
    BY <1>6, FinishStep
  <2>2. chip.next = [chip.mem EXCEPT ![location] = job.table[word]]
    BY <2>1 DEF Writes
  <2>3. k \in 1..(word - 1) /\ chip.mem[job.first + k - 1] = job.table[k]
    BY <2>1 DEF WordsWritten
  <2>4. job.first + k - 1 # location
    BY <1>2, <2>3 DEF location
  <2>5. chip.mem \in [Locs -> Words]
    BY <1>1 DEF TypeOK, ChipType
  <2>6. job.first + k - 1 \in Locs
    <3>1. job.first + Len(job.table) <= 2^AddrBits /\ Len(job.table) \in Nat
      BY <1>1, JobTyped
    <3>2. word <= Len(job.table) + 1
      BY <1>1, <3>1 DEF TypeOK
    <3>3. job.first + k - 1 \in Nat /\ job.first + k - 1 < job.first + Len(job.table)
      BY <1>2, <2>3, <3>1, <3>2
    <3>4. PICK m \in Nat : m = 2^AddrBits
      BY Sizes
    <3>5. job.first + k - 1 \in 0..(m - 1)
      BY <1>2, <3>1, <3>3, <3>4
    <3>. QED
      BY <3>4, <3>5 DEF Locs
  <2>7. chip.next[job.first + k - 1] = chip.mem[job.first + k - 1]
    BY <2>2, <2>4, <2>5, <2>6
  <2>. QED
    BY <2>1, <2>3, <2>7
<1>7. CASE Low \/ High \/ Put \/ Clock \/ End \/ Settle \/ Strobe \/ Sample \/ Interrupt
           \/ UNCHANGED vars
  <2>1. chip'.mem = chip.mem /\ UNCHANGED <<job, word, whole>>
    BY <1>7, LowStep, HighStep, PutStep, ClockStep, EndStep, SettleStep, StrobeStep,
       SampleStep, InterruptStep DEF Deselects, vars, prog
  <2>. QED
    BY <2>1 DEF WordsWritten
<1>. QED
  BY <1>3, <1>4, <1>5, <1>6, <1>7 DEF Next, Program

-----------------------------------------------------------------------------
(* Reading.  The word comes out of the chip from its first bit to its last. *)

LEMMA ReadBits ==
  ASSUME NEW c \in Nat, 6 * 2^AddrBits <= c, c < 7 * 2^AddrBits,
         NEW n \in Nat, NEW k \in Nat
  PROVE  (c * 2^n) \div 2^(AddrBits + k) = 6 <=> k = n
<1>. PICK a \in Nat : a = 2^AddrBits
  BY Sizes
<1>1. PICK p \in Nat : p = 2^n /\ p >= 1
  BY PowPositive
<1>2. PICK q \in Nat : q = 2^k /\ q >= 1
  BY PowPositive
<1>3. 2^(AddrBits + k) = a * q
  BY <1>2, PowSum, EepromAssumption
<1>4. 6 * a <= c /\ c < 7 * a /\ a >= 1
  OBVIOUS
<1>5. c * p \in Nat /\ a * q \in Nat /\ a * q >= 1
  BY <1>1, <1>2, <1>4
<1>6. 6 * (a * p) <= c * p /\ c * p < 7 * (a * p) /\ a * p \in Nat /\ a * p >= 1
  <2>1. (6 * a) * p <= c * p /\ c * p < (7 * a) * p
    BY <1>1, <1>4, TimesMono
  <2>2. (6 * a) * p = 6 * (a * p) /\ (7 * a) * p = 7 * (a * p)
    BY <1>1
  <2>3. a * p \in Nat /\ a * p >= 1
    BY <1>1, <1>4
  <2>. QED
    BY <2>1, <2>2, <2>3
<1>7. ((c * p) \div (a * q) = 6) <=> (6 * (a * q) <= c * p /\ c * p < 7 * (a * q))
  <2>1. PICK x \in Nat : x = c * p
    BY <1>5
  <2>2. PICK y \in Nat : y = a * q /\ y >= 1
    BY <1>5
  <2>3. x \div y = 6 <=> 6 * y <= x /\ x < (6 + 1) * y
    BY <2>2, DivLess
  <2>. QED
    BY <2>1, <2>2, <2>3
<1>8. CASE k = n
  <2>1. q = p
    BY <1>1, <1>2, <1>8
  <2>. QED
    BY <1>1, <1>3, <1>6, <1>7, <1>8, <2>1
<1>9. CASE k < n
  <2>1. 2 * q <= p
    BY <1>1, <1>2, <1>9, PowMono
  <2>2. 2 * (a * q) <= a * p
    BY <1>1, <1>2, <2>1
  <2>3. ~(c * p < 7 * (a * q))
    BY <1>5, <1>6, <2>2
  <2>. QED
    BY <1>1, <1>3, <1>7, <1>9, <2>3
<1>10. CASE n < k
  <2>1. 2 * p <= q
    BY <1>1, <1>2, <1>10, PowMono
  <2>2. 2 * (a * p) <= a * q
    BY <1>1, <1>2, <2>1
  <2>3. ~(6 * (a * q) <= c * p)
    BY <1>5, <1>6, <2>2
  <2>. QED
    BY <1>1, <1>3, <1>7, <1>10, <2>3
<1>. QED
  BY <1>8, <1>9, <1>10

LEMMA BitRead ==
  TInv /\ Heard /\ whole /\ job.reads /\ pc = "sample"
    => ~chip.writing /\ location \in Locs /\ DataOut = BitOf(chip.mem[location], i - 1)
<1>. SUFFICES ASSUME TInv, Heard, whole, job.reads, pc = "sample"
              PROVE  ~chip.writing /\ location \in Locs
                     /\ DataOut = BitOf(chip.mem[location], i - 1)
  OBVIOUS
<1>1. /\ TypeOK /\ Receiving /\ ~Sending /\ fn = "read" /\ word \in 1..Len(job.table)
      /\ i \in 1..DataBits
  BY DEF TInv, Flow, Loops, Receiving, Sending
<1>2. Hears /\ ~chip.writing
  BY <1>1 DEF Heard
<1>3. PICK n \in 1..DataBits : n = DataBits - i + 1
  BY <1>1, EepromAssumption
<1>4. Strobes = n
  BY <1>1, <1>3, EepromAssumption DEF Strobes
<1>5. chip.sr = Command * 2^n
  BY <1>1, <1>2, <1>4 DEF Hears
<1>6. location \in Locs
  BY <1>1, LocationTyped
<1>7. PICK c \in Nat : c = Command
  BY <1>1, CommandRange
<1>8. c = 6 * 2^AddrBits + location /\ 6 * 2^AddrBits <= c /\ c < 7 * 2^AddrBits
  BY <1>1, <1>7, CommandRange
<1>9. \A k \in 1..DataBits : chip.sr \div 2^(AddrBits + k) = 6 <=> k = n
  <2>. SUFFICES ASSUME NEW k \in 1..DataBits
                PROVE  chip.sr \div 2^(AddrBits + k) = 6 <=> k = n
    OBVIOUS
  <2>1. k \in Nat /\ n \in Nat
    BY <1>3, EepromAssumption
  <2>2. (c * 2^n) \div 2^(AddrBits + k) = 6 <=> k = n
    BY <1>8, <2>1, ReadBits
  <2>. QED
    BY <1>5, <1>7, <2>2
<1>10. (chip.sr \div 2^n) % 2^AddrBits = location
  <2>1. PICK p \in Nat : p = 2^n /\ p >= 1
    BY <1>3, PowPositive
  <2>2. (c * p) \div p = c
    <3>1. 0 \in 0..(p - 1) /\ c * p + 0 = c * p
      BY <2>1
    <3>2. (c * p + 0) \div p = c
      BY <2>1, <3>1, Parts, Zenon
    <3>. QED
      BY <3>1, <3>2
  <2>3. c % 2^AddrBits = location
    <3>1. 2^AddrBits \in Nat /\ location \in 0..(2^AddrBits - 1) /\ 6 \in Nat
      BY <1>6, Sizes DEF Locs
    <3>2. (6 * 2^AddrBits + location) % 2^AddrBits = location
      BY <3>1, Parts, Zenon
    <3>. QED
      BY <1>8, <3>2
  <2>. QED
    BY <1>5, <1>7, <2>1, <2>2, <2>3
<1>11. DataBits - n = i - 1
  BY <1>1, <1>3, EepromAssumption
<1>12. DataOut = (IF BitOf(chip.mem[location], i - 1) = 0 THEN 0 ELSE 1)
  <2>1. (\E k \in 1..DataBits :
           /\ chip.sr \div 2^(AddrBits + k) = 6
           /\ BitOf(chip.mem[(chip.sr \div 2^k) % 2^AddrBits], DataBits - k) = 0)
        <=> BitOf(chip.mem[location], i - 1) = 0
    BY <1>3, <1>9, <1>10, <1>11, Zenon
  <2>. QED
    BY <1>2, <2>1 DEF DataOut
<1>13. BitOf(chip.mem[location], i - 1) \in Bit
  <2>1. chip.mem[location] \in Nat /\ i - 1 \in Nat
    BY <1>1, <1>6 DEF TypeOK, ChipType, Words
  <2>. QED
    BY <2>1, BitTyped
<1>. QED
  BY <1>2, <1>6, <1>12, <1>13 DEF Bit

LEMMA ReadsStep == TInv /\ Heard /\ Reads /\ [Next]_vars => Reads'
<1>. SUFFICES ASSUME TInv, Heard, Reads, [Next]_vars, whole', job'.reads, Receiving'
              PROVE  retval' = chip'.mem[location'] \div 2^(i')
  BY DEF Reads
<1>1. TypeOK /\ Flow /\ Loops
  BY DEF TInv
<1>2. UNCHANGED <<job, word, fn, whole>>
  BY TalkStep
<1>3. location' = location
  BY <1>2, SameWork
<1>4. CASE Settle
  <2>1. pc = "settle" /\ i' = DataBits /\ chip' = chip /\ retval' = 0
    BY <1>4, SettleStep
  <2>2. location \in Locs
    BY <1>1, <2>1, LocationTyped DEF Flow
  <2>3. chip.mem[location] \in 0..(2^DataBits - 1)
    BY <1>1, <2>2 DEF TypeOK, ChipType, Words
  <2>4. PICK m \in Nat : m = chip.mem[location]
    BY <2>3
  <2>5. PICK q \in Nat : q = 2^DataBits /\ q >= 2
    BY Sizes
  <2>6. m \div q = 0
    <3>1. 0 * q <= m /\ m < (0 + 1) * q /\ q >= 1
      BY <2>3, <2>4, <2>5
    <3>. QED
      BY <3>1, DivLess
  <2>. QED
    BY <1>3, <2>1, <2>4, <2>5, <2>6
<1>5. CASE Strobe \/ UNCHANGED vars
  <2>1. /\ retval' = retval /\ i' = i /\ chip'.mem = chip.mem /\ whole /\ job.reads
        /\ Receiving
    BY <1>2, <1>5, StrobeStep DEF Receiving, vars, prog
  <2>. QED
    BY <1>3, <2>1 DEF Reads
<1>6. CASE Sample
  <2>1. /\ pc = "sample" /\ i \in 1..DataBits /\ i' = i - 1 /\ chip' = chip
        /\ retval' = 2 * retval + DataOut
    BY <1>6, SampleStep
  <2>2. Receiving /\ whole /\ job.reads
    BY <1>2, <2>1 DEF Receiving
  <2>3. location \in Locs /\ DataOut = BitOf(chip.mem[location], i - 1)
    BY <2>1, <2>2, BitRead
  <2>4. PICK m \in Nat : m = chip.mem[location]
    BY <1>1, <2>3 DEF TypeOK, ChipType, Words
  <2>5. PICK n \in Nat : n = i - 1
    BY <2>1, EepromAssumption
  <2>6. n + 1 = i
    BY <2>1, <2>5, EepromAssumption
  <2>7. retval = m \div 2^(n + 1)
    BY <2>2, <2>4, <2>6 DEF Reads
  <2>8. m \div 2^n = 2 * (m \div 2^(n + 1)) + BitOf(m, n)
    BY BitSent
  <2>. QED
    BY <1>3, <2>1, <2>3, <2>4, <2>5, <2>7, <2>8
<1>7. CASE Finish
  <2>1. chip.writing /\ whole /\ job.reads
    BY <1>2, <1>7, FinishStep
  <2>. QED
    BY <2>1 DEF Heard
<1>8. CASE Low \/ High \/ Put \/ Clock \/ End \/ Wait \/ Return \/ Start \/ Interrupt
  BY <1>8, LowStep, HighStep, PutStep, ClockStep, EndStep, WordStep, StartStep, InterruptStep
     DEF Receiving
<1>. QED
  BY <1>4, <1>5, <1>6, <1>7, <1>8 DEF Next, Program

LEMMA ReadsTrueStep ==
  TInv /\ Heard /\ Reads /\ ReadsTrue /\ [Next]_vars => ReadsTrue'
<1>. SUFFICES ASSUME TInv, Heard, Reads, ReadsTrue, [Next]_vars, whole', job'.reads,
                     NEW k \in 1..Len(got')
              PROVE  got'[k] = chip'.mem[job'.first + k - 1]
  BY DEF ReadsTrue
<1>1. TypeOK /\ Flow /\ Loops
  BY DEF TInv
<1>2. CASE Return
  <2>1. /\ pc = "return" /\ got' = Append(got, retval) /\ chip' = chip /\ job' = job /\ whole
        /\ Receiving
    BY <1>2, WordStep DEF Return, Receiving
  <2>2. i = 0 /\ word \in 1..Len(job.table) /\ Len(got) = word - 1 /\ got \in Seq(Words)
    BY <1>1, <2>1 DEF Loops, Flow, TypeOK
  <2>3. location \in Locs
    BY <1>1, <2>2, LocationTyped
  <2>4. PICK m \in Nat : m = chip.mem[location]
    BY <1>1, <2>3 DEF TypeOK, ChipType, Words
  <2>5. retval = m
    <3>1. retval = m \div 1
      BY <2>1, <2>2, <2>4, PowZero DEF Reads
    <3>. QED
      BY <2>4, <3>1
  <2>6. Len(got') = Len(got) + 1 /\ got'[Len(got) + 1] = retval
        /\ \A l \in 1..Len(got) : got'[l] = got[l]
    BY <1>1, <2>1, <2>2 DEF TypeOK
  <2>7. CASE k = Len(got) + 1
    <3>1. k = word
      BY <1>1, <2>2, <2>7 DEF TypeOK
    <3>. QED
      BY <2>1, <2>4, <2>5, <2>6, <2>7, <3>1 DEF location
  <2>8. CASE k \in 1..Len(got)
    BY <2>1, <2>6, <2>8 DEF ReadsTrue
  <2>. QED
    BY <2>2, <2>6, <2>7, <2>8
<1>3. CASE Start
  BY <1>3, StartStep
<1>4. CASE Finish
  <2>1. chip.writing /\ whole /\ job.reads
    BY <1>4, FinishStep
  <2>. QED
    BY <2>1 DEF Heard
<1>5. CASE Low \/ High \/ Put \/ Clock \/ End \/ Settle \/ Strobe \/ Sample \/ Wait \/ Interrupt
           \/ UNCHANGED vars
  <2>1. chip'.mem = chip.mem /\ UNCHANGED <<job, got, whole>>
    BY <1>5, LowStep, HighStep, PutStep, ClockStep, EndStep, SettleStep, StrobeStep,
       SampleStep, InterruptStep DEF Deselects, Wait, vars, prog
  <2>. QED
    BY <2>1 DEF ReadsTrue
<1>. QED
  BY <1>2, <1>3, <1>4, <1>5 DEF Next, Program

-----------------------------------------------------------------------------
(* The invariant.                                                           *)

LEMMA IInvInit == Init => IInv
<1>. SUFFICES ASSUME Init PROVE IInv
  OBVIOUS
<1>1. TInv /\ Line /\ Heard /\ AskedFor
  BY TInvInit, AskedInit
<1>2. /\ pc = "idle" /\ fn = "read" /\ ~chip.writing /\ word = 1 /\ got = << >>
  BY DEF Init
<1>3. Writes /\ Reads
  BY <1>2 DEF Writes, Reads, Receiving
<1>4. WordsWritten /\ ReadsTrue
  BY <1>2 DEF WordsWritten, ReadsTrue
<1>. QED
  BY <1>1, <1>3, <1>4 DEF IInv, TInv

LEMMA IInvStep == IInv /\ [Next]_vars => IInv'
BY TInvStep, LineStep, AskedForStep, HeardStep, WritesStep, ReadsStep, WordsWrittenStep,
   ReadsTrueStep DEF IInv, TInv

LEMMA Invariant == Spec => []IInv
BY IInvInit, IInvStep, PTL DEF Spec

(* The words of the table that main's loop has passed are in the memory     *)
(* (eeprom.c, 459 to 461 and write_eeprom): none is lost to a chip that     *)
(* still writes the one before, unless the program found a command in it.   *)
THEOREM WordsAreWritten == Spec => []WordsWritten
<1>1. IInv => WordsWritten
  BY DEF IInv
<1>. QED
  BY <1>1, Invariant, PTL

(* Each word that read_eeprom has returned is the memory's, every bit of it *)
(* at its place (eeprom.c, 240 to 292).                                     *)
THEOREM WordsAreRead == Spec => []ReadsTrue
<1>1. IInv => ReadsTrue
  BY DEF IInv
<1>. QED
  BY <1>1, Invariant, PTL

(* A word of the memory changes only to one that write_eeprom was called    *)
(* with for its location, or to all ones in a program that found a command  *)
(* in the chip (eeprom.c, 113 to 238), whatever the chip misses while it    *)
(* writes and wherever the user stops a program and starts the next.        *)
THEOREM NothingElseChanges == Spec => OnlyAsked
<1>1. IInv /\ [Next]_vars =>
        [\A a \in Locs : chip.mem[a]' # chip.mem[a] =>
           chip.mem[a]' \in asked[a] \/ (~whole /\ chip.mem[a]' = Erased)]_vars
  BY OnlyAskedStep DEF IInv, TInv
<1>. QED
  BY <1>1, Invariant, PTL DEF Spec, OnlyAsked
=============================================================================
