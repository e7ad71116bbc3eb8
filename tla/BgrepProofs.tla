----------------------------- MODULE BgrepProofs -----------------------------
(***************************************************************************)
(* What Bgrep prints, for any bytes to look for and any input: addresses   *)
(* at which the bytes really are, except such as lie inside the address    *)
(* printed just before; and every occurrence but such as lie inside an     *)
(* address printed.                                                        *)
(***************************************************************************)
EXTENDS Bgrep, TLAPS, WellFoundedInduction, SequenceTheorems

(* A set of naturals that is not empty has a minimum. *)
LEMMA MinIn ==
  ASSUME NEW S \in SUBSET Nat, S # {}
  PROVE  Min(S) \in S /\ \A y \in S : Min(S) <= y
<1>1. PICK x \in S : \A y \in S : <<y, x>> \notin OpToRel(<, Nat)
  BY NatLessThanWellFounded, WFMin, Zenon
<1>2. \A y \in S : ~ (y < x)
  BY <1>1, Zenon DEF OpToRel
<1>3. \A y \in S : x <= y
  BY <1>2
<1>. QED
  BY <1>3 DEF Min

(* What make_kmp_links guarantees of each link: it goes forward, or to the *)
(* last index, and the bytes after it are the first of those after the     *)
(* index (the assertion of bgrep.c:49-51).                                 *)
LinkSound(bytes, n, link) ==
  \A i \in 0..(n - 1) :
    /\ link[i] \in 0..(n - 1)
    /\ link[i] > i \/ link[i] = n - 1
    /\ \A k \in 0..(n - 2 - link[i]) : bytes[i + 1 + k] = bytes[link[i] + 1 + k]

LEMMA LinksSound ==
  ASSUME NEW n \in Nat, n > 0, NEW bytes \in [0..(n - 1) -> Bytes]
  PROVE  LinkSound(bytes, n, Links(bytes, n))
<1>. DEFINE link == Links(bytes, n)
<1>. SUFFICES ASSUME NEW i \in 0..(n - 1)
              PROVE  /\ link[i] \in 0..(n - 1)
                     /\ link[i] > i \/ link[i] = n - 1
                     /\ \A k \in 0..(n - 2 - link[i]) :
                          bytes[i + 1 + k] = bytes[link[i] + 1 + k]
  BY DEF LinkSound
<1>. DEFINE J == {j \in (i + 2)..(n - 1) : SameTail(bytes, n, i, j)}
<1>1. link[i] = IF J = {} THEN n - 1 ELSE Min(J) - 1
  BY DEF Links
<1>2. CASE J = {}
  <2>1. link[i] = n - 1
    BY <1>1, <1>2
  <2>. QED
    BY <2>1
<1>3. CASE J # {}
  <2>1. J \in SUBSET Nat
    OBVIOUS
  <2>2. PICK j \in J : j = Min(J)
    BY <1>3, <2>1, MinIn
  <2>3. link[i] = j - 1
    BY <1>1, <1>3, <2>2
  <2>4. j \in (i + 2)..(n - 1) /\ SameTail(bytes, n, i, j)
    OBVIOUS
  <2>. HIDE DEF J, link
  <2>5. ASSUME NEW k \in 0..(n - 2 - link[i])
        PROVE  bytes[i + 1 + k] = bytes[link[i] + 1 + k]
    <3>1. k \in 0..(n - 1 - j) /\ link[i] + 1 + k = j + k
      BY <2>3, <2>4
    <3>2. \A t \in 0..(n - 1 - j) : bytes[i + 1 + t] = bytes[j + t]
      BY <2>4 DEF SameTail
    <3>. QED
      BY <3>1, <3>2
  <2>. QED
    BY <2>3, <2>4, <2>5
<1>. QED
  BY <1>2, <1>3

-----------------------------------------------------------------------------
(* Where the address printed last ends, 0 if there is none. *)
Base == IF printed = << >> THEN 0 ELSE printed[Len(printed)] + n_look_for

(* The bytes p says are matched are in the input read so far, and those    *)
(* after the address printed last are really the bytes of the input.       *)
Claims ==
  /\ pc = "match" => Len(input) > 0
  /\ Last(n_look_for) - p <= Matched
  /\ \A k \in 0..Last(n_look_for) :
        k > p /\ Matched - (k - p - 1) > Base
          => input[Matched - (k - p - 1)] = look_for[k]

LEMMA BaseType ==
  ASSUME TypeOK
  PROVE  Base \in Nat
<1>. USE BgrepAssumption
<1>1. CASE printed = << >>
  BY <1>1 DEF Base
<1>2. CASE printed # << >>
  <2>1. printed \in Seq(Nat) /\ Len(printed) \in DOMAIN printed
    <3>1. printed \in Seq(Nat)
      BY DEF TypeOK
    <3>2. Len(printed) \in Nat \ {0}
      BY <3>1, <1>2, EmptySeq
    <3>3. DOMAIN printed = 1..Len(printed)
      BY <3>1, LenProperties
    <3>. QED
      BY <3>1, <3>2, <3>3
  <2>2. printed[Len(printed)] \in Nat
    BY <2>1
  <2>3. n_look_for \in Nat
    BY DEF TypeOK
  <2>. QED
    BY <2>2, <2>3, <1>2 DEF Base
<1>. QED
  BY <1>1, <1>2

IInv ==
  /\ TypeOK
  /\ LinkSound(look_for, n_look_for, look_for_link)
  /\ Claims
  /\ FalseOnesOverlap

LEMMA InitIInv == Init => IInv
<1>. SUFFICES ASSUME Init PROVE IInv
  OBVIOUS
<1>. USE BgrepAssumption
<1>1. LinkSound(look_for, n_look_for, look_for_link)
  BY LinksSound DEF Init
<1>2. look_for_link \in [0..(n_look_for - 1) -> 0..(n_look_for - 1)]
  BY <1>1 DEF Init, Links, LinkSound
<1>3. TypeOK
  BY <1>2 DEF Init, TypeOK, Last
<1>4. Claims
  BY DEF Init, Claims, Last, Matched
<1>5. FalseOnesOverlap
  BY DEF Init, FalseOnesOverlap
<1>. QED
  BY <1>1, <1>3, <1>4, <1>5 DEF IInv

(* An occurrence stays where it is while the input grows. *)
LEMMA OccursStays ==
  ASSUME NEW a \in Nat, OccursAt(a),
         n_look_for \in Nat, n_look_for' = n_look_for, look_for' = look_for,
         Len(input) \in Nat, Len(input') >= Len(input), Len(input') \in Nat,
         \A q \in 1..Len(input) : input'[q] = input[q]
  PROVE  OccursAt(a)'
<1>1. /\ a + n_look_for <= Len(input)
      /\ \A k \in 0..(n_look_for - 1) :
            input[a + 1 + k] = look_for[n_look_for - 1 - k]
  BY DEF OccursAt, Last
<1>2. \A k \in 0..(n_look_for - 1) : a + 1 + k \in 1..Len(input)
  BY <1>1
<1>3. \A k \in 0..(n_look_for - 1) : input'[a + 1 + k] = look_for[n_look_for - 1 - k]
  BY <1>1, <1>2
<1>. QED
  BY <1>1, <1>3 DEF OccursAt, Last

(* A byte more of input leaves the occurrences found where they are.       *)
LEMMA ReadIInv ==
  ASSUME IInv, Read
  PROVE  IInv'
<1>. USE BgrepAssumption
<1>1. PICK byte \in Bytes : input' = Append(input, byte)
  BY DEF Read
<1>2. /\ TypeOK /\ LinkSound(look_for, n_look_for, look_for_link)
      /\ Claims /\ FalseOnesOverlap
  BY DEF IInv
<1>3. /\ pc = "read" /\ o < MaxText /\ o' = o + 1 /\ pc' = "match"
      /\ p' = p /\ printed' = printed
      /\ n_look_for' = n_look_for /\ look_for' = look_for
      /\ look_for_link' = look_for_link
  BY DEF Read, pattern
<1>4. /\ Len(input') = Len(input) + 1
      /\ \A q \in 1..Len(input) : input'[q] = input[q]
      /\ input' \in Seq(Bytes)
  BY <1>1, <1>2 DEF TypeOK
<1>5. TypeOK'
  BY <1>2, <1>3, <1>4 DEF TypeOK
<1>6. LinkSound(look_for, n_look_for, look_for_link)'
  BY <1>2, <1>3 DEF LinkSound
<1>7. Matched' = Matched /\ Matched = Len(input) /\ Base' = Base
  BY <1>2, <1>3, <1>4 DEF Matched, Base, TypeOK
<1>8. Claims'
  <2>1. (pc = "match" => Len(input) > 0)'
    BY <1>2, <1>4 DEF TypeOK
  <2>2. (Last(n_look_for) - p <= Matched)'
    BY <1>2, <1>3, <1>7 DEF Claims, Last
  <2>3. ASSUME NEW k \in 0..Last(n_look_for),
               k > p, Matched - (k - p - 1) > Base
        PROVE  input'[Matched - (k - p - 1)] = look_for[k]
    <3>1. Matched - (k - p - 1) \in 1..Len(input)
      BY <2>3, <1>2, <1>7, SMTT(30) DEF Claims, TypeOK, Last
    <3>2. input[Matched - (k - p - 1)] = look_for[k]
      BY <2>3, <1>2 DEF Claims
    <3>. QED
      BY <3>1, <3>2, <1>4
  <2>. QED
    BY <2>1, <2>2, <2>3, <1>3, <1>7 DEF Claims, Last
<1>9. FalseOnesOverlap'
  <2>1. \A a \in Nat : OccursAt(a) => OccursAt(a)'
    BY <1>2, <1>3, <1>4, OccursStays DEF TypeOK
  <2>2. \A i \in DOMAIN printed : printed[i] \in Nat
    BY <1>2, SMTT(30) DEF TypeOK
  <2>. QED
    BY <2>1, <2>2, <1>2, <1>3 DEF FalseOnesOverlap
<1>. QED
  BY <1>5, <1>6, <1>8, <1>9 DEF IInv

(* The link keeps a beginning of what was matched. *)
LEMMA FollowIInv ==
  ASSUME IInv, Follow
  PROVE  IInv'
<1>. USE BgrepAssumption
<1>1. /\ TypeOK /\ LinkSound(look_for, n_look_for, look_for_link)
      /\ Claims /\ FalseOnesOverlap
  BY DEF IInv
<1>2. /\ pc = "match" /\ p # Last(n_look_for) /\ p' = look_for_link[p]
      /\ n_look_for' = n_look_for /\ look_for' = look_for
      /\ look_for_link' = look_for_link /\ pc' = pc /\ o' = o
      /\ input' = input /\ printed' = printed
  BY DEF Follow, pattern
<1>. DEFINE n == n_look_for
            l == look_for_link[p]
<1>3. /\ n \in Nat /\ p \in 0..(n - 1) /\ p < n - 1
      /\ l \in 0..(n - 1) /\ l > p
      /\ \A k \in 0..(n - 2 - l) : look_for[p + 1 + k] = look_for[l + 1 + k]
  <2>1. n \in Nat /\ p \in 0..(n - 1) /\ p < n - 1
    BY <1>1, <1>2 DEF TypeOK, Last
  <2>. QED
    BY <2>1, <1>1 DEF LinkSound
<1>4. TypeOK'
  BY <1>1, <1>2, <1>3 DEF TypeOK
<1>5. LinkSound(look_for, n_look_for, look_for_link)'
  BY <1>1, <1>2 DEF LinkSound
<1>6. Matched' = Matched /\ Base' = Base /\ Matched \in Int /\ Base \in Int
  <2>1. Matched' = Matched
    BY <1>2 DEF Matched
  <2>2. Base' = Base
    BY <1>2 DEF Base
  <2>3. Matched \in Int
    BY <1>1 DEF Matched, TypeOK
  <2>. QED
    BY <1>1, <2>1, <2>2, <2>3, BaseType
<1>7. ASSUME NEW k \in 0..(n - 1), k > l, Matched - (k - l - 1) > Base
      PROVE  input[Matched - (k - l - 1)] = look_for[k]
  <2>. DEFINE t == k - l - 1
              j == p + 1 + t
  <2>1. /\ t \in 0..(n - 2 - l) /\ k = l + 1 + t
        /\ j \in 0..(n - 1) /\ j > p /\ j - p - 1 = k - l - 1
    BY <1>3, <1>7
  <2>2. input[Matched - (j - p - 1)] = look_for[j]
    <3>1. Matched - (j - p - 1) > Base
      BY <2>1, <1>7
    <3>. QED
      BY <2>1, <3>1, <1>1 DEF Claims, Last
  <2>3. look_for[j] = look_for[k]
    BY <2>1, <1>3
  <2>. QED
    BY <2>1, <2>2, <2>3
<1>8. Claims'
  <2>1. (pc = "match" => Len(input) > 0)'
    BY <1>1, <1>2 DEF Claims
  <2>2. (Last(n_look_for) - p <= Matched)'
    BY <1>1, <1>2, <1>3, <1>6 DEF Claims, Last
  <2>. QED
    BY <2>1, <2>2, <1>2, <1>6, <1>7 DEF Claims, Last
<1>9. FalseOnesOverlap'
  BY <1>1, <1>2 DEF FalseOnesOverlap, OccursAt, Last
<1>. QED
  BY <1>4, <1>5, <1>8, <1>9 DEF IInv

(* The first byte of the bytes looked for did not come: nothing is matched. *)
LEMMA MismatchIInv ==
  ASSUME IInv, Mismatch
  PROVE  IInv'
<1>. USE BgrepAssumption
<1>1. /\ TypeOK /\ LinkSound(look_for, n_look_for, look_for_link)
      /\ Claims /\ FalseOnesOverlap
  BY DEF IInv
<1>2. /\ pc = "match" /\ p = Last(n_look_for) /\ pc' = "read"
      /\ n_look_for' = n_look_for /\ look_for' = look_for
      /\ look_for_link' = look_for_link /\ p' = p /\ o' = o
      /\ input' = input /\ printed' = printed
  BY DEF Mismatch, pattern
<1>3. TypeOK'
  BY <1>1, <1>2 DEF TypeOK
<1>4. LinkSound(look_for, n_look_for, look_for_link)'
  BY <1>1, <1>2 DEF LinkSound
<1>5. Claims'
  <2>1. Matched' \in Nat
    BY <1>1, <1>2 DEF Matched, TypeOK
  <2>2. n_look_for \in Nat
    BY <1>1 DEF TypeOK
  <2>. QED
    BY <1>2, <2>1, <2>2 DEF Claims, Last
<1>6. FalseOnesOverlap'
  BY <1>1, <1>2 DEF FalseOnesOverlap, OccursAt, Last
<1>. QED
  BY <1>3, <1>4, <1>5, <1>6 DEF IInv

(* One more byte is matched. *)
LEMMA AdvanceIInv ==
  ASSUME IInv, Advance
  PROVE  IInv'
<1>. USE BgrepAssumption
<1>1. /\ TypeOK /\ LinkSound(look_for, n_look_for, look_for_link)
      /\ Claims /\ FalseOnesOverlap
  BY DEF IInv
<1>2. /\ pc = "match" /\ input[Len(input)] = look_for[p] /\ p # 0
      /\ p' = p - 1 /\ pc' = "read"
      /\ n_look_for' = n_look_for /\ look_for' = look_for
      /\ look_for_link' = look_for_link /\ o' = o
      /\ input' = input /\ printed' = printed
  BY DEF Advance, pattern, Expected, Current
<1>. DEFINE n == n_look_for
<1>3. n \in Nat /\ n > 0 /\ p \in 0..(n - 1) /\ p > 0 /\ Len(input) \in Nat
  BY <1>1, <1>2 DEF TypeOK
<1>4. TypeOK'
  <2>1. p' \in 0..(n_look_for' - 1)
    BY <1>2, <1>3
  <2>. QED
    BY <1>1, <1>2, <2>1 DEF TypeOK
<1>5. LinkSound(look_for, n_look_for, look_for_link)'
  BY <1>1, <1>2 DEF LinkSound
<1>6. Matched = Len(input) - 1 /\ Matched' = Len(input)
  BY <1>2 DEF Matched
<1>7. Base' = Base /\ Base \in Nat
  BY <1>1, <1>2, BaseType DEF Base
<1>8. ASSUME NEW k \in 0..(n - 1), k > p - 1, Len(input) - (k - p) > Base
      PROVE  input[Len(input) - (k - p)] = look_for[k]
  <2>1. CASE k = p
    BY <2>1, <1>2, <1>3
  <2>2. CASE k > p
    <3>1. Matched - (k - p - 1) = Len(input) - (k - p)
      BY <1>3, <1>6
    <3>. QED
      BY <2>2, <3>1, <1>8, <1>1 DEF Claims, Last
  <2>. QED
    BY <2>1, <2>2, <1>3, <1>8
<1>9. Claims'
  <2>1. (Last(n_look_for) - p <= Matched)'
    BY <1>1, <1>2, <1>3, <1>6 DEF Claims, Last
  <2>2. ASSUME NEW k \in 0..(n - 1), k > p - 1,
               Len(input) - (k - (p - 1) - 1) > Base
        PROVE  input[Len(input) - (k - (p - 1) - 1)] = look_for[k]
    <3>1. k - (p - 1) - 1 = k - p
      BY <1>3
    <3>. QED
      BY <1>8, <2>2, <3>1
  <2>. QED
    BY <2>1, <2>2, <1>2, <1>6, <1>7 DEF Claims, Last
<1>10. FalseOnesOverlap'
  BY <1>1, <1>2 DEF FalseOnesOverlap, OccursAt, Last
<1>. QED
  BY <1>4, <1>5, <1>9, <1>10 DEF IInv

(* The address found is right unless it lies before the end of the one     *)
(* printed last; and p promises nothing that lies before its own end.      *)
LEMMA FoundIInv ==
  ASSUME IInv, Found
  PROVE  IInv'
<1>. USE BgrepAssumption
<1>1. /\ TypeOK /\ LinkSound(look_for, n_look_for, look_for_link)
      /\ Claims /\ FalseOnesOverlap
  BY DEF IInv
<1>. DEFINE n == n_look_for
            a == o - n
            l == look_for_link[0]
<1>2. /\ pc = "match" /\ input[Len(input)] = look_for[0] /\ p = 0
      /\ p' = l /\ pc' = "read" /\ printed' = Append(printed, a)
      /\ n_look_for' = n_look_for /\ look_for' = look_for
      /\ look_for_link' = look_for_link /\ o' = o /\ input' = input
  BY DEF Found, pattern, Expected, Current
<1>3. n \in Nat /\ n > 0 /\ o \in Nat /\ o = Len(input) /\ printed \in Seq(Nat)
  BY <1>1 DEF TypeOK
<1>4. Matched = o - 1 /\ Matched' = o
  BY <1>2, <1>3 DEF Matched
<1>5. a \in Nat
  BY <1>1, <1>2, <1>3, <1>4 DEF Claims, Last
<1>6. l \in 0..(n - 1)
  BY <1>1, <1>3 DEF LinkSound
<1>7. /\ printed' \in Seq(Nat) /\ Len(printed') = Len(printed) + 1
      /\ printed'[Len(printed')] = a
      /\ Len(printed) \in Nat
      /\ DOMAIN printed = 1..Len(printed)
      /\ DOMAIN printed' = 1..(Len(printed) + 1)
      /\ \A i \in DOMAIN printed : printed'[i] = printed[i]
  BY <1>2, <1>3, <1>5
<1>8. TypeOK'
  BY <1>1, <1>2, <1>6, <1>7 DEF TypeOK
<1>9. LinkSound(look_for, n_look_for, look_for_link)'
  BY <1>1, <1>2 DEF LinkSound
<1>10. Base' = o
  <2>1. printed' # << >>
    BY <1>7
  <2>. QED
    BY <2>1, <1>2, <1>3, <1>7 DEF Base
<1>11. Claims'
  <2>1. (Last(n_look_for) - p <= Matched)'
    BY <1>2, <1>3, <1>4, <1>5, <1>6 DEF Last
  <2>2. \A k \in 0..(n - 1) : k > l => ~ (o - (k - l - 1) > o)
    BY <1>3, <1>6
  <2>. QED
    BY <2>1, <2>2, <1>2, <1>4, <1>10 DEF Claims, Last
<1>12. a >= Base => OccursAt(a)
  <2>. SUFFICES ASSUME a >= Base PROVE OccursAt(a)
    OBVIOUS
  <2>1. Base \in Nat
    BY <1>1, BaseType
  <2>2. ASSUME NEW k \in 0..(n - 1)
        PROVE  input[a + 1 + k] = look_for[n - 1 - k]
    <3>1. CASE k = n - 1
      BY <3>1, <1>2, <1>3
    <3>2. CASE k < n - 1
      <4>. DEFINE j == n - 1 - k
      <4>1. j \in 0..(n - 1) /\ j > 0 /\ Matched - (j - 0 - 1) = a + 1 + k
        BY <3>2, <1>3, <1>4
      <4>2. Matched - (j - 0 - 1) > Base
        BY <4>1, <2>1, <1>5
      <4>. QED
        BY <4>1, <4>2, <1>1, <1>2 DEF Claims, Last
    <3>. QED
      BY <3>1, <3>2, <1>3
  <2>. QED
    BY <2>2, <1>3 DEF OccursAt, Last
<1>13. FalseOnesOverlap'
  <2>. SUFFICES ASSUME NEW i \in 1..(Len(printed) + 1)
                PROVE  \/ OccursAt(printed'[i])
                       \/ i > 1 /\ printed'[i] < printed'[i - 1] + n
    BY <1>2, <1>7 DEF FalseOnesOverlap, OccursAt, Last
  <2>1. CASE i <= Len(printed)
    <3>1. i \in DOMAIN printed /\ printed'[i] = printed[i]
      BY <2>1, <1>7
    <3>2. i > 1 => printed'[i - 1] = printed[i - 1]
      BY <3>1, <1>7
    <3>. QED
      BY <3>1, <3>2, <1>1 DEF FalseOnesOverlap
  <2>2. CASE i = Len(printed) + 1
    <3>1. printed'[i] = a
      BY <2>2, <1>7
    <3>2. CASE a >= Base
      BY <3>1, <3>2, <1>12
    <3>3. CASE a < Base
      <4>1. printed # << >>
        BY <3>3, <1>5 DEF Base
      <4>2. Len(printed) > 0
        BY <4>1, <1>3, EmptySeq
      <4>3. printed'[i - 1] = printed[Len(printed)]
        BY <2>2, <4>2, <1>7
      <4>4. a < printed[Len(printed)] + n
        BY <3>3, <4>1 DEF Base
      <4>. QED
        BY <2>2, <3>1, <4>2, <4>3, <4>4, <1>7
    <3>4. Base \in Nat
      BY <1>1, BaseType
    <3>. QED
      BY <3>2, <3>3, <3>4, <1>5
  <2>. QED
    BY <2>1, <2>2, <1>7
<1>. QED
  BY <1>8, <1>9, <1>11, <1>13 DEF IInv

(* At the end of the input nothing but pc changes. *)
LEMMA EndOfInputIInv ==
  ASSUME IInv, EndOfInput
  PROVE  IInv'
<1>1. /\ pc = "read" /\ pc' = "end"
      /\ n_look_for' = n_look_for /\ look_for' = look_for
      /\ look_for_link' = look_for_link /\ p' = p /\ o' = o
      /\ input' = input /\ printed' = printed
  BY DEF EndOfInput, pattern
<1>2. Matched' = Matched /\ Base' = Base
  BY <1>1 DEF Matched, Base
<1>3. TypeOK'
  BY <1>1 DEF IInv, TypeOK
<1>4. LinkSound(look_for, n_look_for, look_for_link)'
  BY <1>1 DEF IInv, LinkSound
<1>5. Claims'
  BY <1>1, <1>2 DEF IInv, Claims, Last
<1>6. FalseOnesOverlap'
  BY <1>1 DEF IInv, FalseOnesOverlap, OccursAt, Last
<1>. QED
  BY <1>3, <1>4, <1>5, <1>6 DEF IInv

LEMMA StepIInv == IInv /\ [Next]_vars => IInv'
<1>. SUFFICES ASSUME IInv, [Next]_vars PROVE IInv'
  OBVIOUS
<1>1. CASE Read
  BY <1>1, ReadIInv
<1>2. CASE EndOfInput
  BY <1>2, EndOfInputIInv
<1>3. CASE Follow
  BY <1>3, FollowIInv
<1>4. CASE Mismatch
  BY <1>4, MismatchIInv
<1>5. CASE Advance
  BY <1>5, AdvanceIInv
<1>6. CASE Found
  BY <1>6, FoundIInv
<1>7. CASE UNCHANGED vars
  BY <1>7 DEF vars, pattern, IInv, TypeOK, LinkSound, Claims, Matched, Base,
              FalseOnesOverlap, OccursAt, Last
<1>. QED
  BY <1>1, <1>2, <1>3, <1>4, <1>5, <1>6, <1>7 DEF Next, Match, Stopped

THEOREM Invariance == Spec => []IInv
<1>1. Init => IInv
  BY InitIInv
<1>2. IInv /\ [Next]_vars => IInv'
  BY StepIInv
<1>. QED
  BY <1>1, <1>2, PTL DEF Spec

(* Type correctness: p never leaves look_for (main, bgrep.c:138-154), and  *)
(* an address printed is never negative.                                   *)
THEOREM TypeCorrect == Spec => []TypeOK
<1>1. IInv => TypeOK
  BY DEF IInv
<1>. QED
  BY <1>1, Invariance, PTL

(* Whatever is looked for, and wherever: an address printed at which the   *)
(* bytes are not lies inside the one printed just before.                  *)
THEOREM FalseOnlyInsideAnother == Spec => []FalseOnesOverlap
<1>1. IInv => FalseOnesOverlap
  BY DEF IInv
<1>. QED
  BY <1>1, Invariance, PTL

-----------------------------------------------------------------------------
(* Up to the first occurrence the search is exact: p says how much of the   *)
(* bytes looked for ends the input, and nothing was passed over.            *)

LEMMA LinksLongest ==
  ASSUME TypeOK, look_for_link = Links(look_for, n_look_for)
  PROVE  LinksAreLongest
<1>. DEFINE n == n_look_for
<1>0. n \in Nat /\ n > 0
  BY BgrepAssumption DEF TypeOK
<1>. SUFFICES ASSUME NEW i \in 0..(n - 1)
              PROVE  /\ look_for_link[i] > i \/ look_for_link[i] = n - 1
                     /\ \A j \in (i + 1)..(n - 1) :
                          SameTail(look_for, n, i, j + 1) => look_for_link[i] <= j
                     /\ SameTail(look_for, n, i, look_for_link[i] + 1)
  BY DEF LinksAreLongest, Last
<1>. DEFINE J == {j \in (i + 2)..(n - 1) : SameTail(look_for, n, i, j)}
<1>1. look_for_link[i] = IF J = {} THEN n - 1 ELSE Min(J) - 1
  BY DEF Links
<1>2. J \in SUBSET Nat
  BY <1>0
<1>3. \A j \in (i + 1)..(n - 1) : SameTail(look_for, n, i, j + 1) => j = n - 1 \/ j + 1 \in J
  BY <1>0
<1>4. CASE J = {}
  <2>1. look_for_link[i] = n - 1
    BY <1>1, <1>4
  <2>2. SameTail(look_for, n, i, n)
    BY <1>0 DEF SameTail
  <2>. HIDE DEF J
  <2>. QED
    BY <1>0, <1>3, <1>4, <2>1, <2>2
<1>5. CASE J # {}
  <2>1. Min(J) \in J /\ \A j \in J : Min(J) <= j
    BY <1>2, <1>5, MinIn
  <2>2. Min(J) \in (i + 2)..(n - 1) /\ SameTail(look_for, n, i, Min(J))
    BY <2>1
  <2>3. look_for_link[i] = Min(J) - 1
    BY <1>1, <1>5
  <2>. HIDE DEF J
  <2>4. look_for_link[i] + 1 = Min(J)
    BY <1>0, <2>2, <2>3
  <2>5. \A j \in (i + 1)..(n - 1) : SameTail(look_for, n, i, j + 1) => look_for_link[i] <= j
    BY <1>0, <1>3, <2>1, <2>2, <2>3
  <2>. QED
    BY <1>0, <2>2, <2>3, <2>4, <2>5
<1>. QED
  BY <1>4, <1>5

(* What ends the input with its last byte ended it before with one byte     *)
(* less, and the last byte continued it.                                    *)
LEMMA HoldsBefore ==
  ASSUME IInv, pc = "match", pc' # "match", UNCHANGED <<pattern, input>>,
         NEW i \in 0..(n_look_for - 2), HoldsAt(i)'
  PROVE  HoldsAt(i + 1) /\ look_for[i + 1] = Current
<1>. DEFINE n == n_look_for
<1>1. n \in Nat /\ Len(input) \in Nat /\ Len(input) > 0
  BY BgrepAssumption DEF IInv, TypeOK, Claims
<1>2. Matched = Len(input) - 1 /\ Matched' = Len(input)
  BY DEF Matched
<1>3. /\ n - 1 - i <= Len(input)
      /\ \A k \in (i + 1)..(n - 1) : input[Len(input) - (k - i - 1)] = look_for[k]
  BY <1>2 DEF HoldsAt, Last, pattern
<1>4. look_for[i + 1] = input[Len(input)]
  <2>1. i + 1 \in (i + 1)..(n - 1) /\ Len(input) - ((i + 1) - i - 1) = Len(input)
    BY <1>1
  <2>. QED
    BY <1>3, <2>1
<1>5. \A k \in (i + 2)..(n - 1) : input[Len(input) - 1 - (k - (i + 1) - 1)] = look_for[k]
  BY <1>1, <1>3
<1>. QED
  BY <1>1, <1>2, <1>3, <1>4, <1>5 DEF HoldsAt, Last, Current

(* An occurrence that ends the input was all but its last byte before.      *)
LEMMA OccursBefore ==
  ASSUME IInv, pc = "match", NEW a \in Nat, a + n_look_for = Len(input), OccursAt(a)
  PROVE  HoldsAt(0) /\ look_for[0] = Current
<1>. DEFINE n == n_look_for
<1>1. n \in Nat /\ n > 0 /\ Len(input) \in Nat
  BY BgrepAssumption DEF IInv, TypeOK
<1>2. Matched = Len(input) - 1
  BY DEF Matched
<1>3. \A k \in 0..(n - 1) : input[a + 1 + k] = look_for[n - 1 - k]
  BY DEF OccursAt, Last
<1>4. \A j \in 0..(n - 1) : input[Len(input) - j] = look_for[j]
  <2>. SUFFICES ASSUME NEW j \in 0..(n - 1) PROVE input[Len(input) - j] = look_for[j]
    OBVIOUS
  <2>1. n - 1 - j \in 0..(n - 1) /\ a + 1 + (n - 1 - j) = Len(input) - j /\ n - 1 - (n - 1 - j) = j
    BY <1>1
  <2>. QED
    BY <1>3, <2>1
<1>5. look_for[0] = input[Len(input)]
  BY <1>1, <1>4
<1>6. \A k \in 1..(n - 1) : input[Len(input) - 1 - (k - 0 - 1)] = look_for[k]
  BY <1>1, <1>4
<1>. QED
  BY <1>1, <1>2, <1>5, <1>6 DEF HoldsAt, Last, Current

(* An occurrence within what was read is none of the bytes that follow.     *)
LEMMA OccursWas ==
  ASSUME NEW a \in Nat, OccursAt(a)', a + n_look_for <= Len(input),
         n_look_for \in Nat, n_look_for' = n_look_for, look_for' = look_for, Len(input) \in Nat,
         \A q \in 1..Len(input) : input'[q] = input[q]
  PROVE  OccursAt(a)
<1>1. \A k \in 0..(n_look_for - 1) : a + 1 + k \in 1..Len(input)
  OBVIOUS
<1>2. \A k \in 0..(n_look_for - 1) : input'[a + 1 + k] = look_for[n_look_for - 1 - k]
  BY DEF OccursAt, Last
<1>. QED
  BY <1>1, <1>2 DEF OccursAt, Last

(* No longer part of the bytes looked for ends the input, or would with the *)
(* byte being matched; no occurrence was passed; the first one printed is   *)
(* the first there is.                                                      *)
NoneLonger ==
  \A i \in 0..(p - 1) : HoldsAt(i) => pc = "match" /\ look_for[i] # Current
NoneBefore == \A a \in Nat : a + n_look_for <= Matched => ~OccursAt(a)
FirstIsLeast ==
  /\ printed[1] \in Nat /\ OccursAt(printed[1])
  /\ \A a \in Nat : a < printed[1] => ~OccursAt(a)
EInv ==
  /\ LinksAreLongest
  /\ printed = << >> => HoldsAt(p) /\ NoneLonger /\ NoneBefore
  /\ printed # << >> => FirstIsLeast

LEMMA ReadExact ==
  ASSUME IInv, EInv, Read
  PROVE  EInv'
<1>. DEFINE n == n_look_for
<1>1. PICK byte \in Bytes : input' = Append(input, byte)
  BY DEF Read
<1>2. /\ n \in Nat /\ n > 0 /\ p \in 0..(n - 1) /\ input \in Seq(Bytes) /\ Len(input) \in Nat
      /\ Last(n) - p <= Matched
  BY BgrepAssumption DEF IInv, TypeOK, Claims
<1>3. /\ Len(input') = Len(input) + 1
      /\ \A q \in 1..Len(input) : input'[q] = input[q]
  BY <1>1, <1>2
<1>4. /\ Matched = Len(input) /\ Matched' = Len(input) /\ pc = "read" /\ p' = p /\ printed' = printed
      /\ n' = n /\ look_for' = look_for /\ look_for_link' = look_for_link
  BY <1>2, <1>3 DEF Read, Matched, pattern
<1>5. \A i \in 0..(n - 1) : HoldsAt(i)' <=> HoldsAt(i)
  <2>. SUFFICES ASSUME NEW i \in 0..(n - 1), n - 1 - i <= Len(input)
                PROVE  \A k \in (i + 1)..(n - 1) :
                         input'[Len(input) - (k - i - 1)] = input[Len(input) - (k - i - 1)]
    BY <1>2, <1>4 DEF HoldsAt, Last
  <2>1. \A k \in (i + 1)..(n - 1) : Len(input) - (k - i - 1) \in 1..Len(input)
    BY <1>2
  <2>. QED
    BY <1>3, <2>1
<1>6. \A a \in Nat : a + n <= Len(input) => (OccursAt(a)' => OccursAt(a))
  BY <1>2, <1>3, <1>4, OccursWas
<1>7. LinksAreLongest'
  BY <1>4 DEF EInv, LinksAreLongest, SameTail, Last
<1>8. CASE printed = << >>
  <2>1. HoldsAt(p)' /\ NoneLonger'
    BY <1>2, <1>4, <1>5, <1>8 DEF EInv, NoneLonger
  <2>2. NoneBefore'
    BY <1>2, <1>4, <1>6, <1>8 DEF EInv, NoneBefore
  <2>. QED
    BY <1>4, <1>7, <1>8, <2>1, <2>2 DEF EInv
<1>9. CASE printed # << >>
  <2>1. OccursAt(printed[1])'
    BY <1>2, <1>3, <1>4, <1>9, OccursStays DEF EInv, FirstIsLeast
  <2>2. printed[1] + n <= Len(input)
    BY <1>9 DEF EInv, FirstIsLeast, OccursAt
  <2>3. \A a \in Nat : a < printed[1] => ~OccursAt(a)'
    BY <1>2, <1>6, <1>9, <2>2 DEF EInv, FirstIsLeast
  <2>. QED
    BY <1>4, <1>7, <1>9, <2>1, <2>3 DEF EInv, FirstIsLeast
<1>. QED
  BY <1>8, <1>9

(* A link passes over nothing that could still become an occurrence.        *)
LEMMA FollowExact ==
  ASSUME IInv, EInv, Follow
  PROVE  EInv'
<1>. DEFINE n == n_look_for
            l == look_for_link[p]
<1>1. /\ n \in Nat /\ n > 0 /\ p \in 0..(n - 1) /\ l \in 0..(n - 1) /\ Matched \in Nat
  BY BgrepAssumption DEF IInv, TypeOK, Claims, Matched
<1>2. /\ pc = "match" /\ pc' = pc /\ p # n - 1 /\ look_for[p] # Current /\ p' = l
      /\ printed' = printed /\ input' = input /\ UNCHANGED pattern
  BY DEF Follow, Expected, Last
<1>3. /\ \A i : HoldsAt(i)' <=> HoldsAt(i)
      /\ \A a : OccursAt(a)' <=> OccursAt(a)
      /\ Matched' = Matched /\ Current' = Current
  BY <1>2 DEF HoldsAt, OccursAt, Matched, Last, pattern, Current
<1>4. LinksAreLongest'
  BY <1>2 DEF EInv, LinksAreLongest, SameTail, Last, pattern
<1>5. /\ l > p
      /\ \A j \in (p + 1)..(n - 1) : SameTail(look_for, n, p, j + 1) => l <= j
      /\ SameTail(look_for, n, p, l + 1)
  BY <1>1, <1>2 DEF EInv, LinksAreLongest, Last
<1>6. ASSUME HoldsAt(p)
      PROVE  HoldsAt(l) /\ \A i \in (p + 1)..(l - 1) : ~HoldsAt(i)
  <2>1. \A k \in (p + 1)..(n - 1) : input[Matched - (k - p - 1)] = look_for[k]
    BY <1>6 DEF HoldsAt, Last
  <2>2. \A k \in 0..(n - 2 - p) : input[Matched - k] = look_for[p + 1 + k]
    <3>. SUFFICES ASSUME NEW k \in 0..(n - 2 - p) PROVE input[Matched - k] = look_for[p + 1 + k]
      OBVIOUS
    <3>1. p + 1 + k \in (p + 1)..(n - 1) /\ Matched - ((p + 1 + k) - p - 1) = Matched - k
      BY <1>1
    <3>. QED
      BY <2>1, <3>1
  <2>3. HoldsAt(l)
    <3>1. n - 1 - l <= Matched
      BY <1>1, <1>5, <1>6 DEF HoldsAt, Last
    <3>2. ASSUME NEW k \in (l + 1)..(n - 1)
          PROVE  input[Matched - (k - l - 1)] = look_for[k]
      <4>1. k - l - 1 \in 0..(n - 2 - p) /\ k - l - 1 \in 0..(n - 1 - (l + 1)) /\ l + 1 + (k - l - 1) = k
        BY <1>1, <1>5
      <4>2. look_for[p + 1 + (k - l - 1)] = look_for[l + 1 + (k - l - 1)]
        BY <1>5, <4>1 DEF SameTail
      <4>. QED
        BY <2>2, <4>1, <4>2
    <3>. QED
      BY <3>1, <3>2 DEF HoldsAt, Last
  <2>4. ASSUME NEW i \in (p + 1)..(l - 1), HoldsAt(i)
        PROVE  FALSE
    <3>1. \A k \in (i + 1)..(n - 1) : input[Matched - (k - i - 1)] = look_for[k]
      BY <2>4 DEF HoldsAt, Last
    <3>2. ASSUME NEW k \in 0..(n - 1 - (i + 1))
          PROVE  look_for[p + 1 + k] = look_for[i + 1 + k]
      <4>1. /\ i + 1 + k \in (i + 1)..(n - 1) /\ Matched - ((i + 1 + k) - i - 1) = Matched - k
            /\ k \in 0..(n - 2 - p)
        BY <1>1
      <4>. QED
        BY <2>2, <3>1, <4>1
    <3>3. SameTail(look_for, n, p, i + 1)
      BY <3>2 DEF SameTail
    <3>. QED
      BY <1>1, <1>5, <3>3
  <2>. QED
    BY <2>3, <2>4
<1>7. CASE printed = << >>
  <2>1. HoldsAt(p) /\ NoneLonger /\ NoneBefore
    BY <1>7 DEF EInv
  <2>2. HoldsAt(p)'
    <3>1. HoldsAt(l)
      BY <1>6, <2>1
    <3>. QED
      BY <1>2, <3>1 DEF HoldsAt, Last, pattern, Matched
  <2>3. ASSUME NEW i \in 0..(l - 1), HoldsAt(i)
        PROVE  look_for[i] # Current
    <3>1. CASE i < p
      BY <1>1, <2>1, <2>3, <3>1 DEF NoneLonger
    <3>2. CASE i = p
      BY <1>2, <3>2
    <3>3. CASE i > p
      BY <1>1, <1>6, <2>1, <2>3, <3>3
    <3>. QED
      BY <1>1, <3>1, <3>2, <3>3
  <2>4. NoneLonger' /\ NoneBefore'
    BY <1>1, <1>2, <1>3, <2>1, <2>3 DEF NoneLonger, NoneBefore, pattern
  <2>. QED
    BY <1>2, <1>4, <1>7, <2>2, <2>4 DEF EInv
<1>8. CASE printed # << >>
  BY <1>2, <1>3, <1>4, <1>8 DEF EInv, FirstIsLeast
<1>. QED
  BY <1>7, <1>8

(* A byte that ends nothing looked for ends no occurrence, and what it ends *)
(* now it continued before.                                                 *)
LEMMA TakenExact ==
  ASSUME IInv, EInv, printed = << >>, pc = "match", pc' = "read", UNCHANGED <<pattern, input, printed>>,
         \/ p = Last(n_look_for) /\ ~Expected /\ p' = p
         \/ p # 0 /\ Expected /\ p' = p - 1
  PROVE  EInv'
<1>. DEFINE n == n_look_for
<1>1. /\ n \in Nat /\ n > 0 /\ p \in 0..(n - 1) /\ Len(input) \in Nat /\ Len(input) > 0
      /\ Matched = Len(input) - 1 /\ Matched' = Len(input)
  BY BgrepAssumption DEF IInv, TypeOK, Claims, Matched
<1>2. HoldsAt(p) /\ NoneLonger /\ NoneBefore
  BY DEF EInv
<1>3. LinksAreLongest'
  BY DEF EInv, LinksAreLongest, SameTail, Last, pattern
<1>4. ASSUME NEW i \in 0..(n - 1), i < p, HoldsAt(i), look_for[i] = Current
      PROVE  FALSE
  BY <1>1, <1>2, <1>4 DEF NoneLonger
<1>5. HoldsAt(p)'
  <2>1. CASE p = n - 1 /\ p' = p
    <3>1. \A k \in (p + 1)..(n - 1) : FALSE
      BY <1>1, <2>1
    <3>. QED
      BY <1>1, <2>1, <3>1 DEF HoldsAt, Last, pattern
  <2>2. CASE p # 0 /\ Expected /\ p' = p - 1
    <3>1. \A k \in (p + 1)..(n - 1) : input[Matched - (k - p - 1)] = look_for[k]
      BY <1>2 DEF HoldsAt, Last
    <3>2. n - 1 - p <= Matched
      BY <1>2 DEF HoldsAt, Last
    <3>3. ASSUME NEW k \in p..(n - 1)
          PROVE  input[Len(input) - (k - (p - 1) - 1)] = look_for[k]
      <4>1. CASE k = p
        <5>1. Len(input) - (p - (p - 1) - 1) = Len(input)
          BY <1>1
        <5>. QED
          BY <2>2, <4>1, <5>1 DEF Expected, Current
      <4>2. CASE k > p
        <5>1. k \in (p + 1)..(n - 1) /\ Len(input) - (k - (p - 1) - 1) = Matched - (k - p - 1)
          BY <1>1, <4>2
        <5>. QED
          BY <3>1, <5>1
      <4>. QED
        BY <1>1, <4>1, <4>2
    <3>4. p - 1 + 1 = p /\ n - 1 - (p - 1) <= Len(input)
      BY <1>1, <3>2
    <3>. QED
      BY <1>1, <2>2, <3>3, <3>4 DEF HoldsAt, Last, pattern
  <2>. QED
    BY <2>1, <2>2 DEF Last
<1>6. ASSUME NEW i \in 0..(p' - 1), HoldsAt(i)'
      PROVE  FALSE
  <2>1. i \in 0..(n - 2) /\ (i + 1 < p \/ (i + 1 = n - 1 /\ p = n - 1 /\ ~Expected))
    BY <1>1 DEF Last
  <2>2. HoldsAt(i + 1) /\ look_for[i + 1] = Current
    BY <1>6, <2>1, HoldsBefore
  <2>3. CASE i + 1 < p
    BY <1>1, <1>4, <2>1, <2>2, <2>3
  <2>4. CASE i + 1 = n - 1 /\ p = n - 1 /\ ~Expected
    BY <2>2, <2>4 DEF Expected
  <2>. QED
    BY <2>1, <2>3, <2>4
<1>7. ASSUME NEW a \in Nat, a + n <= Len(input), OccursAt(a)
      PROVE  FALSE
  <2>1. a + n = Len(input)
    BY <1>1, <1>2, <1>7 DEF NoneBefore
  <2>2. HoldsAt(0) /\ look_for[0] = Current
    BY <1>7, <2>1, OccursBefore
  <2>3. p = 0
    BY <1>1, <1>4, <2>2
  <2>. QED
    BY <2>2, <2>3 DEF Expected
<1>8. NoneLonger' /\ NoneBefore'
  <2>1. \A a : OccursAt(a)' <=> OccursAt(a)
    BY DEF OccursAt, Last, pattern
  <2>. QED
    BY <1>1, <1>6, <1>7, <2>1 DEF NoneLonger, NoneBefore, pattern
<1>. QED
  BY <1>3, <1>5, <1>8 DEF EInv

(* The first address printed is that of an occurrence, the only one so far. *)
LEMMA FoundExact ==
  ASSUME IInv, EInv, printed = << >>, Found
  PROVE  EInv'
<1>. DEFINE n == n_look_for
            a == o - n
<1>1. /\ n \in Nat /\ n > 0 /\ o = Len(input) /\ o \in Nat /\ p = 0 /\ input[o] = look_for[0]
      /\ Matched = o - 1 /\ printed' = <<a>> /\ UNCHANGED <<pattern, input>>
  BY BgrepAssumption DEF IInv, TypeOK, Found, Matched, Expected, Current
<1>n. n \in Nat /\ n > 0 /\ o \in Nat
  BY <1>1
<1>2. /\ n - 1 <= o - 1
      /\ \A k \in 1..(n - 1) : input[o - 1 - (k - 0 - 1)] = look_for[k]
  BY <1>1 DEF EInv, HoldsAt, Last
<1>3. a \in Nat
  BY <1>1, <1>2
<1>4. ASSUME NEW k \in 0..(n - 1)
      PROVE  input[a + 1 + k] = look_for[n - 1 - k]
  <2>1. CASE k = n - 1
    BY <1>1, <2>1
  <2>2. CASE k # n - 1
    <3>1. n - 1 - k \in 1..(n - 1) /\ o - 1 - ((n - 1 - k) - 0 - 1) = a + 1 + k
      BY <1>n, <2>2
    <3>. QED
      BY <1>2, <3>1
  <2>. QED
    BY <2>1, <2>2
<1>5. OccursAt(a)
  BY <1>1, <1>4 DEF OccursAt, Last
<1>6. \A b \in Nat : b < a => ~OccursAt(b)
  <2>1. \A b \in Nat : b < a => b + n <= Matched
    BY <1>n, <1>1
  <2>2. NoneBefore
    BY DEF EInv
  <2>. QED
    BY <2>1, <2>2 DEF NoneBefore
<1>7. \A b : OccursAt(b)' <=> OccursAt(b)
  BY <1>1 DEF OccursAt, Last, pattern
<1>8. printed'[1] = a /\ printed' # << >>
  BY <1>1
<1>9. LinksAreLongest'
  BY <1>1 DEF EInv, LinksAreLongest, SameTail, Last, pattern
<1>10. FirstIsLeast'
  BY <1>3, <1>5, <1>6, <1>7, <1>8 DEF FirstIsLeast
<1>. QED
  BY <1>8, <1>9, <1>10 DEF EInv

(* Once something is printed the first address stays what it is.            *)
LEMMA PrintedExact ==
  ASSUME IInv, EInv, printed # << >>, UNCHANGED <<pattern, input>>,
         printed' # << >>, printed'[1] = printed[1]
  PROVE  EInv'
<1>1. \A b : OccursAt(b)' <=> OccursAt(b)
  BY DEF OccursAt, Last, pattern
<1>2. LinksAreLongest'
  BY DEF EInv, LinksAreLongest, SameTail, Last, pattern
<1>. QED
  BY <1>1, <1>2 DEF EInv, FirstIsLeast

LEMMA StepExact ==
  ASSUME IInv, EInv, [Next]_vars
  PROVE  EInv'
<1>1. CASE Read
  BY <1>1, ReadExact
<1>2. CASE Follow
  BY <1>2, FollowExact
<1>3. CASE Mismatch \/ Advance
  <2>1. CASE printed = << >>
    BY <1>3, <2>1, TakenExact DEF Mismatch, Advance, pattern
  <2>2. CASE printed # << >>
    BY <1>3, <2>2, PrintedExact DEF Mismatch, Advance, pattern
  <2>. QED
    BY <2>1, <2>2
<1>4. CASE Found
  <2>1. CASE printed = << >>
    BY <1>4, <2>1, FoundExact
  <2>2. CASE printed # << >>
    <3>1. printed \in Seq(Nat) /\ printed' = Append(printed, o - n_look_for) /\ Len(printed) > 0
      BY <1>4, <2>2 DEF IInv, TypeOK, Found
    <3>2. printed' # << >> /\ printed'[1] = printed[1]
      BY <3>1
    <3>. QED
      BY <1>4, <2>2, <3>2, PrintedExact DEF Found, pattern
  <2>. QED
    BY <2>1, <2>2
<1>5. CASE EndOfInput \/ UNCHANGED vars
  <2>1. /\ UNCHANGED <<pattern, p, input, printed>> /\ (pc' = pc \/ (pc = "read" /\ pc' = "end"))
    BY <1>5 DEF EndOfInput, vars, pattern
  <2>2. Matched' = Matched /\ Current' = Current
    BY <2>1 DEF Matched, Current
  <2>3. \A b : (OccursAt(b)' <=> OccursAt(b)) /\ (HoldsAt(b)' <=> HoldsAt(b))
    BY <2>1, <2>2 DEF OccursAt, HoldsAt, Last, pattern
  <2>4. HoldsAt(p)' <=> HoldsAt(p)
    BY <2>1, <2>2 DEF HoldsAt, Last, pattern
  <2>5. LinksAreLongest'
    BY <2>1 DEF EInv, LinksAreLongest, SameTail, Last, pattern
  <2>6. NoneLonger => NoneLonger'
    <3>1. pc = "match" => pc' = "match"
      BY <2>1
    <3>. QED
      BY <2>1, <2>2, <2>3, <3>1 DEF NoneLonger, pattern
  <2>7. (NoneBefore => NoneBefore') /\ (printed # << >> /\ FirstIsLeast => FirstIsLeast')
    BY <2>1, <2>2, <2>3 DEF NoneBefore, FirstIsLeast, pattern
  <2>. QED
    BY <2>1, <2>4, <2>5, <2>6, <2>7 DEF EInv
<1>. QED
  BY <1>1, <1>2, <1>3, <1>4, <1>5 DEF Next, Match, Stopped

LEMMA InitExact == Init => EInv
<1>. SUFFICES ASSUME Init PROVE EInv
  OBVIOUS
<1>1. TypeOK
  BY InitIInv DEF IInv
<1>2. LinksAreLongest
  BY <1>1, LinksLongest DEF Init
<1>3. n_look_for \in Nat /\ n_look_for > 0 /\ p = n_look_for - 1 /\ Matched = 0 /\ Len(input) = 0
  BY BgrepAssumption DEF Init, Last, Matched
<1>4. HoldsAt(p)
  BY <1>3 DEF HoldsAt, Last
<1>5. NoneLonger /\ NoneBefore
  BY <1>3 DEF NoneLonger, NoneBefore, HoldsAt, Last
<1>. QED
  BY <1>2, <1>4, <1>5 DEF EInv, Init

LEMMA Exactness == Spec => []EInv
<1>1. IInv /\ EInv /\ [Next]_vars => EInv'
  BY StepExact
<1>. QED
  BY <1>1, InitExact, Invariance, PTL DEF Spec

(* make_kmp_links finds, for every bytes to look for, the longest part of   *)
(* what is matched that is again a beginning of them.                       *)
THEOREM LinksCorrect == Spec => []LinksAreLongest
<1>1. EInv => LinksAreLongest
  BY DEF EInv
<1>. QED
  BY <1>1, Exactness, PTL

(* Up to the first occurrence p is exactly how much of the bytes looked for *)
(* ends the input.                                                          *)
THEOREM StateCorrect == Spec => []StateIsLongest
<1>1. EInv => StateIsLongest
  BY DEF EInv, NoneLonger, StateIsLongest
<1>. QED
  BY <1>1, Exactness, PTL

(* The first address printed is the first occurrence, and none is passed    *)
(* over before it, for every bytes to look for and every input.             *)
THEOREM FirstCorrect == Spec => []FirstIsExact
<1>1. IInv /\ EInv => FirstIsExact
  <2>. SUFFICES ASSUME IInv, EInv, pc # "match"
                PROVE  /\ printed = << >> => Occurrences = {}
                       /\ printed # << >> => printed[1] = Min(Occurrences)
    BY DEF FirstIsExact
  <2>1. n_look_for \in Nat /\ Len(input) \in Nat /\ Matched = Len(input)
    BY BgrepAssumption DEF IInv, TypeOK, Matched
  <2>2. ASSUME printed = << >>
        PROVE  Occurrences = {}
    BY <2>1, <2>2 DEF EInv, NoneBefore, Occurrences
  <2>3. ASSUME printed # << >>
        PROVE  printed[1] = Min(Occurrences)
    <3>1. FirstIsLeast
      BY <2>3 DEF EInv
    <3>2. Occurrences \in SUBSET Nat
      BY <2>1 DEF Occurrences
    <3>3. printed[1] \in Occurrences
      BY <2>1, <3>1 DEF FirstIsLeast, Occurrences, OccursAt
    <3>4. \A a \in Occurrences : printed[1] <= a
      BY <2>1, <3>1 DEF FirstIsLeast, Occurrences
    <3>5. Min(Occurrences) \in Occurrences /\ \A a \in Occurrences : Min(Occurrences) <= a
      BY <3>2, <3>3, MinIn
    <3>6. Min(Occurrences) <= printed[1] /\ printed[1] <= Min(Occurrences)
      BY <3>3, <3>4, <3>5
    <3>7. Min(Occurrences) \in Nat /\ printed[1] \in Nat
      BY <3>2, <3>3, <3>5
    <3>. QED
      BY <3>6, <3>7
  <2>. QED
    BY <2>2, <2>3
<1>. QED
  BY <1>1, Exactness, Invariance, PTL

(* The inner while (bgrep.c:144) takes p forward at every turn, so that a   *)
(* byte takes no more turns than there are bytes to look for.               *)
THEOREM LinksGoForward == Spec => [][Follow => p' > p]_vars
<1>1. IInv => (Follow => p' > p)
  BY DEF IInv, TypeOK, LinkSound, Follow, Last
<1>2. IInv /\ [Next]_vars => [Follow => p' > p]_vars
  BY <1>1
<1>. QED
  BY <1>2, Invariance, PTL DEF Spec

-----------------------------------------------------------------------------
(* After an address: what lies behind its end is searched as from a fresh   *)
(* start, whatever p claims of the bytes before.                            *)

(* No longer part of the bytes looked for lies behind Base and ends the     *)
(* input, or would with the byte being matched.                             *)
NoneLongerSince ==
  \A i \in 0..(p - 1) :
    HoldsAt(i) /\ Last(n_look_for) - i <= Matched - Base => pc = "match" /\ look_for[i] # Current

Covered(a) == \E i \in DOMAIN printed : printed[i] <= a /\ a < printed[i] + n_look_for

AllCovered == \A a \in Nat : a + n_look_for <= Matched /\ OccursAt(a) => Covered(a)

MInv == LinksAreLongest /\ Base <= Matched /\ NoneLongerSince /\ AllCovered

(* An occurrence that ends the input either begins behind Base, and was all *)
(* but its last byte before, or in the address printed last.                *)
LEMMA JustEnded ==
  ASSUME IInv, MInv, pc = "match", NEW a \in Nat, a + n_look_for = Len(input), OccursAt(a),
         ~Covered(a)
  PROVE  p = 0 /\ Expected
<1>1. n_look_for \in Nat /\ n_look_for > 0 /\ p \in 0..(n_look_for - 1) /\ printed \in Seq(Nat)
  BY BgrepAssumption DEF IInv, TypeOK
<1>2. Matched = a + n_look_for - 1 /\ Base \in Nat /\ Base <= Matched
  <2>1. TypeOK /\ Base <= Matched
    BY DEF IInv, MInv
  <2>2. Matched = Len(input) - 1
    BY DEF Matched
  <2>. QED
    BY <1>1, <2>1, <2>2, BaseType
<1>3. HoldsAt(0) /\ look_for[0] = Current
  BY OccursBefore
<1>4. CASE Base <= a
  <2>1. Last(n_look_for) - 0 <= Matched - Base
    BY <1>1, <1>2, <1>4 DEF Last
  <2>2. ~(0 \in 0..(p - 1))
    BY <1>3, <2>1 DEF MInv, NoneLongerSince
  <2>3. p = 0
    BY <1>1, <2>2
  <2>. QED
    BY <1>3, <2>3 DEF Expected
<1>5. CASE Base > a
  <2>1. printed # << >>
    BY <1>5 DEF Base
  <2>2. Len(printed) \in DOMAIN printed /\ printed[Len(printed)] \in Nat
    BY <1>1, <2>1
  <2>3. Base = printed[Len(printed)] + n_look_for
    BY <2>1 DEF Base
  <2>4. printed[Len(printed)] <= a /\ a < printed[Len(printed)] + n_look_for
    BY <1>1, <1>2, <1>5, <2>2, <2>3
  <2>. QED
    BY <2>2, <2>4 DEF Covered
<1>. QED
  BY <1>2, <1>4, <1>5

LEMMA ReadMissed ==
  ASSUME IInv, MInv, Read
  PROVE  MInv'
<1>. DEFINE n == n_look_for
<1>1. PICK byte \in Bytes : input' = Append(input, byte)
  BY DEF Read
<1>2. /\ n \in Nat /\ n > 0 /\ p \in 0..(n - 1) /\ input \in Seq(Bytes) /\ Len(input) \in Nat
      /\ Base \in Nat
  BY BgrepAssumption, BaseType DEF IInv, TypeOK
<1>3. /\ Len(input') = Len(input) + 1
      /\ \A q \in 1..Len(input) : input'[q] = input[q]
  BY <1>1, <1>2
<1>4. /\ Matched = Len(input) /\ Matched' = Len(input) /\ pc = "read" /\ p' = p /\ printed' = printed
      /\ n' = n /\ look_for' = look_for /\ look_for_link' = look_for_link
  BY <1>2, <1>3 DEF Read, Matched, pattern
<1>5. \A i \in 0..(n - 1) : HoldsAt(i)' <=> HoldsAt(i)
  <2>. SUFFICES ASSUME NEW i \in 0..(n - 1), n - 1 - i <= Len(input)
                PROVE  \A k \in (i + 1)..(n - 1) :
                         input'[Len(input) - (k - i - 1)] = input[Len(input) - (k - i - 1)]
    BY <1>2, <1>4 DEF HoldsAt, Last
  <2>1. \A k \in (i + 1)..(n - 1) : Len(input) - (k - i - 1) \in 1..Len(input)
    BY <1>2
  <2>. QED
    BY <1>3, <2>1
<1>6. \A a \in Nat : a + n <= Len(input) => (OccursAt(a)' => OccursAt(a))
  BY <1>2, <1>3, <1>4, OccursWas
<1>7. LinksAreLongest'
  BY <1>4 DEF MInv, LinksAreLongest, SameTail, Last
<1>8. Base' = Base /\ (Base <= Matched)'
  BY <1>4 DEF MInv, Base
<1>9. NoneLongerSince'
  BY <1>2, <1>4, <1>5, <1>8 DEF MInv, NoneLongerSince
<1>10. AllCovered'
  BY <1>2, <1>4, <1>6 DEF MInv, AllCovered, Covered
<1>. QED
  BY <1>7, <1>8, <1>9, <1>10 DEF MInv

LEMMA FollowMissed ==
  ASSUME IInv, MInv, Follow
  PROVE  MInv'
<1>. DEFINE n == n_look_for
            l == look_for_link[p]
<1>1. /\ n \in Nat /\ n > 0 /\ p \in 0..(n - 1) /\ l \in 0..(n - 1) /\ Matched \in Nat
      /\ Base \in Nat
  <2>1. TypeOK /\ Claims
    BY DEF IInv
  <2>2. Base \in Nat
    BY <2>1, BaseType
  <2>. QED
    BY <2>1, <2>2, BgrepAssumption DEF TypeOK, Claims, Matched
<1>2. /\ pc = "match" /\ pc' = pc /\ p # n - 1 /\ look_for[p] # Current /\ p' = l
      /\ printed' = printed /\ input' = input /\ UNCHANGED pattern
  BY DEF Follow, Expected, Last
<1>3. /\ \A i : HoldsAt(i)' <=> HoldsAt(i)
      /\ \A a : (OccursAt(a)' <=> OccursAt(a)) /\ (Covered(a)' <=> Covered(a))
      /\ Matched' = Matched /\ Current' = Current /\ Base' = Base
  BY <1>2 DEF HoldsAt, OccursAt, Covered, Matched, Last, pattern, Current, Base
<1>4. LinksAreLongest'
  BY <1>2 DEF MInv, LinksAreLongest, SameTail, Last, pattern
<1>5. l > p /\ \A j \in (p + 1)..(n - 1) : SameTail(look_for, n, p, j + 1) => l <= j
  BY <1>1, <1>2 DEF MInv, LinksAreLongest, Last
<1>6. ASSUME NEW i \in (p + 1)..(l - 1), HoldsAt(i), n - 1 - i <= Matched - Base
      PROVE  FALSE
  <2>1. \A k \in (i + 1)..(n - 1) : input[Matched - (k - i - 1)] = look_for[k]
    BY <1>6 DEF HoldsAt, Last
  <2>2. \A k \in 0..(n - 1) : k > p /\ Matched - (k - p - 1) > Base
                                 => input[Matched - (k - p - 1)] = look_for[k]
    BY DEF IInv, Claims, Last
  <2>3. ASSUME NEW k \in 0..(n - 1 - (i + 1))
        PROVE  look_for[p + 1 + k] = look_for[i + 1 + k]
    <3>1. i + 1 + k \in (i + 1)..(n - 1) /\ Matched - ((i + 1 + k) - i - 1) = Matched - k
      BY <1>1
    <3>2. /\ p + 1 + k \in 0..(n - 1) /\ p + 1 + k > p
          /\ Matched - ((p + 1 + k) - p - 1) = Matched - k /\ Matched - k > Base
      BY <1>1, <1>6
    <3>. QED
      BY <2>1, <2>2, <3>1, <3>2
  <2>4. SameTail(look_for, n, p, i + 1)
    BY <2>3 DEF SameTail
  <2>. QED
    BY <1>1, <1>5, <2>4
<1>7. ASSUME NEW i \in 0..(l - 1), HoldsAt(i), n - 1 - i <= Matched - Base
      PROVE  look_for[i] # Current
  <2>1. CASE i < p
    BY <1>1, <1>7, <2>1 DEF MInv, NoneLongerSince, Last
  <2>2. CASE i = p
    BY <1>2, <2>2
  <2>3. CASE i > p
    BY <1>1, <1>6, <1>7, <2>3
  <2>. QED
    BY <1>1, <2>1, <2>2, <2>3
<1>8. NoneLongerSince'
  BY <1>2, <1>3, <1>7 DEF NoneLongerSince, Last, pattern
<1>9. AllCovered' /\ (Base <= Matched)'
  BY <1>2, <1>3 DEF MInv, AllCovered, pattern
<1>. QED
  BY <1>4, <1>8, <1>9 DEF MInv

LEMMA TakenMissed ==
  ASSUME IInv, MInv, Mismatch \/ Advance
  PROVE  MInv'
<1>. DEFINE n == n_look_for
<1>1. /\ pc = "match" /\ pc' = "read" /\ UNCHANGED <<pattern, input, printed>>
      /\ \/ p = Last(n_look_for) /\ ~Expected /\ p' = p
         \/ p # 0 /\ Expected /\ p' = p - 1
  BY DEF Mismatch, Advance, pattern
<1>2. /\ n \in Nat /\ n > 0 /\ p \in 0..(n - 1) /\ Len(input) \in Nat /\ Base \in Nat
      /\ Matched = Len(input) - 1 /\ Matched' = Len(input) /\ Base' = Base
  BY <1>1, BgrepAssumption, BaseType DEF IInv, TypeOK, Matched, Base, pattern
<1>3. LinksAreLongest'
  BY <1>1 DEF MInv, LinksAreLongest, SameTail, Last, pattern
<1>4. ASSUME NEW i \in 0..(p' - 1), HoldsAt(i)', n - 1 - i <= Len(input) - Base
      PROVE  FALSE
  <2>1. i \in 0..(n - 2) /\ (i + 1 < p \/ (i + 1 = n - 1 /\ p = n - 1 /\ ~Expected))
    BY <1>1, <1>2 DEF Last
  <2>2. HoldsAt(i + 1) /\ look_for[i + 1] = Current
    BY <1>1, <1>4, <2>1, HoldsBefore
  <2>3. CASE i + 1 < p
    <3>1. i + 1 \in 0..(p - 1) /\ Last(n) - (i + 1) <= Matched - Base
      BY <1>2, <1>4, <2>1, <2>3 DEF Last
    <3>. QED
      BY <2>2, <3>1 DEF MInv, NoneLongerSince
  <2>4. CASE i + 1 = n - 1 /\ p = n - 1 /\ ~Expected
    BY <2>2, <2>4 DEF Expected
  <2>. QED
    BY <2>1, <2>3, <2>4
<1>5. NoneLongerSince'
  BY <1>1, <1>2, <1>4 DEF NoneLongerSince, Last, pattern
<1>6. ASSUME NEW a \in Nat, a + n <= Len(input), OccursAt(a)
      PROVE  Covered(a)
  <2>1. CASE a + n = Len(input)
    <3>1. (p = 0 /\ Expected) \/ Covered(a)
      BY <1>1, <1>6, <2>1, JustEnded
    <3>2. p = 0 /\ Expected => p = n - 1 /\ ~Expected
      BY <1>1 DEF Last
    <3>. QED
      BY <3>1, <3>2
  <2>2. CASE a + n # Len(input)
    <3>1. a + n <= Matched
      BY <1>2, <1>6, <2>2
    <3>. QED
      BY <1>6, <3>1 DEF MInv, AllCovered
  <2>. QED
    BY <2>1, <2>2
<1>7. AllCovered'
  <2>1. \A a : (OccursAt(a)' <=> OccursAt(a)) /\ (Covered(a)' <=> Covered(a))
    BY <1>1 DEF OccursAt, Covered, Last, pattern
  <2>. QED
    BY <1>1, <1>2, <1>6, <2>1 DEF AllCovered, pattern
<1>8. (Base <= Matched)'
  BY <1>2 DEF MInv
<1>. QED
  BY <1>3, <1>5, <1>7, <1>8 DEF MInv

LEMMA FoundMissed ==
  ASSUME IInv, MInv, Found
  PROVE  MInv'
<1>. DEFINE n == n_look_for
            a == o - n
<1>1. /\ pc = "match" /\ pc' = "read" /\ p = 0 /\ p' = look_for_link[0]
      /\ printed' = Append(printed, a) /\ UNCHANGED <<pattern, input, o>>
  BY DEF Found
<1>2. /\ n \in Nat /\ n > 0 /\ o = Len(input) /\ o \in Nat /\ printed \in Seq(Nat)
      /\ look_for_link[0] \in 0..(n - 1)
      /\ Matched = o - 1 /\ Matched' = o
  BY <1>1, BgrepAssumption DEF IInv, TypeOK, Matched
<1>3. a \in Nat
  BY <1>1, <1>2 DEF IInv, Claims, Last
<1>4. /\ printed' # << >> /\ Len(printed) \in Nat /\ Len(printed') = Len(printed) + 1
      /\ printed'[Len(printed')] = a
      /\ DOMAIN printed = 1..Len(printed) /\ DOMAIN printed' = 1..(Len(printed) + 1)
      /\ \A i \in DOMAIN printed : printed'[i] = printed[i]
  BY <1>1, <1>2, <1>3
<1>5. Base' = o
  BY <1>1, <1>2, <1>4 DEF Base, pattern
<1>6. LinksAreLongest'
  BY <1>1 DEF MInv, LinksAreLongest, SameTail, Last, pattern
<1>7. NoneLongerSince'
  <2>1. \A i \in 0..(look_for_link[0] - 1) : ~(n - 1 - i <= o - o)
    BY <1>2
  <2>. QED
    BY <1>1, <1>2, <1>5, <2>1 DEF NoneLongerSince, Last, pattern
<1>8. \A b : Covered(b) => Covered(b)'
  BY <1>1, <1>4 DEF Covered, pattern
<1>9. \E i \in DOMAIN printed' : printed'[i] <= a /\ a < printed'[i] + n
  <2>1. Len(printed') \in DOMAIN printed' /\ a <= a /\ a < a + n
    BY <1>2, <1>3, <1>4
  <2>. QED
    BY <1>4, <2>1
<1>10. ASSUME NEW b \in Nat, b + n <= o, OccursAt(b)
       PROVE  Covered(b)'
  <2>1. CASE b + n = o
    <3>1. b = a
      BY <1>2, <2>1
    <3>. QED
      BY <1>1, <1>9, <3>1 DEF Covered, pattern
  <2>2. CASE b + n # o
    <3>1. b + n <= Matched
      BY <1>2, <1>10, <2>2
    <3>. QED
      BY <1>8, <1>10, <3>1 DEF MInv, AllCovered
  <2>. QED
    BY <2>1, <2>2
<1>11. AllCovered'
  <2>1. \A b : OccursAt(b)' <=> OccursAt(b)
    BY <1>1 DEF OccursAt, Last, pattern
  <2>. QED
    BY <1>1, <1>2, <1>10, <2>1 DEF AllCovered, pattern
<1>12. (Base <= Matched)'
  BY <1>2, <1>5
<1>. QED
  BY <1>6, <1>7, <1>11, <1>12 DEF MInv

LEMMA StepMissed ==
  ASSUME IInv, MInv, [Next]_vars
  PROVE  MInv'
<1>1. CASE EndOfInput \/ UNCHANGED vars
  <2>1. /\ UNCHANGED <<pattern, p, input, printed>> /\ (pc' = pc \/ (pc = "read" /\ pc' = "end"))
    BY <1>1 DEF EndOfInput, vars, pattern
  <2>2. Matched' = Matched /\ Current' = Current /\ Base' = Base
    BY <2>1 DEF Matched, Current, Base, pattern
  <2>3. \A b : /\ OccursAt(b)' <=> OccursAt(b)
               /\ HoldsAt(b)' <=> HoldsAt(b)
               /\ Covered(b)' <=> Covered(b)
    BY <2>1, <2>2 DEF OccursAt, HoldsAt, Covered, Last, pattern
  <2>4. LinksAreLongest'
    BY <2>1 DEF MInv, LinksAreLongest, SameTail, Last, pattern
  <2>5. NoneLongerSince'
    <3>1. pc = "match" => pc' = "match"
      BY <2>1
    <3>. QED
      BY <2>1, <2>2, <2>3, <3>1 DEF MInv, NoneLongerSince, Last, pattern
  <2>6. AllCovered' /\ (Base <= Matched)'
    BY <2>1, <2>2, <2>3 DEF MInv, AllCovered, pattern
  <2>. QED
    BY <2>4, <2>5, <2>6 DEF MInv
<1>. QED
  BY <1>1, ReadMissed, FollowMissed, TakenMissed, FoundMissed DEF Next, Match, Stopped

LEMMA InitMissed == Init => MInv
<1>. SUFFICES ASSUME Init PROVE MInv
  OBVIOUS
<1>1. LinksAreLongest
  BY InitExact DEF EInv
<1>2. /\ n_look_for \in Nat /\ n_look_for > 0 /\ p = n_look_for - 1 /\ Matched = 0
      /\ Len(input) = 0 /\ Base = 0
  BY BgrepAssumption DEF Init, Last, Matched, Base
<1>3. NoneLongerSince /\ AllCovered
  BY <1>2 DEF NoneLongerSince, AllCovered, Last
<1>. QED
  BY <1>1, <1>2, <1>3 DEF MInv

(* For every bytes to look for and every input: an occurrence that is not   *)
(* printed begins inside an address printed (bgrep.c:138-154).              *)
THEOREM MissedOnlyInsideAnother == Spec => []MissedOverlap
<1>1. IInv /\ MInv /\ [Next]_vars => MInv'
  BY StepMissed
<1>2. IInv /\ MInv => MissedOverlap
  <2>. SUFFICES ASSUME IInv, MInv, pc # "match", NEW a \in Occurrences
                PROVE  Covered(a)
    BY DEF MissedOverlap, Covered
  <2>1. n_look_for \in Nat /\ Len(input) \in Nat /\ Matched = Len(input)
    BY BgrepAssumption DEF IInv, TypeOK, Matched
  <2>2. a \in Nat /\ a + n_look_for <= Matched /\ OccursAt(a)
    BY <2>1 DEF Occurrences
  <2>. QED
    BY <2>2 DEF MInv, AllCovered
<1>. QED
  BY <1>1, <1>2, InitMissed, Invariance, PTL DEF Spec
=============================================================================
