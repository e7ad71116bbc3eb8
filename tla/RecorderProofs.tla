--------------------------- MODULE RecorderProofs ---------------------------
(***************************************************************************)
(* Proofs about Recorder for every number of buffers, threshold, request   *)
(* and interleaving: its type invariant, the bounds on the queue of empty  *)
(* buffers, that the pipe is closed with the full queue empty, and that    *)
(* Recorder implements Capture.                                            *)
(***************************************************************************)
EXTENDS Recorder, SequenceTheorems, TLAPS

(* Nobody uses m_pSndbuf or dst before it points at a buffer, and NULL is  *)
(* in m_pSndbuf only until the recorder has seen and replaced it.          *)
Pointers ==
  /\ mem = << >> => pc["prep"] = "alloc" /\ ~m_binitialized
  /\ mem # << >> /\ m_pSndbuf = 0 => pc["rec"] \in {"look", "new", "undefined"}
  /\ pc["rec"] = "read" => dst # 0
  /\ pc["rec"] \in {"look", "new", "zero", "unlock", "call", "read"} => reads # 0
  /\ ~m_binitialized => pc["rec"] = "wait" /\ pc["enc"] = "off"

(* How full the queue of empty buffers is at each point of prepareBuffers: *)
(* only that thread appends to it, so what it has measured is a bound.     *)
Supply ==
  /\ pc["prep"] \in {"alloc", "zero", "push", "pushing"} =>
       /\ i < OneSecond
       /\ Len(m_inputBuffers) <= MIN_BUFFERS + i
  /\ pc["prep"] \in {"spin", "spinning"} =>
       Len(m_inputBuffers) <= sz /\ m_binitialized
  /\ sz <= MIN_BUFFERS + OneSecond
  /\ InputBounded

(* The first refill is complete before the recorder looks at a buffer,     *)
(* which it pops only after that.                                          *)
FirstSecond ==
  /\ ~m_binitialized =>
       /\ reads = 0
       /\ pc["prep"] \in {"alloc", "zero", "push", "pushing", "size", "sizing"}
       /\ pc["prep"] \notin {"size", "sizing"} => Len(m_inputBuffers) = i
       /\ pc["prep"] \in {"size", "sizing"} => Len(m_inputBuffers) = OneSecond
  /\ m_binitialized => Len(m_inputBuffers) + reads >= OneSecond
  /\ pc["rec"] = "look" => Len(m_inputBuffers) + reads > OneSecond

(* start drains the full queue alone, so the length it was returned last   *)
(* is the length of the queue.                                             *)
Drain ==
  /\ pc["rec"] \in {"drain", "length", "data", "write", "pclose", "closed"} =>
       pc["enc"] = "exited"
  /\ pc["rec"] = "pclose" => m_fullBuffers = << >>
  /\ pc["rec"] \in {"length", "data", "write"} => lastSize["rec"] = Len(m_fullBuffers)
  /\ NothingLeftQueued

IInv == TypeOK /\ Pointers /\ Supply /\ FirstSecond /\ Drain

-----------------------------------------------------------------------------
(* A sequence over a set is a sequence over every larger set.              *)
LEMMA SeqWiden ==
  ASSUME NEW S, NEW T, S \subseteq T, NEW s \in Seq(S)
  PROVE  s \in Seq(T)
  OBVIOUS

(* A remainder is less than the divisor. *)
LEMMA ModRange ==
  ASSUME NEW a \in Nat, NEW b \in Nat, b > 0
  PROVE  a % b \in 0..(b - 1)
  OBVIOUS

LEMMA CountRange ==
  ASSUME NEW a \in 0..(ULong - 1), NEW u \in Nat
  PROVE  (a + u) % ULong \in 0..(ULong - 1)
  BY ModRange, RecorderAssumption

(* The fields of a buffer, and the mark a failed read leaves in one.       *)
LEMMA SndBufferFields ==
  ASSUME NEW b \in SndBuffer
  PROVE  /\ b.chunk \in 0..reads
         /\ b.used \in 0..(ULong - 1)
         /\ [b EXCEPT !.used = ULong - 1] \in SndBuffer
  BY RecorderAssumption DEF SndBuffer

(* A pointer that is not NULL names a buffer. *)
LEMMA CurrentBuffer ==
  ASSUME TypeOK, m_pSndbuf # 0
  PROVE  /\ m_pSndbuf \in Buffers
         /\ mem[m_pSndbuf] \in SndBuffer
         /\ mem[m_pSndbuf].used \in 0..(ULong - 1)
         /\ mem[m_pSndbuf].used \in Nat
  <1>1. m_pSndbuf \in Buffers /\ mem[m_pSndbuf] \in SndBuffer
    BY ElementOfSeq DEF TypeOK, Buffers
  <1>2. mem[m_pSndbuf].used \in 0..(ULong - 1)
    BY <1>1, SndBufferFields
  <1>3. QED BY <1>1, <1>2, RecorderAssumption

(* The initial state. *)
LEMMA InitHolds == Init => IInv
  <1> SUFFICES ASSUME Init PROVE IInv
    OBVIOUS
  <1>1. /\ pc \in [Threads -> PrepPlaces \cup RecPlaces \cup EncPlaces]
        /\ pc["prep"] = "alloc" /\ pc["rec"] = "wait" /\ pc["enc"] = "off"
        /\ lastSize \in [{"rec", "enc"} -> Nat]
    BY DEF Init, Threads, PrepPlaces, RecPlaces, EncPlaces
  <1>2. /\ mem \in Seq(SndBuffer)
        /\ m_inputBuffers \in Seq(Buffers \cup {0}) /\ m_fullBuffers \in Seq(Buffers)
        /\ captured \in Seq(1..MaxReads) /\ written \in Seq(0..MaxReads)
        /\ Len(m_inputBuffers) = 0
    BY EmptySeq DEF Init
  <1>3. /\ mem = << >> /\ m_pSndbuf = 0 /\ dst = 0 /\ i = 0 /\ sz = 0 /\ bytesRead = 0 /\ reads = 0
        /\ ~m_binitialized /\ ~m_doneRecording /\ ~raced /\ setter = "prep"
        /\ ~m_inputBuffersLock /\ m_inputBuffersLock \in BOOLEAN
        /\ m_binitialized \in BOOLEAN /\ m_doneRecording \in BOOLEAN /\ raced \in BOOLEAN
    BY DEF Init
  <1>a. out \in [len : 0..(ULong - 1), src : Buffers \cup {0}]
    BY RecorderAssumption DEF Init, NoWrite
  <1>4. TypeOK
    BY <1>1, <1>a, <1>2, <1>3, RecorderAssumption
    DEF TypeOK, Threads, PrepPlaces, RecPlaces, EncPlaces
  <1>5. Pointers /\ Supply /\ FirstSecond /\ Drain
    BY <1>1, <1>2, <1>3, RecorderAssumption
    DEF Pointers, Supply, FirstSecond, Drain, InputBounded, NothingLeftQueued, At
  <1>6. QED BY <1>4, <1>5 DEF IInv

(* The type invariant is preserved.  A step that allocates a buffer, or    *)
(* begins another read, widens the sets the queues and the memory are      *)
(* typed over; the other steps leave those sets as they are.               *)
LEMMA TypeStep == IInv /\ [Next]_vars => TypeOK'
  <1> SUFFICES ASSUME IInv, [Next]_vars PROVE TypeOK'
    OBVIOUS
  <1> USE RecorderAssumption DEF IInv, At, Goto, Assign, Use, prepVars, recVars,
        encVars, raceVars, queues, TypeOK, Threads, PrepPlaces, RecPlaces, EncPlaces
  <1>1. CASE PrepAlloc
    <2>1. NewBuffer \in SndBuffer
      BY DEF NewBuffer, SndBuffer
    <2>2. mem' \in Seq(SndBuffer') /\ Len(mem') = Len(mem) + 1
      BY <1>1, <2>1, AppendProperties DEF PrepAlloc, SndBuffer
    <2>3. Buffers \subseteq Buffers' /\ Len(mem) + 1 \in Buffers'
      BY <2>2, LenProperties DEF Buffers
    <2>4. /\ m_inputBuffers' \in Seq(Buffers' \cup {0}) /\ m_fullBuffers' \in Seq(Buffers')
          /\ out' \in [len : 0..(ULong - 1), src : Buffers' \cup {0}]
          /\ dst' \in Buffers' \cup {0}
      <3>1. Buffers \cup {0} \subseteq Buffers' \cup {0}
        BY <2>3
      <3>2. UNCHANGED <<m_inputBuffers, m_fullBuffers, out, dst>>
        BY <1>1 DEF PrepAlloc
      <3> QED
        BY <2>3, <3>1, <3>2, SeqWiden
    <2>5. QED
      BY <1>1, <2>2, <2>3, <2>4 DEF PrepAlloc, Supply
  <1>2. CASE PrepZero
    <2>1. mem' \in Seq(SndBuffer') /\ Len(mem') = Len(mem)
      <3>1. m_pSndbuf \in 1..Len(mem) /\ NewBuffer \in SndBuffer
        BY <1>2, CurrentBuffer, RecorderAssumption DEF PrepZero, Buffers, NewBuffer, SndBuffer
      <3> QED
        BY <1>2, <3>1, ExceptSeq DEF PrepZero, SndBuffer
    <2>2. QED
      BY <1>2, <2>1 DEF PrepZero, Buffers
  <1>3. CASE PrepLock
    BY <1>3 DEF PrepLock, Buffers, SndBuffer
  <1>4. CASE PrepPush
    <2>1. m_inputBuffers' \in Seq(Buffers' \cup {0})
      BY <1>4, AppendProperties DEF PrepPush, Buffers
    <2>2. i + 1 \in 0..OneSecond
      BY <1>4 DEF PrepPush, Supply
    <2>3. pc' \in [Threads -> PrepPlaces \cup RecPlaces \cup EncPlaces]
          /\ pc'["prep"] \in PrepPlaces /\ pc'["rec"] \in RecPlaces /\ pc'["enc"] \in EncPlaces
      BY <1>4 DEF PrepPush
    <2>4. QED
      BY <1>4, <2>1, <2>2, <2>3 DEF PrepPush, Buffers, SndBuffer
  <1>5. CASE PrepSize
    BY <1>5, LenProperties DEF PrepSize, Buffers, SndBuffer
  <1>6. CASE PrepRefill
    BY <1>6 DEF PrepRefill, Buffers, SndBuffer
  <1>7. CASE EncTest
    BY <1>7 DEF EncTest, Buffers, SndBuffer
  <1>8. CASE EncShipNothing
    BY <1>8 DEF EncShipNothing, ShipNothing, Buffers, SndBuffer
  <1>9. CASE EncShipTake
    <2>1. /\ Head(m_fullBuffers) \in Buffers
          /\ Tail(m_fullBuffers) \in Seq(Buffers)
          /\ Len(m_fullBuffers) - 1 \in Nat
      BY <1>9, HeadTailProperties, LenProperties, EmptySeq DEF EncShipTake, ShipTake
    <2>2. QED
      BY <1>9, <2>1 DEF EncShipTake, ShipTake, Buffers, SndBuffer
  <1>10. ASSUME NEW t \in {"enc", "rec"}, ShipLength(t) PROVE TypeOK'
    <2>1. [out EXCEPT !.len = mem[m_pSndbuf].used] \in [len : 0..(ULong - 1), src : Buffers \cup {0}]
      BY <1>10, CurrentBuffer DEF ShipLength
    <2>2. QED
      BY <1>10, <2>1 DEF ShipLength, Buffers, SndBuffer
  <1>11. ASSUME NEW t \in {"enc", "rec"}, ShipData(t) PROVE TypeOK'
    BY <1>11 DEF ShipData, Buffers, SndBuffer
  <1>12. ASSUME NEW t \in {"enc", "rec"}, NEW next, ShipWrite(t, next),
               t = "enc" => next = "processed", t = "rec" => next \in {"drain", "pclose"}
        PROVE  TypeOK'
    <2>1. written' \in Seq(0..MaxReads)
      <3>1. CASE out.src = 0
        BY <1>12, <3>1 DEF ShipWrite
      <3>2. CASE out.src # 0
        <4>1. out.src \in Buffers
          BY <3>2
        <4>2. mem[out.src] \in SndBuffer
          BY <4>1, ElementOfSeq DEF Buffers
        <4>3. mem[out.src].chunk \in 0..MaxReads
          BY <4>2 DEF SndBuffer
        <4> QED
          BY <1>12, <4>3, AppendProperties DEF ShipWrite
      <3> QED
        BY <3>1, <3>2
    <2>2. NoWrite \in [len : 0..(ULong - 1), src : Buffers \cup {0}]
      BY DEF NoWrite
    <2>3. pc' \in [Threads -> PrepPlaces \cup RecPlaces \cup EncPlaces]
          /\ pc'["prep"] \in PrepPlaces /\ pc'["rec"] \in RecPlaces /\ pc'["enc"] \in EncPlaces
      <3>1. pc' = [pc EXCEPT ![t] = next]
        BY <1>12 DEF ShipWrite
      <3>2. CASE t = "enc"
        BY <1>12, <3>1, <3>2
      <3>3. CASE t = "rec"
        BY <1>12, <3>1, <3>3
      <3> QED
        BY <3>2, <3>3
    <2>4. QED
      BY <1>12, <2>1, <2>2, <2>3 DEF ShipWrite, Buffers, SndBuffer
  <1>13. CASE EncProcessed
    BY <1>13 DEF EncProcessed, Buffers, SndBuffer
  <1>14. ASSUME Crash PROVE TypeOK'
    BY <1>14 DEF Crash, Buffers, SndBuffer
  <1>15. CASE RecOpen
    BY <1>15 DEF RecOpen, Buffers, SndBuffer
  <1>16. CASE RecOpenFails
    BY <1>16 DEF RecOpenFails, Buffers, SndBuffer
  <1>17. CASE RecTake
    <2>1. m_pSndbuf' \in Buffers \cup {0}
      BY <1>17, HeadTailProperties DEF RecTake
    <2>2. SndBuffer \subseteq SndBuffer'
      BY <1>17 DEF RecTake, SndBuffer
    <2>3. mem' \in Seq(SndBuffer')
      BY <1>17, <2>2, SeqWiden DEF RecTake
    <2>4. QED
      BY <1>17, <2>1, <2>3, SMTT(40) DEF RecTake, Buffers
  <1>18. CASE RecPop
    <2>1. Tail(m_inputBuffers) \in Seq(Buffers \cup {0})
      BY <1>18, HeadTailProperties DEF RecPop
    <2>2. QED
      BY <1>18, <2>1 DEF RecPop, Buffers, SndBuffer
  <1>19. CASE RecNull
    BY <1>19 DEF RecNull, Buffers, SndBuffer
  <1>20. CASE RecNew
    <2>1. NewBuffer \in SndBuffer
      BY DEF NewBuffer, SndBuffer
    <2>2. mem' \in Seq(SndBuffer') /\ Len(mem') = Len(mem) + 1
      BY <1>20, <2>1, AppendProperties DEF RecNew, SndBuffer
    <2>3. Buffers \subseteq Buffers' /\ Len(mem) + 1 \in Buffers'
      BY <2>2, LenProperties DEF Buffers
    <2>4. /\ m_inputBuffers' \in Seq(Buffers' \cup {0}) /\ m_fullBuffers' \in Seq(Buffers')
          /\ out' \in [len : 0..(ULong - 1), src : Buffers' \cup {0}]
          /\ dst' \in Buffers' \cup {0}
      <3>1. Buffers \cup {0} \subseteq Buffers' \cup {0}
        BY <2>3
      <3>2. UNCHANGED <<m_inputBuffers, m_fullBuffers, out, dst>>
        BY <1>20 DEF RecNew
      <3> QED
        BY <2>3, <3>1, <3>2, SeqWiden
    <2>5. QED
      BY <1>20, <2>2, <2>3, <2>4 DEF RecNew
  <1>21. CASE RecZero
    <2>1. m_pSndbuf # 0
      <3>1. pc["rec"] = "zero"
        BY <1>21 DEF RecZero
      <3> QED
        BY <3>1 DEF Pointers
    <2>2. [mem[m_pSndbuf] EXCEPT !.used = 0] \in SndBuffer /\ m_pSndbuf \in 1..Len(mem)
      <3>1. mem[m_pSndbuf] \in SndBuffer /\ m_pSndbuf \in 1..Len(mem)
        BY <2>1, CurrentBuffer DEF Buffers
      <3> HIDE DEF IInv, TypeOK
      <3>2. 0 \in 0..(ULong - 1)
        OBVIOUS
      <3> QED
        BY <3>1, <3>2 DEF SndBuffer
    <2>3. mem' = [mem EXCEPT ![m_pSndbuf] = [mem[m_pSndbuf] EXCEPT !.used = 0]]
      BY <1>21 DEF RecZero
    <2>4. mem' \in Seq(SndBuffer') /\ Len(mem') = Len(mem)
      <3>1. SndBuffer' = SndBuffer
        BY <1>21 DEF RecZero, SndBuffer
      <3> QED
        BY <2>2, <2>3, <3>1, ExceptSeq
    <2>5. QED
      BY <1>21, <2>4 DEF RecZero, Buffers
  <1>22. CASE RecUnlock
    BY <1>22 DEF RecUnlock, Buffers, SndBuffer
  <1>23. CASE RecReadCall
    BY <1>23 DEF RecReadCall, Buffers, SndBuffer
  <1>24. CASE RecReadReturn
    <2>1. dst \in Buffers /\ reads \in 1..MaxReads
      BY <1>24 DEF RecReadReturn, Pointers
    <2>2. PICK n \in 1..BUFFER_SIZE :
            mem' = [mem EXCEPT ![dst] = [chunk |-> reads, used |-> n]]
      BY <1>24 DEF RecReadReturn
    <2>3. [chunk |-> reads, used |-> n] \in SndBuffer
      BY DEF SndBuffer
    <2>4. mem' \in Seq(SndBuffer') /\ Len(mem') = Len(mem)
      BY <1>24, <2>1, <2>2, <2>3, ExceptSeq DEF RecReadReturn, SndBuffer, Buffers
    <2>5. captured' \in Seq(1..MaxReads)
      BY <1>24, <2>1, AppendProperties DEF RecReadReturn
    <2>6. QED
      BY <1>24, <2>4, <2>5 DEF RecReadReturn, Buffers
  <1>25. CASE RecReadFails
    <2>1. dst \in 1..Len(mem)
      BY <1>25 DEF RecReadFails, Pointers, Buffers
    <2>2. mem[dst] \in SndBuffer
      BY <2>1, ElementOfSeq
    <2>3. [mem[dst] EXCEPT !.used = ULong - 1] \in SndBuffer
      BY <2>2, SndBufferFields
    <2>4. /\ [mem EXCEPT ![dst] = [mem[dst] EXCEPT !.used = ULong - 1]] \in Seq(SndBuffer)
          /\ Len([mem EXCEPT ![dst] = [mem[dst] EXCEPT !.used = ULong - 1]]) = Len(mem)
      BY <2>1, <2>3, ExceptSeq
    <2>5. mem' \in Seq(SndBuffer') /\ Len(mem') = Len(mem)
      BY <1>25, <2>4 DEF RecReadFails, SndBuffer
    <2>6. QED
      BY <1>25, <2>5 DEF RecReadFails, Buffers
  <1>26. CASE RecCount
    <2>1. mem[m_pSndbuf].used \in Nat
      BY <1>26, CurrentBuffer DEF RecCount, Pointers
    <2>2. (bytesRead + mem[m_pSndbuf].used) % ULong \in 0..(ULong - 1)
      BY <2>1, CountRange
    <2>3. bytesRead' \in 0..(ULong - 1)
      BY <1>26, <2>2 DEF RecCount
    <2>4. QED
      BY <1>26, <2>3 DEF RecCount, Buffers, SndBuffer
  <1>27. CASE RecPush
    <2>1. m_pSndbuf \in Buffers
      BY <1>27, LenProperties DEF RecPush, Pointers
    <2>2. m_fullBuffers' \in Seq(Buffers')
      BY <1>27, <2>1, AppendProperties DEF RecPush, Buffers
    <2>3. QED
      BY <1>27, <2>2 DEF RecPush, Buffers, SndBuffer
  <1>28. CASE RecStop
    BY <1>28 DEF RecStop, Buffers, SndBuffer
  <1>29. CASE RecJoin
    BY <1>29 DEF RecJoin, Buffers, SndBuffer
  <1>30. CASE RecDrainNothing
    BY <1>30 DEF RecDrainNothing, ShipNothing, Buffers, SndBuffer
  <1>31. CASE RecDrainTake
    <2>1. /\ Head(m_fullBuffers) \in Buffers
          /\ Tail(m_fullBuffers) \in Seq(Buffers)
          /\ Len(m_fullBuffers) - 1 \in Nat
      BY <1>31, HeadTailProperties, LenProperties, EmptySeq DEF RecDrainTake, ShipTake
    <2>2. QED
      BY <1>31, <2>1 DEF RecDrainTake, ShipTake, Buffers, SndBuffer
  <1>32. CASE RecClose
    BY <1>32 DEF RecClose, Buffers, SndBuffer
  <1>33. CASE Undefined \/ UNCHANGED vars
    BY <1>33 DEF Undefined, vars, Buffers, SndBuffer
  <1>34. QED
    <2>1. ASSUME RecDrainWrite PROVE TypeOK'
      <3>1. PICK next \in {"drain", "pclose"} :
               ShipLength("rec") \/ ShipData("rec") \/ ShipWrite("rec", next)
        BY <2>1 DEF RecDrainWrite
      <3> QED
        BY <3>1, <1>10, <1>11, <1>12
    <2>2. ASSUME EncShipWrite PROVE TypeOK'
      BY <2>2, <1>10, <1>11, <1>12 DEF EncShipWrite
    <2>3. ASSUME \/ NullUsed("prep", {"zero"}) \/ NullUsed("enc", {"length", "processed"})
                 \/ RecTakeWild \/ RecPopEmpty
          PROVE  Crash /\ m_binitialized
      <3>1. mem # << >> => (m_pSndbuf # 0 \/ m_binitialized)
        BY DEF Pointers
      <3> QED
        BY <2>3, <3>1 DEF NullUsed, RecTakeWild, RecPopEmpty, Pointers
    <2> QED
      BY <1>1, <1>2, <1>3, <1>4, <1>5, <1>6, <1>7, <1>8, <1>9, <1>10, <1>11, <1>12,
         <1>13, <1>14, <1>15, <1>16, <1>17, <1>18, <1>19, <1>20, <1>21, <1>22,
         <1>23, <1>24, <1>25, <1>26, <1>27, <1>28, <1>29, <1>30, <1>31, <1>32,
         <1>33, <2>1, <2>2, <2>3 DEF Next, Prep, Enc, Rec

(* The rest of the invariant is preserved.                                 *)
LEMMA ControlStep ==
  IInv /\ [Next]_vars => (Pointers /\ Supply /\ FirstSecond /\ Drain)'
  <1> SUFFICES ASSUME IInv, [Next]_vars, TypeOK'
               PROVE  (Pointers /\ Supply /\ FirstSecond /\ Drain)'
    BY TypeStep
  <1> USE RecorderAssumption DEF IInv, At, Goto, Assign, Use, prepVars, recVars,
        encVars, raceVars, queues, TypeOK, Threads, PrepPlaces, RecPlaces, EncPlaces,
        InputBounded, NothingLeftQueued, Pointers, Supply, FirstSecond, Drain
  <1>1. CASE PrepAlloc
    <2>1. NewBuffer \in SndBuffer
      BY DEF NewBuffer, SndBuffer
    <2>2. mem' # << >>
      BY <1>1, <2>1, AppendProperties, SMTT(30) DEF PrepAlloc
    <2>3. m_pSndbuf' # 0
      BY <1>1, LenProperties DEF PrepAlloc
    <2>4. QED
      BY <1>1, <2>2, <2>3, SMTT(30) DEF PrepAlloc
  <1>2. CASE PrepZero
    <2>1. /\ UNCHANGED <<m_pSndbuf, m_inputBuffers, m_fullBuffers, i, sz, m_binitialized,
                       dst, reads, lastSize>>
          /\ pc'["rec"] = pc["rec"] /\ pc'["enc"] = pc["enc"]
          /\ pc["prep"] = "zero" /\ pc'["prep"] = "push" /\ m_pSndbuf # 0
      BY <1>2 DEF PrepZero
    <2>2. mem # << >> /\ mem' # << >>
      <3>1. mem # << >>
        BY <2>1
      <3>2. DOMAIN mem' = DOMAIN mem /\ DOMAIN mem # {}
        BY <1>2, <3>1, LenProperties, EmptySeq DEF PrepZero
      <3>3. QED
        BY <3>1, <3>2
    <2>3. QED
      BY <2>1, <2>2
  <1>3. CASE PrepLock
    <2>1. /\ UNCHANGED <<m_pSndbuf, m_inputBuffers, m_fullBuffers, mem, i, sz, m_binitialized,
                       dst, reads, lastSize>>
          /\ pc'["rec"] = pc["rec"] /\ pc'["enc"] = pc["enc"]
          /\ \/ pc["prep"] = "push" /\ pc'["prep"] = "pushing"
             \/ pc["prep"] = "size" /\ pc'["prep"] = "sizing"
             \/ pc["prep"] = "spin" /\ pc'["prep"] = "spinning"
      BY <1>3 DEF PrepLock
    <2>2. CASE pc["prep"] = "push" /\ pc'["prep"] = "pushing"
      BY <2>1, <2>2
    <2>3. CASE pc["prep"] = "size" /\ pc'["prep"] = "sizing"
      BY <2>1, <2>3
    <2>4. CASE pc["prep"] = "spin" /\ pc'["prep"] = "spinning"
      BY <2>1, <2>4
    <2>5. QED
      BY <2>1, <2>2, <2>3, <2>4
  <1>4. CASE PrepPush
    <2>1. m_pSndbuf \in Buffers \cup {0}
      OBVIOUS
    <2>2. Len(m_inputBuffers') = Len(m_inputBuffers) + 1
      BY <1>4, <2>1, AppendProperties DEF PrepPush
    <2>3. QED
      BY <1>4, <2>2, LenProperties, SMTT(30) DEF PrepPush
  <1>5. CASE PrepSize
    BY <1>5, LenProperties DEF PrepSize
  <1>6. CASE PrepRefill
    BY <1>6 DEF PrepRefill
  <1>7. CASE EncTest
    BY <1>7 DEF EncTest
  <1>8. CASE EncShipNothing
    BY <1>8 DEF EncShipNothing, ShipNothing
  <1>9. CASE EncShipTake
    <2>1. /\ Head(m_fullBuffers) \in Buffers
          /\ Len(m_fullBuffers') = Len(m_fullBuffers) - 1
      BY <1>9, HeadTailProperties DEF EncShipTake, ShipTake
    <2>2. m_pSndbuf' # 0
      BY <1>9, <2>1 DEF EncShipTake, ShipTake, Buffers
    <2>3. QED
      BY <1>9, <2>1, <2>2 DEF EncShipTake, ShipTake
  <1>10. ASSUME NEW t \in {"enc", "rec"}, ShipLength(t)
        PROVE  (Pointers /\ Supply /\ FirstSecond /\ Drain)'
    <2>1. /\ UNCHANGED <<m_pSndbuf, m_inputBuffers, m_fullBuffers, mem, i, sz, m_binitialized,
                       dst, reads, lastSize>>
          /\ pc'["prep"] = pc["prep"]
          /\ t = "enc" => pc'["rec"] = pc["rec"] /\ pc["enc"] = "length" /\ pc'["enc"] = "data"
          /\ t = "rec" => pc'["enc"] = pc["enc"] /\ pc["rec"] = "length" /\ pc'["rec"] = "data"
      BY <1>10 DEF ShipLength
    <2>2. QED
      BY <2>1
  <1>11. ASSUME NEW t \in {"enc", "rec"}, ShipData(t)
        PROVE  (Pointers /\ Supply /\ FirstSecond /\ Drain)'
    <2>1. /\ UNCHANGED <<m_pSndbuf, m_inputBuffers, m_fullBuffers, mem, i, sz, m_binitialized,
                       dst, reads, lastSize>>
          /\ pc'["prep"] = pc["prep"]
          /\ t = "enc" => pc'["rec"] = pc["rec"] /\ pc["enc"] = "data" /\ pc'["enc"] = "write"
          /\ t = "rec" => pc'["enc"] = pc["enc"] /\ pc["rec"] = "data" /\ pc'["rec"] = "write"
      BY <1>11 DEF ShipData
    <2>2. QED
      BY <2>1
  <1>12. ASSUME NEW t \in {"enc", "rec"}, NEW next, ShipWrite(t, next),
               t = "enc" => next = "processed",
               t = "rec" => next = IF lastSize["rec"] # 0 THEN "drain" ELSE "pclose"
        PROVE  (Pointers /\ Supply /\ FirstSecond /\ Drain)'
    <2>1. /\ UNCHANGED <<m_pSndbuf, m_inputBuffers, m_fullBuffers, mem, i, sz, m_binitialized,
                       dst, reads, lastSize>>
          /\ pc'["prep"] = pc["prep"]
          /\ t = "enc" => pc'["rec"] = pc["rec"] /\ pc["enc"] = "write" /\ pc'["enc"] = "processed"
          /\ t = "rec" => pc'["enc"] = pc["enc"] /\ pc["rec"] = "write" /\ pc'["rec"] = IF lastSize["rec"] # 0 THEN "drain" ELSE "pclose"
      BY <1>12 DEF ShipWrite
    <2>2. QED
      BY <2>1, LenProperties, EmptySeq
  <1>13. CASE EncProcessed
    BY <1>13 DEF EncProcessed
  <1>14. ASSUME Crash, m_binitialized PROVE (Pointers /\ Supply /\ FirstSecond /\ Drain)'
    <2>1. /\ UNCHANGED <<m_pSndbuf, m_inputBuffers, m_fullBuffers, mem, i, sz, m_binitialized,
                       dst, reads, lastSize>>
          /\ pc'["prep"] = "undefined" /\ pc'["rec"] = "undefined" /\ pc'["enc"] = "undefined"
      BY <1>14 DEF Crash
    <2>2. mem # << >>
      BY <1>14
    <2>3. Pointers'
      BY <1>14, <2>1, <2>2
    <2>4. Supply'
      BY <2>1
    <2>5. FirstSecond'
      BY <1>14, <2>1
    <2>6. Drain'
      BY <2>1
    <2>7. QED
      BY <2>3, <2>4, <2>5, <2>6
  <1>15. CASE RecOpen
    <2>1. /\ UNCHANGED <<m_pSndbuf, m_inputBuffers, m_fullBuffers, mem, i, sz, m_binitialized,
                       dst, reads, lastSize>>
          /\ pc["rec"] = "wait" /\ m_binitialized
          /\ pc' = [pc EXCEPT !["rec"] = "take", !["enc"] = "test"]
      BY <1>15 DEF RecOpen
    <2>2. pc'["prep"] = pc["prep"] /\ pc'["rec"] = "take"
      <3>1. DOMAIN pc = {"prep", "rec", "enc"}
        OBVIOUS
      <3> HIDE DEF IInv, TypeOK, Pointers, Supply, FirstSecond, Drain, PrepPlaces, RecPlaces,
                   EncPlaces
      <3> QED
        BY <2>1, <3>1
    <2>3. QED
      BY <2>1, <2>2
  <1>16. CASE RecOpenFails
    BY <1>16 DEF RecOpenFails
  <1>17. CASE RecTake
    <2>1. reads' = reads + 1 /\ Len(m_inputBuffers) \in Nat
      BY <1>17, LenProperties DEF RecTake
    <2>2. QED
      BY <1>17, <2>1, SMTT(30) DEF RecTake
  <1>18. CASE RecPop
    <2>1. Len(m_inputBuffers') = Len(m_inputBuffers) - 1 /\ Len(m_inputBuffers) \in Nat
      BY <1>18, HeadTailProperties, LenProperties DEF RecPop
    <2>2. Pointers' /\ Drain'
      BY <1>18 DEF RecPop
    <2>3. /\ UNCHANGED <<i, sz, m_binitialized, reads>>
          /\ pc'["prep"] = pc["prep"] /\ pc'["rec"] = "call" /\ pc["rec"] = "look"
          /\ m_binitialized
      BY <1>18 DEF RecPop
    <2>4. Supply'
      <3> DEFINE L == Len(m_inputBuffers)
                 M == Len(m_inputBuffers')
      <3>1. L \in Nat /\ M = L - 1
        BY <2>1
      <3>2. L <= MIN_BUFFERS + OneSecond => M <= MIN_BUFFERS + OneSecond
        BY <3>1
      <3>3. L <= MIN_BUFFERS + i => M <= MIN_BUFFERS + i
        BY <3>1
      <3>4. L <= sz => M <= sz
        BY <3>1
      <3> HIDE DEF L, M
      <3>5. QED
        BY <2>3, <3>2, <3>3, <3>4 DEF L, M
    <2>5. FirstSecond'
      BY <2>1, <2>3
    <2>6. QED
      BY <2>2, <2>4, <2>5
  <1>19. CASE RecNull
    BY <1>19 DEF RecNull
  <1>20. CASE RecNew
    <2>1. NewBuffer \in SndBuffer
      BY DEF NewBuffer, SndBuffer
    <2>2. mem' # << >>
      BY <1>20, <2>1, AppendProperties, SMTT(30) DEF RecNew
    <2>3. m_pSndbuf' # 0
      BY <1>20, LenProperties DEF RecNew
    <2>4. QED
      BY <1>20, <2>2, <2>3, SMTT(30) DEF RecNew
  <1>21. CASE RecZero
    BY <1>21 DEF RecZero
  <1>22. CASE RecUnlock
    BY <1>22 DEF RecUnlock
  <1>23. CASE RecReadCall
    BY <1>23 DEF RecReadCall
  <1>24. CASE RecReadReturn
    BY <1>24 DEF RecReadReturn
  <1>25. CASE RecReadFails
    BY <1>25 DEF RecReadFails
  <1>26. CASE RecCount
    BY <1>26 DEF RecCount
  <1>27. CASE RecPush
    BY <1>27 DEF RecPush
  <1>28. CASE RecStop
    BY <1>28 DEF RecStop
  <1>29. CASE RecJoin
    BY <1>29 DEF RecJoin
  <1>30. CASE RecDrainNothing
    BY <1>30 DEF RecDrainNothing, ShipNothing
  <1>31. CASE RecDrainTake
    <2>1. /\ Head(m_fullBuffers) \in Buffers
          /\ Len(m_fullBuffers') = Len(m_fullBuffers) - 1
      BY <1>31, HeadTailProperties DEF RecDrainTake, ShipTake
    <2>2. m_pSndbuf' # 0
      BY <1>31, <2>1 DEF RecDrainTake, ShipTake, Buffers
    <2>3. QED
      BY <1>31, <2>1, <2>2 DEF RecDrainTake, ShipTake
  <1>32. CASE RecClose
    BY <1>32 DEF RecClose
  <1>33. CASE Undefined \/ UNCHANGED vars
    <2>1. UNCHANGED vars
      BY <1>33 DEF Undefined
    <2>2. QED
      BY <2>1 DEF vars
  <1>34. QED
    <2>1. ASSUME RecDrainWrite PROVE (Pointers /\ Supply /\ FirstSecond /\ Drain)'
      <3>1. PICK next : /\ next = IF lastSize["rec"] # 0 THEN "drain" ELSE "pclose"
                        /\ ShipLength("rec") \/ ShipData("rec") \/ ShipWrite("rec", next)
        BY <2>1 DEF RecDrainWrite
      <3> QED
        BY <3>1, <1>10, <1>11, <1>12
    <2>2. ASSUME EncShipWrite PROVE (Pointers /\ Supply /\ FirstSecond /\ Drain)'
      BY <2>2, <1>10, <1>11, <1>12 DEF EncShipWrite
    <2>3. ASSUME \/ NullUsed("prep", {"zero"}) \/ NullUsed("enc", {"length", "processed"})
                 \/ RecTakeWild \/ RecPopEmpty
          PROVE  Crash /\ m_binitialized
      <3>1. mem # << >> => (m_pSndbuf # 0 \/ m_binitialized)
        BY DEF Pointers
      <3> QED
        BY <2>3, <3>1 DEF NullUsed, RecTakeWild, RecPopEmpty, Pointers
    <2> QED
      BY <1>1, <1>2, <1>3, <1>4, <1>5, <1>6, <1>7, <1>8, <1>9, <1>10, <1>11, <1>12,
         <1>13, <1>14, <1>15, <1>16, <1>17, <1>18, <1>19, <1>20, <1>21, <1>22,
         <1>23, <1>24, <1>25, <1>26, <1>27, <1>28, <1>29, <1>30, <1>31, <1>32,
         <1>33, <2>1, <2>2, <2>3 DEF Next, Prep, Enc, Rec

-----------------------------------------------------------------------------
LEMMA Invariance == Spec => []IInv
  <1>1. IInv /\ [Next]_vars => IInv'
    BY TypeStep, ControlStep DEF IInv
  <1>2. QED
    BY InitHolds, <1>1, PTL DEF Spec

(* The variables keep their types: every queue entry and every pointer in  *)
(* use names a buffer that has been allocated.                             *)
THEOREM TypeCorrect == Spec => []TypeOK
  <1>1. IInv => TypeOK
    BY DEF IInv
  <1>2. QED
    BY Invariance, <1>1, PTL

(* Whatever the interleaving, the supply thread never queues more than one *)
(* refill above its threshold.                                             *)
THEOREM InputQueueBounded == Spec => []InputBounded
  <1>1. IInv => InputBounded
    BY DEF IInv, Supply
  <1>2. QED
    BY Invariance, <1>1, PTL

(* For the first OneSecond iterations the recorder finds a buffer waiting. *)
THEOREM NoStarvationInFirstSecond == Spec => []FirstSecondCovered
  <1>1. IInv => FirstSecondCovered
    <2> SUFFICES ASSUME IInv, pc["rec"] = "take", reads < OneSecond,
                        m_inputBuffers = << >>
                 PROVE  FALSE
      BY DEF FirstSecondCovered, At
    <2>1. m_binitialized
      BY DEF IInv, Pointers
    <2>2. Len(m_inputBuffers) = 0
      BY EmptySeq
    <2>3. QED
      BY <2>1, <2>2, RecorderAssumption DEF IInv, TypeOK, FirstSecond
  <1>2. QED
    BY Invariance, <1>1, PTL

(* start never closes the pipe over a buffer that is still queued.         *)
THEOREM QueueDrainedAtClose == Spec => []NothingLeftQueued
  <1>1. IInv => NothingLeftQueued
    BY DEF IInv, Drain
  <1>2. QED
    BY Invariance, <1>1, PTL

-----------------------------------------------------------------------------
(***************************************************************************)
(* Recorder implements Capture, as long as no thread uses a pointer in     *)
(* m_pSndbuf that another one has assigned.                                *)
(***************************************************************************)

RaceFreeNext == Next /\ ~raced'

(* Thread t ships a buffer it took from the full queue and has not yet     *)
(* written.  Until both arguments of write() are loaded the buffer is the  *)
(* one in m_pSndbuf, unless another thread has assigned that.              *)
Held(t) ==
  \/ pc[t] \in {"length", "data"} /\ setter = t
  \/ pc[t] = "write"

InHand == Held("enc") \/ Held("rec")

Hand == IF pc["enc"] = "write" \/ pc["rec"] = "write" THEN out.src ELSE m_pSndbuf

(* The recorder has begun an iteration and not yet read, or has read into  *)
(* a buffer that is not yet queued.                                        *)
Unread   == pc["rec"] \in {"look", "new", "zero", "unlock", "call", "read"}
Recorded == pc["rec"] \in {"count", "push"}

(* The buffers between the card and the encoder.                           *)
Pending(b) ==
  \/ \E k \in DOMAIN m_fullBuffers : m_fullBuffers[k] = b
  \/ Recorded /\ b = dst
  \/ InHand /\ b = Hand

Empties(b) == \E k \in DOMAIN m_inputBuffers : m_inputBuffers[k] = b

(* A failed read left -1 in the other ones. *)
Good(b) == mem[b].used # ULong - 1

(* Whoever assigned m_pSndbuf last, and has not queued it yet, has a       *)
(* buffer nobody else has; so has the recorder while it reads.             *)
Current ==
  \/ setter = "prep" /\ pc["prep"] \in {"zero", "push", "pushing"}
  \/ setter = "rec" /\ pc["rec"] \in {"zero", "unlock", "call"}

Apart ==
  /\ \A k \in DOMAIN m_inputBuffers : m_inputBuffers[k] # 0
  /\ \A k, l \in DOMAIN m_inputBuffers : m_inputBuffers[k] = m_inputBuffers[l] => k = l
  /\ \A b \in Buffers : ~(Empties(b) /\ Pending(b))
  /\ Current => m_pSndbuf \in Buffers /\ ~Empties(m_pSndbuf) /\ ~Pending(m_pSndbuf)
  /\ At("rec", "read") => ~Empties(dst) /\ ~Pending(dst)
  /\ At("rec", "read") /\ Current => m_pSndbuf # dst
  /\ pc["rec"] \in {"read", "count", "push"} =>
       /\ dst \in Buffers
       /\ setter = "rec" => m_pSndbuf = dst
  /\ InHand => Hand \in Buffers
  /\ At("rec", "look") /\ setter = "rec" /\ m_pSndbuf # 0 =>
       /\ m_inputBuffers # << >>
       /\ m_pSndbuf = m_inputBuffers[1]

(* A pending buffer has a length, and the one being shipped has the length *)
(* write() will be given.                                                  *)
Sized ==
  /\ \A b \in Buffers : Pending(b) => mem[b].used # 0
  /\ \A t \in {"enc", "rec"} : Held(t) /\ pc[t] # "length" => out.len = mem[Hand].used

(* The chunks are numbered by the iterations that read them.               *)
Numbered ==
  /\ \A k, l \in DOMAIN captured : k < l => captured[k] < captured[l]
  /\ \A k \in DOMAIN captured : captured[k] <= reads
  /\ Unread => \A k \in DOMAIN captured : captured[k] < reads

(* A thread has lost the buffer it was to write, and waits for ever in a   *)
(* run without races; or the program is undefined.                         *)
Stuck ==
  \/ At("rec", "undefined")
  \/ \E t \in {"enc", "rec"} : pc[t] \in {"length", "data"} /\ setter # t

Undelivered == Len(written) + 1 .. Len(captured)

(* The pending buffers hold the undelivered chunks, in order.              *)
InOrder ==
  /\ \A k, l \in DOMAIN m_fullBuffers :
       k < l /\ Good(m_fullBuffers[k]) /\ Good(m_fullBuffers[l]) =>
         mem[m_fullBuffers[k]].chunk < mem[m_fullBuffers[l]].chunk
  /\ InHand /\ Good(Hand) =>
       \A k \in DOMAIN m_fullBuffers : Good(m_fullBuffers[k]) =>
         mem[Hand].chunk < mem[m_fullBuffers[k]].chunk
  /\ Recorded /\ Good(dst) => mem[dst].chunk = reads
  /\ Unread \/ Recorded =>
       /\ \A k \in DOMAIN m_fullBuffers : Good(m_fullBuffers[k]) =>
            mem[m_fullBuffers[k]].chunk < reads
       /\ InHand /\ Good(Hand) => mem[Hand].chunk < reads

Complete ==
  /\ Len(written) <= Len(captured)
  /\ \A k \in DOMAIN written : written[k] = captured[k]
  /\ \A k \in Undelivered :
       \E b \in Buffers : Pending(b) /\ Good(b) /\ mem[b].chunk = captured[k]
  /\ \A b \in Buffers : Pending(b) /\ Good(b) =>
       \E k \in Undelivered : mem[b].chunk = captured[k]

Together == At("rec", "undefined") => pc["enc"] = "undefined" /\ pc["prep"] = "undefined"

Pipelined ==
  /\ Together /\ Apart /\ Sized /\ Numbered
  /\ ~Stuck => InOrder /\ Complete

(* start creates the encode thread. *)
NoEncoderYet == At("rec", "wait") => At("enc", "off")

PInv == IInv /\ Pipelined /\ NoEncoderYet

-----------------------------------------------------------------------------
LEMMA InitPipeline == Init => PInv
<1> SUFFICES ASSUME Init PROVE PInv
  OBVIOUS
<1>1. IInv
  BY InitHolds
<1>2. /\ pc["rec"] = "wait" /\ pc["enc"] = "off" /\ pc["prep"] = "alloc"
      /\ Len(captured) = 0 /\ Len(written) = 0
      /\ DOMAIN captured = {} /\ DOMAIN written = {}
      /\ DOMAIN m_fullBuffers = {} /\ DOMAIN m_inputBuffers = {}
  BY DEF Init
<1>3. ~InHand /\ ~Recorded /\ ~Current /\ ~Unread /\ \A t \in {"enc", "rec"} : ~Held(t)
  BY <1>2 DEF InHand, Held, Recorded, Current, Unread
<1>4. \A b : ~Pending(b) /\ ~Empties(b)
  BY <1>2, <1>3 DEF Pending, Empties
<1>5. Together /\ Apart /\ Sized /\ Numbered
  BY <1>2, <1>3, <1>4 DEF Together, Apart, Sized, Numbered, At
<1>6. InOrder
  BY <1>2, <1>3 DEF InOrder
<1>7. Complete
  <2>1. Undelivered = {}
    BY <1>2 DEF Undelivered
  <2> QED
    BY <1>2, <1>4, <2>1 DEF Complete
<1> QED
  BY <1>1, <1>2, <1>5, <1>6, <1>7 DEF PInv, Pipelined, NoEncoderYet, At

(* What the types say of the sequences, index by index.                    *)
LEMMA Elements ==
  ASSUME IInv, Apart
  PROVE  /\ Len(mem) \in Nat /\ reads \in Nat
         /\ m_fullBuffers \in Seq(Buffers) /\ m_inputBuffers \in Seq(Buffers \cup {0})
         /\ DOMAIN m_fullBuffers = 1..Len(m_fullBuffers) /\ Len(m_fullBuffers) \in Nat
         /\ DOMAIN m_inputBuffers = 1..Len(m_inputBuffers) /\ Len(m_inputBuffers) \in Nat
         /\ \A k \in DOMAIN m_fullBuffers : m_fullBuffers[k] \in Buffers
         /\ \A k \in DOMAIN m_inputBuffers : m_inputBuffers[k] \in Buffers
         /\ DOMAIN captured = 1..Len(captured) /\ Len(captured) \in Nat
         /\ DOMAIN written = 1..Len(written) /\ Len(written) \in Nat
         /\ \A k \in DOMAIN captured : captured[k] \in Nat
         /\ \A b \in Buffers : mem[b] \in SndBuffer /\ mem[b].chunk \in Nat
<1> USE DEF IInv, TypeOK
<1>1. Len(mem) \in Nat /\ reads \in Nat
  BY LenProperties, RecorderAssumption
<1>2. /\ DOMAIN m_fullBuffers = 1..Len(m_fullBuffers) /\ Len(m_fullBuffers) \in Nat
      /\ \A k \in DOMAIN m_fullBuffers : m_fullBuffers[k] \in Buffers
  BY LenProperties, ElementOfSeq
<1>3. /\ DOMAIN m_inputBuffers = 1..Len(m_inputBuffers) /\ Len(m_inputBuffers) \in Nat
      /\ \A k \in DOMAIN m_inputBuffers : m_inputBuffers[k] \in Buffers \cup {0}
  BY LenProperties, ElementOfSeq
<1>a. \A k \in DOMAIN m_inputBuffers : m_inputBuffers[k] \in Buffers
  BY <1>3 DEF Apart
<1>4. /\ DOMAIN captured = 1..Len(captured) /\ Len(captured) \in Nat
      /\ \A k \in DOMAIN captured : captured[k] \in 1..MaxReads
  <2>1. captured \in Seq(1..MaxReads)
    OBVIOUS
  <2> HIDE DEF IInv, TypeOK
  <2>2. DOMAIN captured = 1..Len(captured) /\ Len(captured) \in Nat
    BY <2>1, LenProperties
  <2> QED
    BY <2>1, <2>2, ElementOfSeq
<1>5. \A k \in DOMAIN captured : captured[k] \in Nat
  BY <1>4
<1>6. DOMAIN written = 1..Len(written) /\ Len(written) \in Nat
  BY LenProperties
<1>7. \A b \in Buffers : mem[b] \in SndBuffer
  BY ElementOfSeq DEF Buffers
<1>8. \A b \in Buffers : mem[b].chunk \in Nat
  BY <1>1, <1>7 DEF SndBuffer
<1> QED
  BY <1>1, <1>2, <1>3, <1>a, <1>4, <1>5, <1>6, <1>7, <1>8

(* What the thread holds or has queued is a buffer.                        *)
LEMMA PendingBuffers ==
  ASSUME IInv, Apart
  PROVE  \A b : (Pending(b) \/ Empties(b)) => b \in Buffers
<1>1. InHand => Hand \in Buffers
  BY DEF Apart
<1>2. Recorded => dst \in Buffers
  BY DEF Recorded, Apart
<1> QED
  BY <1>1, <1>2, Elements DEF Pending, Empties

(* The places that say who ships are the same. *)
SamePlaces ==
  /\ out' = out
  /\ \A t \in {"enc", "rec"} :
       /\ pc'[t] = "length" <=> pc[t] = "length"
       /\ pc'[t] = "data" <=> pc[t] = "data"
       /\ pc'[t] = "write" <=> pc[t] = "write"
  /\ pc'["rec"] = "undefined" <=> pc["rec"] = "undefined"

(* A step that leaves m_pSndbuf as it is leaves the buffer in hand.        *)
LEMMA SameHand ==
  ASSUME SamePlaces, UNCHANGED <<m_pSndbuf, setter>>
  PROVE  /\ InHand' <=> InHand
         /\ Hand' = Hand
         /\ \A t \in {"enc", "rec"} : Held(t)' <=> Held(t)
         /\ Stuck' <=> Stuck
<1>1. \A t \in {"enc", "rec"} : Held(t)' <=> Held(t)
  BY DEF SamePlaces, Held
<1>2. InHand' <=> InHand
  BY <1>1 DEF InHand
<1>3. Hand' = Hand
  BY DEF SamePlaces, Hand
<1>4. Stuck' <=> Stuck
  BY DEF SamePlaces, Stuck, At
<1> QED
  BY <1>1, <1>2, <1>3, <1>4

(* A step in which a assigns it leaves a buffer that write() has in hand,  *)
(* and a thread that has not come as far is stuck.                         *)
LEMMA AssignedHand ==
  ASSUME SamePlaces, NEW a \in {"prep", "rec"}, setter' = a,
         a = "rec" => pc["rec"] \notin {"length", "data"}
  PROVE  /\ InHand' => InHand /\ Hand' = Hand
         /\ ~Stuck' => ~Stuck /\ (InHand' <=> InHand)
         /\ \A t \in {"enc", "rec"} : Held(t)' => Held(t) /\ pc'[t] = "write" /\ pc[t] = "write"
<1>1. \A t \in {"enc", "rec"} : Held(t)' => Held(t) /\ pc'[t] = "write" /\ pc[t] = "write"
  BY DEF SamePlaces, Held
<1>2. InHand' => InHand /\ Hand' = Hand
  BY <1>1 DEF InHand, Hand, SamePlaces
<1>3. ASSUME ~Stuck'
      PROVE  ~Stuck /\ (InHand' <=> InHand)
  <2>1. \A t \in {"enc", "rec"} : pc[t] \notin {"length", "data"}
    <3>1. pc["enc"] \notin {"length", "data"}
      BY <1>3 DEF Stuck, SamePlaces
    <3>2. pc["rec"] \notin {"length", "data"}
      BY <1>3 DEF Stuck, SamePlaces
    <3> QED
      BY <3>1, <3>2
  <2>2. ~Stuck
    BY <1>3, <2>1 DEF Stuck, At, SamePlaces
  <2>3. InHand => InHand'
    BY <2>1 DEF InHand, Held, SamePlaces
  <2> QED
    BY <1>2, <2>2, <2>3
<1> QED
  BY <1>1, <1>2, <1>3

(* The pending buffers are among those that were, with their contents.     *)
LEMMA SameSizes ==
  ASSUME PInv, SamePlaces,
         InHand' => Hand' = Hand,
         \A t \in {"enc", "rec"} : Held(t)' => Held(t),
         \A b : Pending(b)' => Pending(b),
         \A b : Pending(b)' => mem'[b] = mem[b]
  PROVE  Sized'
<1>1. Sized
  BY DEF PInv, Pipelined
<1>2. \A b \in Buffers' : Pending(b)' => mem'[b].used # 0
  BY <1>1, PendingBuffers DEF Sized, PInv, Pipelined
<1>3. ASSUME NEW t \in {"enc", "rec"}, Held(t)', pc'[t] # "length"
      PROVE  out'.len = mem'[Hand'].used
  <2>1. Held(t) /\ pc[t] # "length"
    BY <1>3 DEF SamePlaces
  <2>2. InHand' /\ Hand' = Hand
    BY <1>3 DEF InHand
  <2>3. mem'[Hand] = mem[Hand]
    <3>1. \A b : b = Hand' => Pending(b)'
      BY <2>2 DEF Pending
    <3> QED
      BY <2>2, <3>1
  <2> QED
    BY <1>1, <2>1, <2>2, <2>3 DEF Sized, SamePlaces
<1> QED
  BY <1>2, <1>3 DEF Sized

(* The undelivered chunks are in the same buffers, whose contents stay.    *)
LEMMA SameChunks ==
  ASSUME PInv, ~Stuck, UNCHANGED <<captured, written>>, Buffers \subseteq Buffers',
         \A b : Pending(b)' <=> Pending(b),
         \A b : Pending(b) => mem'[b] = mem[b]
  PROVE  Complete'
<1>1. Complete /\ IInv /\ Apart
  BY DEF PInv, Pipelined
<1>2. Undelivered' = Undelivered
  BY DEF Undelivered
<1>3. \A b : Pending(b) => (Good(b)' <=> Good(b))
  BY DEF Good
<1>4. \A k \in Undelivered' :
        \E b \in Buffers' : Pending(b)' /\ Good(b)' /\ mem'[b].chunk = captured'[k]
  BY <1>1, <1>2, <1>3 DEF Complete
<1>5. \A b \in Buffers' : Pending(b)' /\ Good(b)' =>
        \E k \in Undelivered' : mem'[b].chunk = captured'[k]
  BY <1>1, <1>2, <1>3, PendingBuffers DEF Complete
<1> QED
  BY <1>1, <1>4, <1>5 DEF Complete

(* The full queue and what joins it stay, and at most a hand is emptied.   *)
LEMMA SameOrder ==
  ASSUME PInv, ~Stuck, UNCHANGED <<m_fullBuffers, reads>>,
         Unread' \/ Recorded' => Unread \/ Recorded,
         Recorded' => Recorded /\ dst' = dst /\ mem'[dst] = mem[dst],
         \A k \in DOMAIN m_fullBuffers : mem'[m_fullBuffers[k]] = mem[m_fullBuffers[k]],
         InHand' => InHand /\ Hand' = Hand /\ mem'[Hand] = mem[Hand]
  PROVE  InOrder'
<1>1. InOrder
  BY DEF PInv, Pipelined
<1>2. \A k \in DOMAIN m_fullBuffers' :
        /\ m_fullBuffers'[k] = m_fullBuffers[k]
        /\ mem'[m_fullBuffers'[k]] = mem[m_fullBuffers[k]]
  OBVIOUS
<1>3. \A k, l \in DOMAIN m_fullBuffers' :
        k < l /\ mem'[m_fullBuffers'[k]].used # ULong - 1
              /\ mem'[m_fullBuffers'[l]].used # ULong - 1 =>
          mem'[m_fullBuffers'[k]].chunk < mem'[m_fullBuffers'[l]].chunk
  BY <1>1, <1>2 DEF InOrder, Good
<1>4. InHand' /\ mem'[Hand'].used # ULong - 1 =>
        \A k \in DOMAIN m_fullBuffers' : mem'[m_fullBuffers'[k]].used # ULong - 1 =>
          mem'[Hand'].chunk < mem'[m_fullBuffers'[k]].chunk
  BY <1>1, <1>2 DEF InOrder, Good
<1>5. Recorded' /\ mem'[dst'].used # ULong - 1 => mem'[dst'].chunk = reads'
  BY <1>1 DEF InOrder, Good
<1>6. Unread' \/ Recorded' =>
        /\ \A k \in DOMAIN m_fullBuffers' : mem'[m_fullBuffers'[k]].used # ULong - 1 =>
             mem'[m_fullBuffers'[k]].chunk < reads'
        /\ InHand' /\ mem'[Hand'].used # ULong - 1 => mem'[Hand'].chunk < reads'
  BY <1>1, <1>2 DEF InOrder, Good
<1> QED
  BY <1>3, <1>4, <1>5, <1>6 DEF InOrder, Good

(* Steps that touch no chunk and no buffer but the current one.            *)
LEMMA QuietStep ==
  ASSUME PInv, SamePlaces, Buffers' = Buffers,
         \A b : Pending(b) => mem'[b] = mem[b],
         UNCHANGED <<m_pSndbuf, setter, m_inputBuffers, m_fullBuffers, reads,
                     captured, written, dst>>,
         pc["rec"] = "undefined" => pc' = pc,
         pc'["rec"] = "look" => pc["rec"] = "look",
         pc'["rec"] \in {"zero", "unlock", "call"} => pc["rec"] \in {"zero", "unlock", "call"},
         pc'["rec"] = "read" => pc["rec"] = "read",
         Recorded' <=> Recorded,
         Unread' => Unread,
         pc'["prep"] \in {"zero", "push", "pushing"} =>
           pc["prep"] \in {"zero", "push", "pushing"}
  PROVE  Pipelined'
<1>1. /\ InHand' <=> InHand
      /\ Hand' = Hand
      /\ \A t \in {"enc", "rec"} : Held(t)' <=> Held(t)
      /\ Stuck' <=> Stuck
  BY SameHand
<1>2. \A b : (Pending(b)' <=> Pending(b)) /\ (Empties(b)' <=> Empties(b))
  BY <1>1 DEF Pending, Empties
<1>4. Current' => Current
  BY DEF Current
<1>5. Together'
  BY DEF PInv, Pipelined, Together, At, SamePlaces
<1>6. Apart'
  <2>1. pc'["rec"] \in {"read", "count", "push"} => pc["rec"] \in {"read", "count", "push"}
    BY DEF Recorded
  <2>2. (Pending(m_pSndbuf)' <=> Pending(m_pSndbuf))
        /\ (Empties(m_pSndbuf)' <=> Empties(m_pSndbuf))
    BY <1>1 DEF Pending, Empties
  <2>3. (Pending(dst)' <=> Pending(dst)) /\ (Empties(dst)' <=> Empties(dst))
    BY <1>1 DEF Pending, Empties
  <2>4. Apart
    BY DEF PInv, Pipelined
  <2> HIDE DEF PInv
  <2> QED
    BY <1>1, <1>2, <1>4, <2>1, <2>2, <2>3, <2>4 DEF Apart, At
<1>7. Numbered'
  BY DEF PInv, Pipelined, Numbered
<1>8. Sized'
  BY <1>1, <1>2, SameSizes
<1>9. ASSUME ~Stuck' PROVE InOrder' /\ Complete'
  <2>1. Complete'
    BY <1>1, <1>2, <1>9, SameChunks
  <2>2. /\ \A k \in DOMAIN m_fullBuffers : mem'[m_fullBuffers[k]] = mem[m_fullBuffers[k]]
        /\ Recorded => mem'[dst] = mem[dst]
        /\ InHand => mem'[Hand] = mem[Hand]
    BY DEF Pending
  <2>3. InOrder'
    BY <1>1, <1>9, <2>2, SameOrder
  <2> QED
    BY <2>1, <2>3
<1> QED
  BY <1>5, <1>6, <1>7, <1>8, <1>9 DEF Pipelined

(* A new buffer is nobody's, and a hand that has got as far as write()     *)
(* keeps its own.                                                          *)
LEMMA AllocStep ==
  ASSUME PInv, NEW a \in {"prep", "rec"}, setter' = a, SamePlaces,
         mem' = Append(mem, NewBuffer), m_pSndbuf' = Len(mem) + 1,
         UNCHANGED <<m_inputBuffers, m_fullBuffers, reads, captured, written, dst>>,
         a = "prep" => pc'["rec"] = pc["rec"],
         a = "rec" => pc["rec"] = "new" /\ pc'["rec"] = "zero",
         pc["rec"] = "undefined" => pc' = pc
  PROVE  Pipelined'
<1>1. /\ InHand' => InHand /\ Hand' = Hand
      /\ ~Stuck' => ~Stuck /\ (InHand' <=> InHand)
      /\ \A t \in {"enc", "rec"} : Held(t)' => Held(t) /\ pc'[t] = "write" /\ pc[t] = "write"
  BY AssignedHand
<1>2. (Recorded' <=> Recorded) /\ (Unread' <=> Unread)
  BY DEF Recorded, Unread
<1>3. IInv /\ Apart
  BY DEF PInv, Pipelined
<1>4. /\ Buffers \subseteq Buffers' /\ Len(mem) + 1 \notin Buffers /\ Len(mem) + 1 \in Buffers'
      /\ \A b \in Buffers : mem'[b] = mem[b]
  <2>1. mem \in Seq(SndBuffer) /\ Len(mem) \in Nat
    BY <1>3, Elements DEF IInv, TypeOK
  <2>2. NewBuffer \in SndBuffer
    BY <1>3, Elements, RecorderAssumption DEF NewBuffer, SndBuffer
  <2>3. Len(mem') = Len(mem) + 1 /\ \A b \in 1..Len(mem) : mem'[b] = mem[b]
    BY <2>1, <2>2, AppendProperties
  <2> QED
    BY <2>1, <2>3 DEF Buffers
<1>5. \A b : (Pending(b)' => Pending(b)) /\ (Empties(b)' <=> Empties(b))
  BY <1>1, <1>2 DEF Pending, Empties
<1>6. \A b : Pending(b) \/ Empties(b) => b \in Buffers
  BY <1>3, PendingBuffers
<1>7. Together'
  BY DEF PInv, Pipelined, Together, At
<1>8. Apart'
  <2>1. ~Empties(m_pSndbuf)' /\ ~Pending(m_pSndbuf)'
    <3>1. \A b : b = Len(mem) + 1 => ~Empties(b)' /\ ~Pending(b)'
      BY <1>4, <1>5, <1>6
    <3>2. \A k \in DOMAIN m_inputBuffers' : m_inputBuffers'[k] # m_pSndbuf'
      BY <3>1 DEF Empties
    <3>3. /\ \A k \in DOMAIN m_fullBuffers' : m_fullBuffers'[k] # m_pSndbuf'
          /\ ~(Recorded' /\ m_pSndbuf' = dst')
          /\ ~(InHand' /\ m_pSndbuf' = Hand')
      BY <3>1 DEF Pending
    <3> QED
      BY <3>2, <3>3 DEF Empties, Pending
  <2>2. At("rec", "read")' =>
          a = "prep" /\ dst \in Buffers /\ ~Empties(dst)' /\ ~Pending(dst)'
    <3> SUFFICES ASSUME pc'["rec"] = "read"
                 PROVE  a = "prep" /\ dst \in Buffers /\ ~Empties(dst)' /\ ~Pending(dst)'
      BY DEF At
    <3>1. a = "prep" /\ pc["rec"] = "read"
      OBVIOUS
    <3>2. ~Empties(dst) /\ ~Pending(dst) /\ dst \in Buffers
      BY <1>3, <3>1 DEF Apart, At
    <3> QED
      BY <1>1, <1>2, <3>1, <3>2 DEF Empties, Pending
  <2>3. \A b \in Buffers' : ~(Empties(b)' /\ Pending(b)')
    BY <1>3, <1>5, <1>6 DEF Apart
  <2>4. pc'["rec"] \in {"read", "count", "push"} => dst' \in Buffers' /\ setter' # "rec"
    BY <1>3, <1>4 DEF Apart
  <2>5. InHand' => Hand' \in Buffers'
    BY <1>1, <1>3, <1>4 DEF Apart
  <2>6. pc'["rec"] = "look" => setter' # "rec"
    OBVIOUS
  <2> QED
    BY <1>3, <1>4, <2>1, <2>2, <2>3, <2>4, <2>5, <2>6 DEF Apart, At
<1>9. Numbered'
  BY <1>2 DEF PInv, Pipelined, Numbered
<1>10. Sized'
  BY <1>1, <1>4, <1>5, <1>6, SameSizes
<1>11. ASSUME ~Stuck' PROVE InOrder' /\ Complete'
  <2>1. \A b : Pending(b)' <=> Pending(b)
    BY <1>1, <1>2, <1>11 DEF Pending
  <2>2. Complete'
    BY <1>1, <1>4, <1>6, <1>11, <2>1, SameChunks
  <2>3. /\ \A k \in DOMAIN m_fullBuffers : mem'[m_fullBuffers[k]] = mem[m_fullBuffers[k]]
        /\ Recorded => mem'[dst] = mem[dst]
        /\ InHand => mem'[Hand] = mem[Hand]
    BY <1>4, <1>6 DEF Pending
  <2>4. InOrder'
    BY <1>1, <1>2, <1>11, <2>3, SameOrder
  <2> QED
    BY <2>2, <2>4
<1> QED
  BY <1>7, <1>8, <1>9, <1>10, <1>11 DEF Pipelined

LEMMA AllocSteps ==
  ASSUME PInv, PrepAlloc \/ RecNew
  PROVE  Pipelined'
<1>1. pc \in [Threads -> PrepPlaces \cup RecPlaces \cup EncPlaces]
  BY DEF PInv, IInv, TypeOK
<1>2. CASE PrepAlloc
  <2>1. /\ setter' = "prep" /\ mem' = Append(mem, NewBuffer) /\ m_pSndbuf' = Len(mem) + 1
        /\ pc["prep"] = "alloc" /\ pc' = [pc EXCEPT !["prep"] = "zero"]
        /\ UNCHANGED <<m_inputBuffers, m_fullBuffers, reads, captured, written, dst, out>>
    BY <1>2 DEF PrepAlloc, Assign, Goto, At, queues, recVars, encVars
  <2>2. pc'["rec"] = pc["rec"] /\ pc'["enc"] = pc["enc"] /\ pc["rec"] # "undefined"
    BY <1>1, <2>1 DEF Threads, PInv, Pipelined, Together, At
  <2>3. SamePlaces
    BY <2>1, <2>2 DEF SamePlaces
  <2> QED
    BY <2>1, <2>2, <2>3, AllocStep
<1>3. CASE RecNew
  <2>1. /\ setter' = "rec" /\ mem' = Append(mem, NewBuffer) /\ m_pSndbuf' = Len(mem) + 1
        /\ pc["rec"] = "new" /\ pc' = [pc EXCEPT !["rec"] = "zero"]
        /\ UNCHANGED <<m_inputBuffers, m_fullBuffers, reads, captured, written, dst, out>>
    BY <1>3 DEF RecNew, Assign, Goto, At, queues, prepVars, recVars, encVars
  <2>2. pc'["rec"] = "zero" /\ pc'["enc"] = pc["enc"]
    BY <1>1, <2>1 DEF Threads
  <2>3. SamePlaces
    BY <2>1, <2>2 DEF SamePlaces
  <2> QED
    BY <2>1, <2>2, <2>3, AllocStep
<1> QED
  BY <1>2, <1>3

(* A buffer is cleared by the thread that has it, and nobody else has.     *)
LEMMA ZeroSteps ==
  ASSUME PInv, PrepZero \/ RecZero, ~raced'
  PROVE  Pipelined'
<1>1. pc \in [Threads -> PrepPlaces \cup RecPlaces \cup EncPlaces]
  BY DEF PInv, IInv, TypeOK
<1>2. /\ UNCHANGED <<m_pSndbuf, setter, m_inputBuffers, m_fullBuffers, reads,
                     captured, written, dst, out>>
      /\ \/ /\ setter = "prep" /\ pc["prep"] = "zero" /\ pc' = [pc EXCEPT !["prep"] = "push"]
            /\ mem' = [mem EXCEPT ![m_pSndbuf] = NewBuffer]
         \/ /\ setter = "rec" /\ pc["rec"] = "zero" /\ pc' = [pc EXCEPT !["rec"] = "unlock"]
            /\ mem' = [mem EXCEPT ![m_pSndbuf].used = 0]
  BY DEF PrepZero, RecZero, Use, Goto, At, queues, recVars, encVars
<1>3. m_pSndbuf \in Buffers /\ ~Pending(m_pSndbuf)
  BY <1>2 DEF Current, PInv, Pipelined, Apart
<1>4. DOMAIN mem = Buffers /\ mem \in Seq(SndBuffer) /\ Len(mem) \in Nat
  BY LenProperties, Elements DEF PInv, IInv, TypeOK, Buffers, Pipelined
<1>5. mem' \in Seq(SndBuffer) /\ Len(mem') = Len(mem)
  <2>1. NewBuffer \in SndBuffer
    BY Elements, RecorderAssumption DEF NewBuffer, SndBuffer, PInv, Pipelined
  <2>2. mem[m_pSndbuf] \in SndBuffer
    BY <1>3, Elements DEF PInv, Pipelined
  <2>3. [mem[m_pSndbuf] EXCEPT !.used = 0] \in SndBuffer
    BY <2>2, RecorderAssumption DEF SndBuffer
  <2>4. \E z \in SndBuffer : mem' = [mem EXCEPT ![m_pSndbuf] = z]
    BY <1>2, <2>1, <2>3
  <2> QED
    BY <1>3, <1>4, <2>4, ExceptSeq DEF Buffers
<1>6. Buffers' = Buffers
  BY <1>5 DEF Buffers
<1>7. \A b \in Buffers : b # m_pSndbuf => mem'[b] = mem[b]
  BY <1>2, <1>4
<1>8. \A b : Pending(b) => mem'[b] = mem[b]
  BY <1>3, <1>7, PendingBuffers DEF PInv, Pipelined
<1>9. /\ pc["rec"] # "undefined" /\ pc'["enc"] = pc["enc"]
      /\ \/ pc'["rec"] = pc["rec"] /\ pc["prep"] = "zero" /\ pc'["prep"] = "push"
         \/ pc["rec"] = "zero" /\ pc'["rec"] = "unlock" /\ pc'["prep"] = pc["prep"]
  BY <1>1, <1>2 DEF Threads, PInv, Pipelined, Together, At
<1>10. SamePlaces /\ (Recorded' <=> Recorded) /\ (Unread' <=> Unread)
  BY <1>2, <1>9 DEF SamePlaces, Recorded, Unread
<1> QED
  BY <1>2, <1>6, <1>8, <1>9, <1>10, QuietStep

LEMMA PrepPushStep == ASSUME PInv, PrepPush, ~raced' PROVE Pipelined'
<1>1. /\ setter = "prep" /\ setter' = "prep" /\ m_pSndbuf' = m_pSndbuf
      /\ m_inputBuffers' = Append(m_inputBuffers, m_pSndbuf)
      /\ pc["prep"] = "pushing"
      /\ pc' = [pc EXCEPT !["prep"] = IF i + 1 < OneSecond THEN "alloc" ELSE "size"]
      /\ UNCHANGED <<m_fullBuffers, mem, reads, captured, written, dst, out>>
  BY DEF PrepPush, Use, Goto, At, queues, recVars, encVars
<1>2. pc'["rec"] = pc["rec"] /\ pc'["enc"] = pc["enc"] /\ pc'["prep"] \in {"alloc", "size"}
  BY <1>1 DEF PInv, IInv, TypeOK, Threads
<1>3. Current /\ ~Current' /\ SamePlaces /\ (Recorded' <=> Recorded) /\ (Unread' <=> Unread)
  BY <1>1, <1>2 DEF Current, SamePlaces, Recorded, Unread
<1>4. Apart /\ IInv
  BY DEF PInv, Pipelined
<1>5. m_pSndbuf \in Buffers /\ ~Pending(m_pSndbuf) /\ ~Empties(m_pSndbuf)
  BY <1>3, <1>4 DEF Apart
<1>a. /\ InHand' <=> InHand
      /\ Hand' = Hand
      /\ \A t \in {"enc", "rec"} : Held(t)' <=> Held(t)
      /\ Stuck' <=> Stuck
  BY <1>1, <1>3, SameHand
<1>6. /\ DOMAIN m_inputBuffers' = 1..(Len(m_inputBuffers) + 1)
      /\ \A k \in 1..Len(m_inputBuffers) : m_inputBuffers'[k] = m_inputBuffers[k]
      /\ m_inputBuffers'[Len(m_inputBuffers) + 1] = m_pSndbuf
      /\ DOMAIN m_inputBuffers = 1..Len(m_inputBuffers) /\ Len(m_inputBuffers) \in Nat
  <2>1. m_inputBuffers \in Seq(Buffers \cup {0})
    BY <1>4, Elements
  <2> QED
    BY <1>1, <1>5, <2>1, AppendProperties, LenProperties
<1>7. \A b : Pending(b)' <=> Pending(b)
  BY <1>1, <1>3, <1>a DEF Pending
<1>8. \A b : Empties(b)' <=> Empties(b) \/ b = m_pSndbuf
  BY <1>6 DEF Empties
<1>9. Together'
  BY <1>1, <1>2 DEF PInv, Pipelined, Together, At
<1>10. Apart'
  <2>2. Buffers' = Buffers
    BY <1>1 DEF Buffers
  <2>3. \A k, l \in DOMAIN m_inputBuffers' : m_inputBuffers'[k] = m_inputBuffers'[l] => k = l
    <3>1. \A k \in 1..Len(m_inputBuffers) : m_inputBuffers[k] # m_pSndbuf
      BY <1>5, <1>6 DEF Empties
    <3>2. \A k, l \in 1..Len(m_inputBuffers) : m_inputBuffers[k] = m_inputBuffers[l] => k = l
      BY <1>4, <1>6 DEF Apart
    <3> QED
      BY <1>6, <3>1, <3>2
  <2>4. \A b \in Buffers' : ~(Empties(b)' /\ Pending(b)')
    BY <1>4, <1>5, <1>7, <1>8, <2>2 DEF Apart
  <2>5. At("rec", "read")' => ~Empties(dst)' /\ ~Pending(dst)'
    <3> SUFFICES ASSUME pc["rec"] = "read" PROVE ~Empties(dst)' /\ ~Pending(dst)'
      BY <1>2 DEF At
    <3>1. ~Empties(dst) /\ ~Pending(dst) /\ m_pSndbuf # dst
      BY <1>3, <1>4 DEF Apart, At
    <3>2. ~Pending(dst)'
      BY <1>1, <1>3, <1>a, <3>1 DEF Pending
    <3>3. ~Empties(dst)'
      BY <1>1, <1>6, <3>1 DEF Empties
    <3> QED
      BY <3>2, <3>3
  <2>6. \A k \in DOMAIN m_inputBuffers' : m_inputBuffers'[k] # 0
    <3>1. m_pSndbuf # 0
      BY <1>4, <1>5, Elements DEF Buffers
    <3> QED
      BY <1>4, <1>6, <3>1 DEF Apart
  <2> QED
    BY <1>1, <1>2, <1>3, <1>4, <1>a, <2>2, <2>3, <2>4, <2>5, <2>6 DEF Apart, At
<1>11. Numbered'
  BY <1>1, <1>3 DEF PInv, Pipelined, Numbered
<1>12. Sized'
  BY <1>1, <1>3, <1>a, <1>7, SameSizes
<1>13. ASSUME ~Stuck'
       PROVE  InOrder' /\ Complete'
  <2>1. Buffers' = Buffers
    BY <1>1 DEF Buffers
  <2>2. Complete'
    BY <1>1, <1>a, <1>7, <1>13, <2>1, SameChunks
  <2>3. InOrder'
    BY <1>1, <1>3, <1>a, <1>13, SameOrder
  <2> QED
    BY <2>2, <2>3
<1> QED
  BY <1>9, <1>10, <1>11, <1>12, <1>13 DEF Pipelined

(* Only one of the two threads that ship does: start drains the queue once *)
(* the encoder has exited.                                                 *)
LEMMA OneShips ==
  ASSUME IInv
  PROVE  pc["rec"] \in {"drain", "length", "data", "write", "pclose", "closed"} =>
           pc["enc"] = "exited"
  BY DEF IInv, Drain

(* A thread that ships takes the head of the full queue into its hand.     *)
LEMMA TakeStep ==
  ASSUME PInv, NEW t \in {"enc", "rec"}, ShipTake(t),
         t = "enc" => pc["enc"] = "ship" /\ pc' = [pc EXCEPT !["enc"] = "length"],
         t = "rec" => pc["rec"] = "drain" /\ pc' = [pc EXCEPT !["rec"] = "length"]
  PROVE  Pipelined'
<1>1. /\ m_fullBuffers # << >>
      /\ m_pSndbuf' = Head(m_fullBuffers) /\ m_fullBuffers' = Tail(m_fullBuffers)
      /\ setter' = t
      /\ UNCHANGED <<m_inputBuffers, mem, reads, captured, written, dst, out>>
  BY DEF ShipTake, Assign, recVars
<1>2. /\ pc'["prep"] = pc["prep"]
      /\ t = "enc" => /\ pc["enc"] = "ship" /\ pc'["enc"] = "length" /\ pc'["rec"] = pc["rec"]
                      /\ pc["rec"] \notin {"length", "data", "write", "undefined"}
      /\ t = "rec" => /\ pc["rec"] = "drain" /\ pc'["rec"] = "length"
                      /\ pc["enc"] = "exited" /\ pc'["enc"] = "exited"
  BY OneShips DEF PInv, IInv, TypeOK, Threads, Pipelined, Together, At
<1>3. /\ ~InHand /\ InHand' /\ Hand' = m_pSndbuf' /\ ~Current'
      /\ \A u \in {"enc", "rec"} : Held(u)' => pc'[u] = "length"
  BY <1>1, <1>2 DEF InHand, Held, Hand, Current
<1>4. ~Stuck /\ ~Stuck'
  BY <1>1, <1>2 DEF Stuck, At
<1>5. /\ DOMAIN m_fullBuffers = 1..Len(m_fullBuffers) /\ Len(m_fullBuffers) \in Nat \ {0}
      /\ m_pSndbuf' = m_fullBuffers[1]
      /\ DOMAIN m_fullBuffers' = 1..(Len(m_fullBuffers) - 1)
      /\ \A k \in DOMAIN m_fullBuffers' :
           m_fullBuffers'[k] = m_fullBuffers[k + 1] /\ k + 1 \in DOMAIN m_fullBuffers
  BY <1>1, HeadTailProperties, LenProperties, EmptySeq DEF PInv, IInv, TypeOK
<1>6. (Recorded' <=> Recorded) /\ (Unread' <=> Unread)
  BY <1>2 DEF Recorded, Unread
<1>7. \A b : (\E k \in DOMAIN m_fullBuffers : m_fullBuffers[k] = b) <=>
             (\E k \in DOMAIN m_fullBuffers' : m_fullBuffers'[k] = b) \/ b = m_pSndbuf'
  <2> SUFFICES ASSUME NEW b, NEW k \in DOMAIN m_fullBuffers, m_fullBuffers[k] = b,
                      b # m_pSndbuf'
               PROVE  \E l \in DOMAIN m_fullBuffers' : m_fullBuffers'[l] = b
    BY <1>5
  <2>1. k - 1 \in DOMAIN m_fullBuffers' /\ m_fullBuffers'[k - 1] = b
    BY <1>5
  <2> QED
    BY <2>1
<1>8. \A b : (Pending(b)' <=> Pending(b)) /\ (Empties(b)' <=> Empties(b))
  BY <1>1, <1>3, <1>6, <1>7 DEF Pending, Empties
<1>9. Buffers' = Buffers
  BY <1>1 DEF Buffers
<1>10. Together'
  BY <1>2, OneShips DEF PInv, Pipelined, Together, At
<1>11. Apart'
  <2>1. Apart
    BY DEF PInv, Pipelined
  <2>2. At("rec", "read")' => ~Empties(dst)' /\ ~Pending(dst)'
    <3> SUFFICES ASSUME pc'["rec"] = "read"
                 PROVE  ~Empties(dst)' /\ ~Pending(dst)'
      BY DEF At
    <3>1. pc["rec"] = "read"
      BY <1>2
    <3>2. ~Empties(dst) /\ ~Pending(dst)
      BY <2>1, <3>1 DEF Apart, At
    <3>3. m_pSndbuf' # dst
      BY <1>5, <3>2 DEF Pending
    <3>4. ~Pending(dst)'
      BY <1>1, <1>3, <1>6, <1>7, <3>2, <3>3 DEF Pending
    <3> QED
      BY <1>1, <3>2, <3>4 DEF Empties
  <2>3. pc'["rec"] \in {"read", "count", "push"} => dst' \in Buffers' /\ setter' # "rec"
    BY <1>1, <1>2, <1>9, <2>1 DEF Apart
  <2>4. Hand' \in Buffers'
    BY <1>1, <1>3, <1>5, <1>9, Elements DEF PInv, Pipelined
  <2>5. pc'["rec"] = "look" => setter' # "rec"
    BY <1>1, <1>2
  <2> QED
    BY <1>1, <1>3, <1>8, <1>9, <2>1, <2>2, <2>3, <2>4, <2>5 DEF Apart, At
<1>12. Numbered'
  BY <1>1, <1>6 DEF PInv, Pipelined, Numbered
<1>13. Sized'
  BY <1>1, <1>3, <1>8, <1>9 DEF PInv, Pipelined, Sized
<1>14. Complete'
  BY <1>1, <1>4, <1>8, <1>9, SameChunks
<1>15. InOrder'
  <2>1. InOrder
    BY <1>4 DEF PInv, Pipelined
  <2>2. \A k, l \in DOMAIN m_fullBuffers' :
          k < l /\ Good(m_fullBuffers[k + 1]) /\ Good(m_fullBuffers[l + 1]) =>
            mem[m_fullBuffers[k + 1]].chunk < mem[m_fullBuffers[l + 1]].chunk
    BY <1>5, <2>1 DEF InOrder
  <2>3. \A k \in DOMAIN m_fullBuffers' :
          Good(m_fullBuffers[1]) /\ Good(m_fullBuffers[k + 1]) =>
            mem[m_fullBuffers[1]].chunk < mem[m_fullBuffers[k + 1]].chunk
    BY <1>5, <2>1 DEF InOrder
  <2>4. Recorded' /\ Good(dst) => mem[dst].chunk = reads
    BY <1>6, <2>1 DEF InOrder
  <2>5. Unread' \/ Recorded' =>
          \A k \in DOMAIN m_fullBuffers : Good(m_fullBuffers[k]) =>
            mem[m_fullBuffers[k]].chunk < reads
    BY <1>6, <2>1 DEF InOrder
  <2> QED
    BY <1>1, <1>3, <1>5, <2>2, <2>3, <2>4, <2>5 DEF InOrder, Good
<1> QED
  BY <1>10, <1>11, <1>12, <1>13, <1>14, <1>15 DEF Pipelined

(* The thread that ships loads the length, and then the data, of the       *)
(* buffer in its hand.                                                     *)
LEMMA ArgumentStep ==
  ASSUME PInv, NEW t \in {"enc", "rec"}, ShipLength(t) \/ ShipData(t), ~raced'
  PROVE  Pipelined'
<1>1. /\ setter = t /\ UNCHANGED <<m_pSndbuf, setter, m_inputBuffers, m_fullBuffers, mem,
                                    reads, captured, written, dst>>
      /\ \/ /\ pc[t] = "length" /\ pc' = [pc EXCEPT ![t] = "data"]
            /\ out' = [out EXCEPT !.len = mem[m_pSndbuf].used]
         \/ /\ pc[t] = "data" /\ pc' = [pc EXCEPT ![t] = "write"]
            /\ out' = [out EXCEPT !.src = m_pSndbuf]
  BY DEF ShipLength, ShipData, Use, Goto, At, queues, recVars
<1>2. /\ \/ pc[t] = "length" /\ pc'[t] = "data" /\ out'.len = mem[m_pSndbuf].used
         \/ pc[t] = "data" /\ pc'[t] = "write" /\ out'.len = out.len /\ out'.src = m_pSndbuf
      /\ \A u \in Threads : u # t => pc'[u] = pc[u]
  BY <1>1 DEF PInv, IInv, TypeOK, Threads
<1>3. /\ pc'["prep"] = pc["prep"]
      /\ t = "enc" => pc'["rec"] = pc["rec"]
                      /\ pc["rec"] \notin {"length", "data", "write", "undefined"}
      /\ t = "rec" => pc["enc"] = "exited" /\ pc'["enc"] = "exited"
  BY <1>2, OneShips DEF PInv, Threads, Pipelined, Together, At
<1>4. /\ InHand /\ InHand' /\ Hand = m_pSndbuf /\ Hand' = m_pSndbuf
      /\ ~Current /\ ~Current' /\ ~Stuck /\ ~Stuck'
      /\ Held(t) /\ Held(t)' /\ \A u \in {"enc", "rec"} : u # t => ~Held(u)'
  BY <1>1, <1>2, <1>3 DEF InHand, Hand, Held, Current, Stuck, At
<1>5. (Recorded' <=> Recorded) /\ (Unread' <=> Unread)
  BY <1>2, <1>3 DEF Recorded, Unread
<1>6. \A b : (Pending(b)' <=> Pending(b)) /\ (Empties(b)' <=> Empties(b))
  BY <1>1, <1>4, <1>5 DEF Pending, Empties
<1>7. Buffers' = Buffers
  BY <1>1 DEF Buffers
<1>8. Together'
  BY <1>2, <1>3 DEF PInv, Pipelined, Together, At
<1>9. Apart'
  <2>1. (Pending(dst)' <=> Pending(dst)) /\ (Empties(dst)' <=> Empties(dst))
    BY <1>1, <1>4, <1>5 DEF Pending, Empties
  <2>2. \A p \in {"read", "count", "push", "look"} : pc'["rec"] = p => pc["rec"] = p
    BY <1>2, <1>3
  <2>3. Apart
    BY DEF PInv, Pipelined
  <2> HIDE DEF PInv
  <2> QED
    BY <1>1, <1>4, <1>6, <1>7, <2>1, <2>2, <2>3 DEF Apart, At
<1>10. Numbered'
  BY <1>1, <1>5 DEF PInv, Pipelined, Numbered
<1>11. Sized'
  <2>1. Sized
    BY DEF PInv, Pipelined
  <2>2. out'.len = mem'[Hand'].used
    BY <1>1, <1>2, <1>4, <2>1 DEF Sized
  <2>3. \A b \in Buffers' : Pending(b)' => mem'[b].used # 0
    BY <1>1, <1>6, <1>7, <2>1 DEF Sized
  <2> QED
    BY <1>4, <2>2, <2>3 DEF Sized
<1>12. Complete'
  BY <1>1, <1>4, <1>6, <1>7, SameChunks
<1>13. InOrder'
  BY <1>1, <1>4, <1>5, SameOrder
<1> QED
  BY <1>8, <1>9, <1>10, <1>11, <1>12, <1>13 DEF Pipelined

(* A chunk in hand is the next one to be delivered.                        *)
LEMMA HandIsNext ==
  ASSUME PInv, ~Stuck, InHand, Good(Hand)
  PROVE  /\ Len(written) < Len(captured)
         /\ mem[Hand].chunk = captured[Len(written) + 1]
         /\ \A b \in Buffers : b # Hand /\ Pending(b) /\ Good(b) =>
              mem[Hand].chunk < mem[b].chunk
<1> DEFINE L == Len(written)
<1>1. InOrder /\ Complete /\ Numbered
  BY DEF PInv, Pipelined
<1>2. /\ DOMAIN captured = 1..Len(captured) /\ Len(captured) \in Nat /\ L \in Nat
      /\ \A k \in DOMAIN captured : captured[k] \in Nat
  BY Elements DEF PInv, Pipelined
<1>3. Hand \in Buffers /\ Pending(Hand)
  BY DEF PInv, Pipelined, Apart, Pending
<1>4. PICK k \in L + 1 .. Len(captured) : mem[Hand].chunk = captured[k]
  BY <1>1, <1>3 DEF Complete, Undelivered
<1>5. ASSUME NEW b \in Buffers, b # Hand, Pending(b), Good(b)
      PROVE  mem[Hand].chunk < mem[b].chunk
  <2>1. CASE \E l \in DOMAIN m_fullBuffers : m_fullBuffers[l] = b
    BY <1>1, <1>5, <2>1 DEF InOrder
  <2>2. CASE Recorded /\ b = dst
    BY <1>1, <1>5, <2>2 DEF InOrder, Recorded
  <2> QED
    BY <1>5, <2>1, <2>2 DEF Pending
<1>6. L < Len(captured) /\ L + 1 \in Undelivered
  BY <1>2, <1>4 DEF Undelivered
<1>7. PICK b \in Buffers : Pending(b) /\ Good(b) /\ mem[b].chunk = captured[L + 1]
  BY <1>1, <1>6 DEF Complete
<1>8. captured[L + 1] <= captured[k]
  <2>1. CASE k = L + 1
    BY <1>2, <1>6, <2>1
  <2>2. CASE L + 1 < k
    BY <1>1, <1>2, <1>6, <2>2 DEF Numbered
  <2> QED
    BY <1>2, <2>1, <2>2
<1>9. b = Hand
  <2> SUFFICES ASSUME b # Hand PROVE FALSE
    OBVIOUS
  <2>1. captured[k] < captured[L + 1]
    BY <1>4, <1>5, <1>7
  <2> QED
    BY <1>2, <1>4, <1>6, <1>8, <2>1
<1> QED
  BY <1>5, <1>6, <1>7, <1>9

(* A thread that ships writes the chunk in its hand, or nothing.           *)
LEMMA WriteStep ==
  ASSUME PInv, NEW t \in {"enc", "rec"}, NEW next, ShipWrite(t, next),
         t = "enc" => next = "processed",
         t = "rec" => next \in {"drain", "pclose"}
  PROVE  /\ Pipelined'
         /\ ~Stuck /\ InHand
         /\ written' = IF Good(Hand) THEN Append(written, mem[Hand].chunk)
                       ELSE written
<1>1. /\ pc[t] = "write" /\ pc' = [pc EXCEPT ![t] = next]
      /\ UNCHANGED <<m_pSndbuf, setter, m_fullBuffers, m_inputBuffers, mem, reads,
                     captured, dst>>
  BY DEF ShipWrite, Goto, At, queues, recVars, raceVars
<1>2. /\ pc'["prep"] = pc["prep"]
      /\ t = "enc" => /\ pc["enc"] = "write" /\ pc'["enc"] = "processed"
                      /\ pc'["rec"] = pc["rec"]
                      /\ pc["rec"] \notin {"length", "data", "write", "undefined"}
      /\ t = "rec" => pc["rec"] = "write" /\ pc'["rec"] \in {"drain", "pclose"}
                      /\ pc["enc"] = "exited" /\ pc'["enc"] = "exited"
  BY <1>1, OneShips DEF PInv, IInv, TypeOK, Threads, Pipelined, Together, At
<1>3. /\ InHand /\ ~InHand' /\ Held(t) /\ Hand = out.src /\ (Current' <=> Current)
      /\ \A u \in {"enc", "rec"} : ~Held(u)'
  BY <1>1, <1>2 DEF InHand, Held, Hand, Current
<1>4. ~Stuck /\ ~Stuck'
  BY <1>1, <1>2 DEF Stuck, At
<1>5. (Recorded' <=> Recorded) /\ (Unread' <=> Unread)
  BY <1>2 DEF Recorded, Unread
<1>6. /\ \A b : Pending(b)' <=> (\E k \in DOMAIN m_fullBuffers : m_fullBuffers[k] = b)
                                 \/ (Recorded /\ b = dst)
      /\ \A b : Empties(b)' <=> Empties(b)
  BY <1>1, <1>3, <1>5 DEF Pending, Empties
<1>7. \A b : Pending(b) <=> Pending(b)' \/ b = Hand
  BY <1>3, <1>6 DEF Pending
<1>8. Buffers' = Buffers
  BY <1>1 DEF Buffers
<1>a. written' = IF Good(Hand) THEN Append(written, mem[Hand].chunk) ELSE written
  <2>1. Hand \in Buffers /\ Pending(Hand)
    BY <1>3 DEF PInv, Pipelined, Apart, Pending
  <2>2. out.len = mem[Hand].used /\ mem[Hand].used # 0
    BY <1>1, <1>3, <2>1 DEF PInv, Pipelined, Sized
  <2>3. Hand # 0
    BY <2>1, Elements DEF PInv, Pipelined, Buffers
  <2> QED
    BY <1>3, <2>2, <2>3 DEF ShipWrite, Good
<1>9. Together'
  BY <1>2 DEF PInv, Pipelined, Together, At
<1>10. Apart'
  <2>1. Apart
    BY DEF PInv, Pipelined
  <2>2. At("rec", "read")' => ~Empties(dst)' /\ ~Pending(dst)'
    <3> SUFFICES ASSUME pc'["rec"] = "read"
                 PROVE  ~Empties(dst)' /\ ~Pending(dst)'
      BY DEF At
    <3>1. pc["rec"] = "read"
      BY <1>2
    <3>2. ~Empties(dst) /\ ~Pending(dst)
      BY <2>1, <3>1 DEF Apart, At
    <3>3. ~Pending(dst)'
      BY <1>1, <1>3, <1>5, <3>2 DEF Pending
    <3> QED
      BY <1>1, <3>2, <3>3 DEF Empties
  <2>3. \A p \in {"read", "count", "push", "look"} : pc'["rec"] = p => pc["rec"] = p
    BY <1>2
  <2>4. Current => ~Empties(m_pSndbuf)' /\ ~Pending(m_pSndbuf)'
    <3> SUFFICES ASSUME Current PROVE ~Empties(m_pSndbuf)' /\ ~Pending(m_pSndbuf)'
      OBVIOUS
    <3>1. ~Empties(m_pSndbuf) /\ ~Pending(m_pSndbuf)
      BY <2>1 DEF Apart
    <3> QED
      BY <1>1, <1>3, <1>5, <3>1 DEF Pending, Empties
  <2>5. \A b \in Buffers' : ~(Empties(b)' /\ Pending(b)')
    BY <1>6, <1>7, <1>8, <2>1 DEF Apart
  <2> QED
    BY <1>1, <1>3, <1>8, <2>1, <2>2, <2>3, <2>4, <2>5 DEF Apart, At
<1>11. Numbered'
  BY <1>1, <1>5 DEF PInv, Pipelined, Numbered
<1>b. Sized'
  BY <1>1, <1>3, <1>7, <1>8 DEF PInv, Pipelined, Sized
<1>12. InOrder'
  BY <1>1, <1>3, <1>4, <1>5, SameOrder
<1>13. Complete'
  <2>1. Complete
    BY <1>4 DEF PInv, Pipelined
  <2>2. \A b : Good(b)' <=> Good(b)
    BY <1>1 DEF Good
  <2>3. CASE ~Good(Hand)
    <3>1. written' = written /\ Undelivered' = Undelivered
      BY <1>1, <1>a, <2>3 DEF Undelivered
    <3>2. \A b : Pending(b)' /\ Good(b)' <=> Pending(b) /\ Good(b)
      BY <1>7, <2>2, <2>3
    <3> QED
      BY <1>1, <1>8, <2>1, <3>1, <3>2 DEF Complete
  <2>4. CASE Good(Hand)
    <3> DEFINE L == Len(written)
               c == mem[Hand].chunk
    <3>1. /\ L < Len(captured) /\ c = captured[L + 1]
          /\ \A b \in Buffers : b # Hand /\ Pending(b) /\ Good(b) => c < mem[b].chunk
      BY <1>3, <1>4, <2>4, HandIsNext
    <3>2. /\ DOMAIN captured = 1..Len(captured) /\ Len(captured) \in Nat
          /\ DOMAIN written = 1..L /\ L \in Nat
          /\ \A k \in DOMAIN captured : captured[k] \in Nat
      BY Elements DEF PInv, Pipelined
    <3>3. /\ DOMAIN written' = 1..(L + 1) /\ Len(written') = L + 1
          /\ \A k \in 1..L : written'[k] = written[k]
          /\ written'[L + 1] = c
      <4>1. captured \in Seq(1..MaxReads) /\ written \in Seq(0..MaxReads)
        BY DEF PInv, IInv, TypeOK
      <4>2. c \in 0..MaxReads
        <5>1. L + 1 \in 1..Len(captured)
          BY <3>1, <3>2
        <5>2. captured[L + 1] \in 1..MaxReads
          BY <4>1, <5>1, ElementOfSeq
        <5> QED
          BY <3>1, <5>2, RecorderAssumption
      <4>3. written' = Append(written, c)
        BY <1>a, <2>4
      <4> QED
        BY <4>1, <4>2, <4>3, <3>2, AppendProperties, LenProperties
    <3>4. Undelivered' = L + 2 .. Len(captured)
      BY <1>1, <3>2, <3>3 DEF Undelivered
    <3>5. \A k \in DOMAIN written' : written'[k] = captured'[k]
      BY <1>1, <2>1, <3>1, <3>2, <3>3 DEF Complete
    <3>6. ASSUME NEW k \in L + 2 .. Len(captured)
          PROVE  \E b \in Buffers : Pending(b)' /\ Good(b)' /\ mem'[b].chunk = captured'[k]
      <4>1. PICK b \in Buffers : Pending(b) /\ Good(b) /\ mem[b].chunk = captured[k]
        BY <2>1, <3>2 DEF Complete, Undelivered
      <4>2. captured[L + 1] < captured[k]
        BY <3>1, <3>2 DEF PInv, Pipelined, Numbered
      <4>3. b # Hand
        <5> SUFFICES ASSUME b = Hand PROVE FALSE
          OBVIOUS
        <5>1. captured[k] = captured[L + 1]
          BY <3>1, <4>1
        <5>2. captured[k] \in Nat
          BY <3>2
        <5> QED
          BY <4>2, <5>1, <5>2
      <4> QED
        BY <1>1, <1>7, <2>2, <4>1, <4>3
    <3>7. ASSUME NEW b \in Buffers, Pending(b)', Good(b)'
          PROVE  \E k \in L + 2 .. Len(captured) : mem'[b].chunk = captured'[k]
      <4>1. Pending(b) /\ Good(b) /\ mem'[b] = mem[b]
        BY <1>1, <1>7, <2>2, <3>7
      <4>2. PICK k \in Undelivered : mem[b].chunk = captured[k]
        BY <2>1, <4>1 DEF Complete
      <4>3. c < mem[b].chunk
        <5>1. InOrder
          BY <1>4 DEF PInv, Pipelined
        <5>2. CASE \E l \in DOMAIN m_fullBuffers : m_fullBuffers[l] = b
          BY <1>3, <2>4, <4>1, <5>1, <5>2 DEF InOrder
        <5>3. CASE Recorded /\ b = dst
          BY <1>3, <2>4, <4>1, <5>1, <5>3 DEF InOrder, Recorded
        <5> QED
          BY <1>6, <3>7, <5>2, <5>3
      <4>4. k # L + 1
        <5> SUFFICES ASSUME k = L + 1 PROVE FALSE
          OBVIOUS
        <5>1. mem[b].chunk = c /\ c \in Nat
          BY <3>1, <3>2, <4>2
        <5> QED
          BY <4>3, <5>1
      <4> QED
        <5>1. k \in L + 2 .. Len(captured)
          BY <3>2, <4>2, <4>4 DEF Undelivered
        <5> QED
          BY <1>1, <4>1, <4>2, <5>1
    <3> QED
      BY <1>1, <1>8, <3>1, <3>2, <3>3, <3>4, <3>5, <3>6, <3>7 DEF Complete
  <2> QED
    BY <2>3, <2>4
<1> QED
  BY <1>1, <1>3, <1>4, <1>9, <1>10, <1>11, <1>12, <1>13, <1>a, <1>b DEF Pipelined

-----------------------------------------------------------------------------
(* What is queued was read in this iteration or before.                    *)
LEMMA Before ==
  ASSUME PInv, Complete
  PROVE  \A b \in Buffers : Pending(b) /\ Good(b) => mem[b].chunk < reads + 1
<1> SUFFICES ASSUME NEW b \in Buffers, Pending(b), Good(b)
             PROVE  mem[b].chunk < reads + 1
  OBVIOUS
<1>2. PICK n \in Undelivered : mem[b].chunk = captured[n]
  BY DEF Complete
<1>3. n \in DOMAIN captured
  BY <1>2, Elements DEF PInv, Pipelined, Complete, Undelivered
<1>4. captured[n] <= reads /\ captured[n] \in Nat /\ reads \in Nat
  BY <1>3, Elements DEF PInv, Pipelined, Numbered
<1> QED
  BY <1>2, <1>4

(* The recorder begins an iteration: it looks at the head of the queue and *)
(* leaves it there.                                                        *)
LEMMA RecTakeStep == ASSUME PInv, RecTake PROVE Pipelined'
<1>1. /\ m_pSndbuf' = IF m_inputBuffers = << >> THEN 0 ELSE Head(m_inputBuffers)
      /\ setter' = "rec" /\ reads' = reads + 1
      /\ pc["rec"] = "take" /\ pc' = [pc EXCEPT !["rec"] = "look"]
      /\ UNCHANGED <<m_inputBuffers, m_fullBuffers, mem, captured, written, dst, out>>
  BY DEF RecTake, Assign, Goto, At, encVars
<1>2. pc'["prep"] = pc["prep"] /\ pc'["enc"] = pc["enc"] /\ pc'["rec"] = "look"
  BY <1>1 DEF PInv, IInv, TypeOK, Threads
<1>3. SamePlaces /\ ~Current' /\ ~Recorded /\ ~Recorded' /\ Unread'
  BY <1>1, <1>2 DEF SamePlaces, Current, Recorded, Unread
<1>4. /\ InHand' => InHand /\ Hand' = Hand
      /\ ~Stuck' => ~Stuck /\ (InHand' <=> InHand)
      /\ \A t \in {"enc", "rec"} : Held(t)' => Held(t) /\ pc'[t] = "write" /\ pc[t] = "write"
  BY <1>1, <1>3, AssignedHand
<1>5. \A b : (Pending(b)' => Pending(b)) /\ (Empties(b)' <=> Empties(b))
  BY <1>1, <1>3, <1>4 DEF Pending, Empties
<1>6. Buffers' = Buffers
  BY <1>1 DEF Buffers
<1>7. IInv /\ Apart
  BY DEF PInv, Pipelined
<1>8. Together'
  BY <1>2 DEF Together, At
<1>9. Apart'
  <2>1. m_pSndbuf' # 0 => m_inputBuffers' # << >> /\ m_pSndbuf' = m_inputBuffers'[1]
    BY <1>1, <1>7, HeadTailProperties DEF IInv, TypeOK
  <2> QED
    BY <1>1, <1>2, <1>3, <1>4, <1>5, <1>6, <1>7, <2>1 DEF Apart, At
<1>10. Numbered'
  <2>1. \A k \in DOMAIN captured : captured[k] \in Nat /\ captured[k] <= reads
    BY <1>7, Elements DEF PInv, Pipelined, Numbered
  <2>2. \A k \in DOMAIN captured : captured[k] < reads + 1 /\ captured[k] <= reads + 1
    BY <1>7, <2>1, Elements
  <2> QED
    BY <1>1, <2>2 DEF PInv, Pipelined, Numbered
<1>11. Sized'
  BY <1>1, <1>3, <1>4, <1>5, SameSizes
<1>12. ASSUME ~Stuck'
       PROVE  InOrder' /\ Complete'
  <2>1. ~Stuck /\ InOrder /\ Complete
    BY <1>4, <1>12 DEF PInv, Pipelined
  <2>2. \A b : Pending(b)' <=> Pending(b)
    BY <1>1, <1>3, <1>4, <1>12 DEF Pending
  <2>3. Complete'
    BY <1>1, <1>6, <2>1, <2>2, SameChunks
  <2>4. \A b : Pending(b) /\ Good(b) => mem[b].chunk < reads + 1
    BY <1>7, <2>1, Before, PendingBuffers
  <2>5. \A k \in DOMAIN m_fullBuffers : Good(m_fullBuffers[k]) =>
          mem[m_fullBuffers[k]].chunk < reads + 1
    BY <2>4 DEF Pending
  <2>6. InHand /\ Good(Hand) => mem[Hand].chunk < reads + 1
    BY <2>4 DEF Pending
  <2>7. InOrder'
    BY <1>1, <1>3, <1>4, <1>12, <2>1, <2>5, <2>6 DEF InOrder, Good
  <2> QED
    BY <2>3, <2>7
<1> QED
  BY <1>8, <1>9, <1>10, <1>11, <1>12 DEF Pipelined

(* What it saw, unless another thread has put something else in m_pSndbuf, *)
(* is what it pops.                                                        *)
LEMMA RecPopStep == ASSUME PInv, RecPop, ~raced' PROVE Pipelined'
<1>1. /\ m_inputBuffers # << >> /\ m_pSndbuf # 0 /\ setter = "rec"
      /\ m_inputBuffers' = Tail(m_inputBuffers)
      /\ pc["rec"] = "look" /\ pc' = [pc EXCEPT !["rec"] = "call"]
      /\ UNCHANGED <<m_pSndbuf, setter, m_fullBuffers, mem, reads, captured, written,
                     dst, out>>
  BY DEF RecPop, Use, Goto, At, recVars, encVars
<1>2. pc'["prep"] = pc["prep"] /\ pc'["enc"] = pc["enc"] /\ pc'["rec"] = "call"
  BY <1>1 DEF PInv, IInv, TypeOK, Threads
<1>3. SamePlaces /\ Current' /\ ~Recorded /\ ~Recorded' /\ Unread /\ Unread'
  BY <1>1, <1>2 DEF SamePlaces, Current, Recorded, Unread
<1>4. /\ InHand' <=> InHand
      /\ Hand' = Hand
      /\ \A t \in {"enc", "rec"} : Held(t)' <=> Held(t)
      /\ Stuck' <=> Stuck
  BY <1>1, <1>3, SameHand
<1>5. IInv /\ Apart
  BY DEF PInv, Pipelined
<1>6. /\ DOMAIN m_inputBuffers = 1..Len(m_inputBuffers)
      /\ Len(m_inputBuffers) \in Nat \ {0}
      /\ m_pSndbuf = m_inputBuffers[1]
      /\ DOMAIN m_inputBuffers' = 1..(Len(m_inputBuffers) - 1)
      /\ \A k \in DOMAIN m_inputBuffers' :
           m_inputBuffers'[k] = m_inputBuffers[k + 1] /\ k + 1 \in DOMAIN m_inputBuffers
  <2>1. m_inputBuffers \in Seq(Buffers \cup {0}) /\ m_pSndbuf = m_inputBuffers[1]
    BY <1>1, <1>5 DEF IInv, TypeOK, Apart, At
  <2> QED
    BY <1>1, <2>1, HeadTailProperties, LenProperties, EmptySeq
<1>7. /\ \A b : Pending(b)' <=> Pending(b)
      /\ \A b : Empties(b)' => Empties(b)
  BY <1>1, <1>3, <1>4, <1>6 DEF Pending, Empties
<1>8. Buffers' = Buffers
  BY <1>1 DEF Buffers
<1>9. Together'
  BY <1>2 DEF Together, At
<1>10. Apart'
  <2>1. \A k, l \in DOMAIN m_inputBuffers : m_inputBuffers[k] = m_inputBuffers[l] => k = l
    BY <1>5 DEF Apart
  <2>2. \A k, l \in DOMAIN m_inputBuffers' : m_inputBuffers'[k] = m_inputBuffers'[l] => k = l
    BY <1>6, <2>1
  <2>3. ~Empties(m_pSndbuf)'
    <3>1. \A k \in DOMAIN m_inputBuffers' : m_inputBuffers[k + 1] # m_inputBuffers[1]
      BY <1>6, <2>1
    <3> QED
      BY <1>1, <1>6, <3>1 DEF Empties
  <2>4. m_pSndbuf \in Buffers /\ ~Pending(m_pSndbuf)'
    <3>1. m_pSndbuf \in Buffers /\ Empties(m_pSndbuf)
      BY <1>5, <1>6, Elements DEF Empties
    <3>2. ~Pending(m_pSndbuf)
      BY <1>5, <3>1 DEF Apart
    <3> QED
      BY <1>1, <1>3, <1>4, <3>1, <3>2 DEF Pending
  <2>5. \A k \in DOMAIN m_inputBuffers' : m_inputBuffers'[k] # 0
    BY <1>5, <1>6 DEF Apart
  <2> QED
    BY <1>1, <1>2, <1>4, <1>5, <1>7, <1>8, <2>2, <2>3, <2>4, <2>5 DEF Apart, At
<1>11. Numbered'
  BY <1>1, <1>3 DEF PInv, Pipelined, Numbered
<1>12. Sized'
  BY <1>1, <1>3, <1>4, <1>7, SameSizes
<1>13. ASSUME ~Stuck' PROVE InOrder' /\ Complete'
  <2>1. Complete'
    BY <1>1, <1>4, <1>7, <1>8, <1>13, SameChunks
  <2>2. InOrder'
    BY <1>1, <1>3, <1>4, <1>13, SameOrder
  <2> QED
    BY <2>1, <2>2
<1> QED
  BY <1>9, <1>10, <1>11, <1>12, <1>13 DEF Pipelined

(* The end of what is claimed. *)
LEMMA CrashStep == ASSUME PInv, Crash PROVE Pipelined'
<1>1. /\ pc' = [t \in Threads |-> "undefined"]
      /\ UNCHANGED <<m_pSndbuf, setter, m_fullBuffers, m_inputBuffers, mem, reads,
                     captured, written, dst, out>>
  BY DEF Crash, queues, recVars, encVars, raceVars
<1>2. pc'["prep"] = "undefined" /\ pc'["enc"] = "undefined" /\ pc'["rec"] = "undefined"
  BY <1>1 DEF Threads
<1>3. /\ ~InHand' /\ ~Current' /\ ~Recorded' /\ ~Unread' /\ Stuck' /\ Together'
      /\ \A t \in {"enc", "rec"} : ~Held(t)'
  BY <1>2 DEF InHand, Held, Current, Recorded, Unread, Stuck, Together, At
<1>4. \A b : (Pending(b)' => Pending(b)) /\ (Empties(b)' <=> Empties(b))
  BY <1>1, <1>3 DEF Pending, Empties
<1>5. Buffers' = Buffers
  BY <1>1 DEF Buffers
<1>6. Apart'
  BY <1>1, <1>2, <1>3, <1>4, <1>5 DEF PInv, Pipelined, Apart, At
<1>7. Numbered'
  BY <1>1, <1>3 DEF PInv, Pipelined, Numbered
<1>8. Sized'
  BY <1>1, <1>3, <1>4, <1>5 DEF PInv, Pipelined, Sized
<1> QED
  BY <1>3, <1>6, <1>7, <1>8 DEF Pipelined

LEMMA RecReadCallStep == ASSUME PInv, RecReadCall, ~raced' PROVE Pipelined'
<1>1. /\ setter = "rec" /\ dst' = m_pSndbuf
      /\ pc["rec"] = "call" /\ pc' = [pc EXCEPT !["rec"] = "read"]
      /\ UNCHANGED <<m_pSndbuf, setter, m_fullBuffers, m_inputBuffers, mem, reads,
                     captured, written, out>>
  BY DEF RecReadCall, Use, Goto, At, queues, encVars
<1>2. pc'["prep"] = pc["prep"] /\ pc'["enc"] = pc["enc"] /\ pc'["rec"] = "read"
  BY <1>1 DEF PInv, IInv, TypeOK, Threads
<1>3. SamePlaces /\ Current /\ ~Current' /\ ~Recorded /\ ~Recorded' /\ Unread /\ Unread'
  BY <1>1, <1>2 DEF SamePlaces, Current, Recorded, Unread
<1>a. /\ InHand' <=> InHand
      /\ Hand' = Hand
      /\ \A t \in {"enc", "rec"} : Held(t)' <=> Held(t)
      /\ Stuck' <=> Stuck
  BY <1>1, <1>3, SameHand
<1>4. \A b : (Pending(b)' <=> Pending(b)) /\ (Empties(b)' <=> Empties(b))
  BY <1>1, <1>3, <1>a DEF Pending, Empties
<1>5. Buffers' = Buffers
  BY <1>1 DEF Buffers
<1>7. Together'
  BY <1>2 DEF Together, At
<1>8. Apart'
  <2>1. Apart
    BY DEF PInv, Pipelined
  <2>2. m_pSndbuf \in Buffers /\ ~Empties(m_pSndbuf) /\ ~Pending(m_pSndbuf)
    BY <1>3, <2>1 DEF Apart
  <2>3. ~Empties(dst)' /\ ~Pending(dst)'
    BY <1>1, <1>3, <1>a, <2>2 DEF Empties, Pending
  <2> QED
    BY <1>1, <1>2, <1>3, <1>a, <1>4, <1>5, <2>1, <2>2, <2>3 DEF Apart, At
<1>9. Numbered'
  BY <1>1, <1>3 DEF PInv, Pipelined, Numbered
<1>b. Sized'
  BY <1>1, <1>3, <1>a, <1>4, SameSizes
<1>10. ASSUME ~Stuck'
       PROVE  InOrder' /\ Complete'
  <2>2. Complete'
    BY <1>1, <1>a, <1>10, <1>4, <1>5, SameChunks
  <2>3. InOrder'
    BY <1>1, <1>3, <1>a, <1>10, SameOrder
  <2> QED
    BY <2>2, <2>3
<1> QED
  BY <1>7, <1>8, <1>9, <1>b, <1>10 DEF Pipelined

LEMMA RecPushStep == ASSUME PInv, RecPush, ~raced' PROVE Pipelined'
<1>1. /\ setter = "rec"
      /\ m_fullBuffers' = Append(m_fullBuffers, m_pSndbuf)
      /\ pc["rec"] = "push"
      /\ pc' = [pc EXCEPT !["rec"] = IF bytesRead > Requested THEN "stop" ELSE "take"]
      /\ UNCHANGED <<m_pSndbuf, setter, m_inputBuffers, mem, reads, captured, written,
                     dst, out>>
  BY DEF RecPush, Use, Goto, At, recVars, encVars
<1>2. /\ pc'["prep"] = pc["prep"] /\ pc'["enc"] = pc["enc"]
      /\ pc'["rec"] \in {"stop", "take"}
  BY <1>1 DEF PInv, IInv, TypeOK, Threads
<1>3. SamePlaces /\ ~Current' /\ Recorded /\ ~Recorded' /\ ~Unread /\ ~Unread'
  BY <1>1, <1>2 DEF SamePlaces, Current, Recorded, Unread
<1>a. /\ InHand' <=> InHand
      /\ Hand' = Hand
      /\ \A t \in {"enc", "rec"} : Held(t)' <=> Held(t)
      /\ Stuck' <=> Stuck
  BY <1>1, <1>3, SameHand
<1>4. m_pSndbuf = dst /\ dst \in Buffers
  BY <1>1 DEF PInv, Pipelined, Apart
<1>5. /\ DOMAIN m_fullBuffers = 1..Len(m_fullBuffers) /\ Len(m_fullBuffers) \in Nat
      /\ DOMAIN m_fullBuffers' = 1..(Len(m_fullBuffers) + 1)
      /\ \A k \in 1..Len(m_fullBuffers) : m_fullBuffers'[k] = m_fullBuffers[k]
      /\ m_fullBuffers'[Len(m_fullBuffers) + 1] = dst
  <2>1. m_fullBuffers \in Seq(Buffers)
    BY DEF PInv, IInv, TypeOK
  <2> QED
    BY <1>1, <1>4, <2>1, AppendProperties, LenProperties
<1>6. \A b : (\E k \in DOMAIN m_fullBuffers' : m_fullBuffers'[k] = b) <=>
             (\E k \in DOMAIN m_fullBuffers : m_fullBuffers[k] = b) \/ b = dst
  BY <1>5
<1>7. \A b : (Pending(b)' <=> Pending(b)) /\ (Empties(b)' <=> Empties(b))
  BY <1>1, <1>3, <1>a, <1>6 DEF Pending, Empties
<1>8. Buffers' = Buffers
  BY <1>1 DEF Buffers
<1>9. Together'
  BY <1>2 DEF Together, At
<1>10. Apart'
  BY <1>1, <1>2, <1>3, <1>a, <1>7, <1>8 DEF PInv, Pipelined, Apart, At
<1>11. Numbered'
  BY <1>1, <1>3 DEF PInv, Pipelined, Numbered
<1>b. Sized'
  BY <1>1, <1>3, <1>a, <1>7, SameSizes
<1>12. ASSUME ~Stuck'
       PROVE  InOrder' /\ Complete'
  <2>1. ~Stuck
    BY <1>a, <1>12
  <2>2. Complete'
    BY <1>1, <1>7, <1>8, <2>1, SameChunks
  <2>3. InOrder
    BY <2>1 DEF PInv, Pipelined
  <2>4. \A k, l \in DOMAIN m_fullBuffers' :
          k < l /\ Good(m_fullBuffers'[k]) /\ Good(m_fullBuffers'[l]) =>
            mem[m_fullBuffers'[k]].chunk < mem[m_fullBuffers'[l]].chunk
    <3> SUFFICES ASSUME NEW k \in DOMAIN m_fullBuffers', NEW l \in DOMAIN m_fullBuffers',
                        k < l, Good(m_fullBuffers'[k]), Good(m_fullBuffers'[l])
                 PROVE  mem[m_fullBuffers'[k]].chunk < mem[m_fullBuffers'[l]].chunk
      OBVIOUS
    <3>1. k \in 1..Len(m_fullBuffers) /\ m_fullBuffers'[k] = m_fullBuffers[k]
      BY <1>5
    <3>2. CASE l = Len(m_fullBuffers) + 1
      <4>1. m_fullBuffers'[l] = dst /\ Good(dst)
        BY <1>5, <3>2
      <4>2. mem[dst].chunk = reads
        BY <1>3, <2>3, <4>1 DEF InOrder
      <4>3. mem[m_fullBuffers[k]].chunk < reads
        BY <1>3, <1>5, <2>3, <3>1 DEF InOrder
      <4> QED
        BY <3>1, <4>1, <4>2, <4>3
    <3>3. CASE l \in 1..Len(m_fullBuffers)
      BY <1>5, <2>3, <3>1, <3>3 DEF InOrder
    <3> QED
      BY <1>5, <3>2, <3>3
  <2>5. InHand' /\ Good(Hand) =>
          \A k \in DOMAIN m_fullBuffers' : Good(m_fullBuffers'[k]) =>
            mem[Hand].chunk < mem[m_fullBuffers'[k]].chunk
    <3> SUFFICES ASSUME InHand, Good(Hand), NEW k \in DOMAIN m_fullBuffers',
                        Good(m_fullBuffers'[k])
                 PROVE  mem[Hand].chunk < mem[m_fullBuffers'[k]].chunk
      BY <1>a
    <3>1. CASE k = Len(m_fullBuffers) + 1
      <4>1. m_fullBuffers'[k] = dst /\ Good(dst)
        BY <1>5, <3>1
      <4>2. mem[dst].chunk = reads /\ mem[Hand].chunk < reads
        BY <1>3, <2>3, <4>1 DEF InOrder
      <4> QED
        BY <4>1, <4>2
    <3>2. CASE k \in 1..Len(m_fullBuffers)
      BY <1>5, <2>3, <3>2 DEF InOrder
    <3> QED
      BY <1>5, <3>1, <3>2
  <2>6. InOrder'
    BY <1>1, <1>3, <1>a, <2>4, <2>5 DEF InOrder, Good
  <2> QED
    BY <2>2, <2>6
<1> QED
  BY <1>9, <1>10, <1>11, <1>b, <1>12 DEF Pipelined

(* A chunk comes in: it is the last one, and its buffer the only one       *)
(* changed.                                                                *)
LEMMA RecReadReturnStep == ASSUME PInv, RecReadReturn PROVE Pipelined'
<1>1. /\ captured' = Append(captured, reads)
      /\ pc["rec"] = "read" /\ pc' = [pc EXCEPT !["rec"] = "count"]
      /\ UNCHANGED <<m_pSndbuf, setter, m_fullBuffers, m_inputBuffers, reads, written, dst,
                     out>>
  BY DEF RecReadReturn, Goto, At, queues, encVars, raceVars
<1>a. PICK n \in 1..BUFFER_SIZE : mem' = [mem EXCEPT ![dst] = [chunk |-> reads, used |-> n]]
  BY DEF RecReadReturn
<1>2. pc'["prep"] = pc["prep"] /\ pc'["enc"] = pc["enc"] /\ pc'["rec"] = "count"
  BY <1>1 DEF PInv, IInv, TypeOK, Threads
<1>3. SamePlaces /\ (Current' => Current) /\ ~Recorded /\ Recorded' /\ Unread /\ ~Unread'
  BY <1>1, <1>2 DEF SamePlaces, Current, Recorded, Unread
<1>c. /\ InHand' <=> InHand
      /\ Hand' = Hand
      /\ \A t \in {"enc", "rec"} : Held(t)' <=> Held(t)
      /\ Stuck' <=> Stuck
  BY <1>1, <1>3, SameHand
<1>4. dst \in Buffers /\ ~Pending(dst) /\ ~Empties(dst)
  BY <1>1 DEF PInv, Pipelined, Apart, At
<1>5. /\ Buffers' = Buffers
      /\ \A b \in Buffers : b # dst => mem'[b] = mem[b]
      /\ mem'[dst].chunk = reads /\ mem'[dst].used = n
  <2>1. DOMAIN mem = 1..Len(mem) /\ Len(mem) \in Nat /\ mem \in Seq(SndBuffer)
    BY LenProperties DEF PInv, IInv, TypeOK
  <2>2. [chunk |-> reads, used |-> n] \in SndBuffer
    BY RecorderAssumption, Elements DEF SndBuffer, PInv, Pipelined
  <2>3. Len(mem') = Len(mem)
    BY <1>4, <1>a, <2>1, <2>2, ExceptSeq DEF Buffers
  <2> QED
    BY <1>4, <1>a, <2>1, <2>3 DEF Buffers
<1>6. n # ULong - 1
  BY RecorderAssumption
<1>7. /\ \A b : Pending(b)' <=> Pending(b) \/ b = dst
      /\ \A b : Empties(b)' <=> Empties(b)
  BY <1>1, <1>3, <1>c DEF Pending, Empties
<1>8. \A b : Pending(b) => mem'[b] = mem[b] /\ b \in Buffers
  BY <1>4, <1>5, PendingBuffers DEF PInv, Pipelined
<1>9. Together'
  BY <1>2 DEF Together, At
<1>10. Apart'
  <2>1. Apart
    BY DEF PInv, Pipelined
  <2>2. Current' => ~Empties(m_pSndbuf)' /\ ~Pending(m_pSndbuf)'
    <3> SUFFICES ASSUME Current PROVE ~Empties(m_pSndbuf)' /\ ~Pending(m_pSndbuf)'
      BY <1>3
    <3>1. ~Empties(m_pSndbuf) /\ ~Pending(m_pSndbuf) /\ m_pSndbuf # dst
      BY <1>1, <2>1 DEF Apart, At
    <3> QED
      BY <1>1, <1>3, <1>c, <3>1 DEF Empties, Pending
  <2>3. \A b \in Buffers' : ~(Empties(b)' /\ Pending(b)')
    BY <1>4, <1>5, <1>7, <2>1 DEF Apart
  <2>4. InHand' => Hand' \in Buffers'
    BY <1>5, <1>c, <2>1 DEF Apart
  <2>5. Current' => m_pSndbuf' \in Buffers'
    BY <1>1, <1>3, <1>5, <2>1 DEF Apart
  <2>6. setter' = "rec" => m_pSndbuf' = dst'
    BY <1>1, <2>1 DEF Apart
  <2>7. /\ \A k \in DOMAIN m_inputBuffers' : m_inputBuffers'[k] # 0
        /\ \A k, l \in DOMAIN m_inputBuffers' :
             m_inputBuffers'[k] = m_inputBuffers'[l] => k = l
    BY <1>1, <2>1 DEF Apart
  <2>8. dst' \in Buffers'
    BY <1>1, <1>4, <1>5
  <2> QED
    BY <1>2, <2>2, <2>3, <2>4, <2>5, <2>6, <2>7, <2>8 DEF Apart, At
<1>11. /\ DOMAIN captured = 1..Len(captured) /\ Len(captured) \in Nat
       /\ DOMAIN captured' = 1..(Len(captured) + 1) /\ Len(captured') = Len(captured) + 1
       /\ \A k \in 1..Len(captured) : captured'[k] = captured[k] /\ captured[k] < reads
       /\ captured'[Len(captured) + 1] = reads
  <2>1. reads \in 1..MaxReads /\ captured \in Seq(1..MaxReads)
    BY <1>1, RecorderAssumption DEF PInv, IInv, TypeOK, Pointers
  <2>2. \A k \in 1..Len(captured) : captured[k] < reads
    BY <1>3, Elements DEF PInv, Pipelined, Numbered
  <2> QED
    BY <1>1, <2>1, <2>2, AppendProperties, LenProperties
<1>12. Numbered'
  <2>1. \A k, l \in DOMAIN captured' : k < l => captured'[k] < captured'[l]
    <3> SUFFICES ASSUME NEW k \in DOMAIN captured', NEW l \in DOMAIN captured', k < l
                 PROVE  captured'[k] < captured'[l]
      OBVIOUS
    <3>1. k \in 1..Len(captured)
      BY <1>11
    <3>2. CASE l = Len(captured) + 1
      BY <1>11, <3>1, <3>2
    <3>3. CASE l \in 1..Len(captured)
      BY <1>11, <3>1, <3>3 DEF PInv, Pipelined, Numbered
    <3> QED
      BY <1>11, <3>2, <3>3
  <2>2. \A k \in DOMAIN captured' : captured'[k] <= reads'
    <3>1. reads \in Nat /\ \A k \in DOMAIN captured : captured[k] <= reads
      BY Elements DEF PInv, Pipelined, Numbered
    <3> QED
      BY <1>1, <1>11, <3>1
  <2> QED
    BY <1>3, <2>1, <2>2 DEF Numbered
<1>b. Sized'
  <2>1. Sized
    BY DEF PInv, Pipelined
  <2>2. \A b \in Buffers' : Pending(b)' => mem'[b].used # 0
    <3> SUFFICES ASSUME NEW b \in Buffers, Pending(b)' PROVE mem'[b].used # 0
      BY <1>5
    <3>1. CASE b = dst
      BY <1>5, RecorderAssumption, <3>1
    <3>2. CASE Pending(b)
      BY <1>8, <2>1, <3>2 DEF Sized
    <3> QED
      BY <1>7, <3>1, <3>2
  <2>3. ASSUME NEW t \in {"enc", "rec"}, Held(t)', pc'[t] # "length"
        PROVE  out'.len = mem'[Hand'].used
    <3>1. Held(t) /\ pc[t] # "length" /\ InHand
      BY <1>3, <1>c, <2>3 DEF SamePlaces, InHand
    <3>2. mem'[Hand] = mem[Hand]
      BY <1>8, <3>1 DEF Pending
    <3> QED
      BY <1>1, <1>c, <2>1, <3>1, <3>2 DEF Sized
  <2> QED
    BY <2>2, <2>3 DEF Sized
<1>13. ASSUME ~Stuck'
       PROVE  InOrder' /\ Complete'
  <2>1. ~Stuck
    BY <1>c, <1>13
  <2>2. InOrder /\ Complete
    BY <2>1 DEF PInv, Pipelined
  <2>3. \A b : Pending(b) => (Good(b)' <=> Good(b))
    BY <1>8 DEF Good
  <2>4. InHand => Pending(Hand)
    BY DEF Pending
  <2>5. \A k \in DOMAIN m_fullBuffers : Pending(m_fullBuffers[k])
    BY DEF Pending
  <2>6. InOrder'
    <3>1. \A k \in DOMAIN m_fullBuffers : mem'[m_fullBuffers[k]] = mem[m_fullBuffers[k]]
      BY <1>8, <2>5
    <3>2. InHand => mem'[Hand] = mem[Hand]
      BY <1>8, <2>4
    <3>3. \A k, l \in DOMAIN m_fullBuffers :
            k < l /\ mem'[m_fullBuffers[k]].used # ULong - 1
                  /\ mem'[m_fullBuffers[l]].used # ULong - 1 =>
              mem'[m_fullBuffers[k]].chunk < mem'[m_fullBuffers[l]].chunk
      BY <2>2, <3>1 DEF InOrder, Good
    <3>4. InHand /\ mem'[Hand].used # ULong - 1 =>
            \A k \in DOMAIN m_fullBuffers : mem'[m_fullBuffers[k]].used # ULong - 1 =>
              mem'[Hand].chunk < mem'[m_fullBuffers[k]].chunk
      BY <2>2, <3>1, <3>2 DEF InOrder, Good
    <3>5. \A k \in DOMAIN m_fullBuffers : mem'[m_fullBuffers[k]].used # ULong - 1 =>
            mem'[m_fullBuffers[k]].chunk < reads
      BY <1>3, <2>2, <3>1 DEF InOrder, Good
    <3>6. InHand /\ mem'[Hand].used # ULong - 1 => mem'[Hand].chunk < reads
      BY <1>3, <2>2, <3>2 DEF InOrder, Good
    <3> QED
      BY <1>1, <1>3, <1>c, <1>5, <3>3, <3>4, <3>5, <3>6 DEF InOrder, Good
  <2>7. Complete'
    <3> DEFINE L == Len(written)
               M == Len(captured) + 1
    <3>1. L \in Nat /\ DOMAIN written = 1..L /\ L <= Len(captured)
      BY <2>2, Elements DEF Complete, PInv, Pipelined
    <3>2. Undelivered' = L + 1 .. M /\ Undelivered = L + 1 .. Len(captured)
      BY <1>1, <1>11 DEF Undelivered
    <3>3. \A k \in DOMAIN written' : written'[k] = captured'[k]
      BY <1>1, <1>11, <2>2, <3>1 DEF Complete
    <3>4. ASSUME NEW k \in L + 1 .. M
          PROVE  \E b \in Buffers : Pending(b)' /\ Good(b)' /\ mem'[b].chunk = captured'[k]
      <4>1. CASE k = M
        <5>1. \E b \in Buffers : b = dst /\ Pending(b)' /\ Good(b)'
          <6>1. \A b : b = dst => Pending(b)' /\ Good(b)'
            BY <1>5, <1>6, <1>7 DEF Good
          <6> QED
            BY <1>4, <6>1
        <5> QED
          BY <1>5, <1>11, <4>1, <5>1
      <4>2. CASE k # M
        <5>1. k \in Undelivered /\ k \in 1..Len(captured)
          BY <1>11, <3>1, <3>2, <4>2
        <5>2. PICK b \in Buffers : Pending(b) /\ Good(b) /\ mem[b].chunk = captured[k]
          BY <2>2, <5>1 DEF Complete
        <5> QED
          BY <1>7, <1>8, <1>11, <2>3, <5>1, <5>2
      <4> QED
        BY <4>1, <4>2
    <3>5. ASSUME NEW b \in Buffers, Pending(b)', Good(b)'
          PROVE  \E k \in L + 1 .. M : mem'[b].chunk = captured'[k]
      <4>1. CASE b = dst
        <5>1. M \in L + 1 .. M
          BY <1>11, <3>1
        <5> QED
          BY <1>5, <1>11, <4>1, <5>1
      <4>2. CASE b # dst
        <5>1. Pending(b) /\ Good(b)
          BY <1>7, <2>3, <3>5, <4>2
        <5>2. PICK k \in Undelivered : mem[b].chunk = captured[k]
          BY <2>2, <5>1 DEF Complete
        <5>3. k \in 1..Len(captured) /\ k \in L + 1 .. M
          BY <1>11, <3>1, <3>2
        <5> QED
          BY <1>8, <1>11, <5>1, <5>2, <5>3
      <4> QED
        BY <4>1, <4>2
    <3>6. L <= M
      BY <1>11, <3>1
    <3> QED
      BY <1>1, <1>5, <1>11, <3>2, <3>3, <3>4, <3>5, <3>6 DEF Complete
  <2> QED
    BY <2>6, <2>7
<1> QED
  BY <1>9, <1>10, <1>12, <1>b, <1>13 DEF Pipelined

LEMMA RecReadFailsStep == ASSUME PInv, RecReadFails PROVE Pipelined'
<1>1. /\ mem' = [mem EXCEPT ![dst].used = ULong - 1]
      /\ pc["rec"] = "read" /\ pc' = [pc EXCEPT !["rec"] = "count"]
      /\ UNCHANGED <<m_pSndbuf, setter, m_fullBuffers, m_inputBuffers, reads, captured,
                     written, dst, out>>
  BY DEF RecReadFails, Goto, At, queues, recVars, encVars, raceVars
<1>2. pc'["prep"] = pc["prep"] /\ pc'["enc"] = pc["enc"] /\ pc'["rec"] = "count"
  BY <1>1 DEF PInv, IInv, TypeOK, Threads
<1>3. SamePlaces /\ (Current' => Current) /\ ~Recorded /\ Recorded' /\ Unread /\ ~Unread'
  BY <1>1, <1>2 DEF SamePlaces, Current, Recorded, Unread
<1>c. /\ InHand' <=> InHand
      /\ Hand' = Hand
      /\ \A t \in {"enc", "rec"} : Held(t)' <=> Held(t)
      /\ Stuck' <=> Stuck
  BY <1>1, <1>3, SameHand
<1>4. dst \in Buffers /\ ~Pending(dst) /\ ~Empties(dst)
  BY <1>1 DEF PInv, Pipelined, Apart, At
<1>5. /\ Buffers' = Buffers
      /\ \A b \in Buffers : b # dst => mem'[b] = mem[b]
      /\ mem'[dst].used = ULong - 1
  <2>1. DOMAIN mem = 1..Len(mem) /\ Len(mem) \in Nat /\ mem \in Seq(SndBuffer)
    BY LenProperties DEF PInv, IInv, TypeOK
  <2>2. mem[dst] \in SndBuffer
    BY <1>4, Elements DEF PInv, Pipelined
  <2>3. [mem[dst] EXCEPT !.used = ULong - 1] \in SndBuffer
    BY <2>2, SndBufferFields
  <2>4. mem' = [mem EXCEPT ![dst] = [mem[dst] EXCEPT !.used = ULong - 1]]
    BY <1>1
  <2>5. Len(mem') = Len(mem)
    BY <1>4, <2>1, <2>3, <2>4, ExceptSeq DEF Buffers
  <2>6. mem'[dst] = [mem[dst] EXCEPT !.used = ULong - 1]
    BY <1>4, <2>1, <2>4 DEF Buffers
  <2>7. mem'[dst].used = ULong - 1
    BY <2>2, <2>6 DEF SndBuffer
  <2>8. \A b \in Buffers : b # dst => mem'[b] = mem[b]
    BY <2>1, <2>4 DEF Buffers
  <2> QED
    BY <2>5, <2>7, <2>8 DEF Buffers
<1>7. /\ \A b : Pending(b)' <=> Pending(b) \/ b = dst
      /\ \A b : Empties(b)' <=> Empties(b)
  BY <1>1, <1>3, <1>c DEF Pending, Empties
<1>8. \A b : Pending(b) => mem'[b] = mem[b] /\ b \in Buffers
  BY <1>4, <1>5, PendingBuffers DEF PInv, Pipelined
<1>9. Together'
  BY <1>2 DEF Together, At
<1>10. Apart'
  <2>1. Apart
    BY DEF PInv, Pipelined
  <2>2. Current' => ~Empties(m_pSndbuf)' /\ ~Pending(m_pSndbuf)'
    <3> SUFFICES ASSUME Current PROVE ~Empties(m_pSndbuf)' /\ ~Pending(m_pSndbuf)'
      BY <1>3
    <3>1. ~Empties(m_pSndbuf) /\ ~Pending(m_pSndbuf) /\ m_pSndbuf # dst
      BY <1>1, <2>1 DEF Apart, At
    <3> QED
      BY <1>1, <1>3, <1>c, <3>1 DEF Empties, Pending
  <2>3. \A b \in Buffers' : ~(Empties(b)' /\ Pending(b)')
    BY <1>4, <1>5, <1>7, <2>1 DEF Apart
  <2>4. InHand' => Hand' \in Buffers'
    BY <1>5, <1>c, <2>1 DEF Apart
  <2>5. Current' => m_pSndbuf' \in Buffers'
    BY <1>1, <1>3, <1>5, <2>1 DEF Apart
  <2>6. setter' = "rec" => m_pSndbuf' = dst'
    BY <1>1, <2>1 DEF Apart
  <2>7. /\ \A k \in DOMAIN m_inputBuffers' : m_inputBuffers'[k] # 0
        /\ \A k, l \in DOMAIN m_inputBuffers' :
             m_inputBuffers'[k] = m_inputBuffers'[l] => k = l
    BY <1>1, <2>1 DEF Apart
  <2>8. dst' \in Buffers'
    BY <1>1, <1>4, <1>5
  <2> QED
    BY <1>2, <2>2, <2>3, <2>4, <2>5, <2>6, <2>7, <2>8 DEF Apart, At
<1>11. Numbered'
  BY <1>1, <1>3 DEF PInv, Pipelined, Numbered
<1>b. Sized'
  <2>1. Sized
    BY DEF PInv, Pipelined
  <2>2. \A b \in Buffers' : Pending(b)' => mem'[b].used # 0
    <3> SUFFICES ASSUME NEW b \in Buffers, Pending(b)' PROVE mem'[b].used # 0
      BY <1>5
    <3>1. CASE b = dst
      BY <1>5, RecorderAssumption, <3>1
    <3>2. CASE Pending(b)
      BY <1>8, <2>1, <3>2 DEF Sized
    <3> QED
      BY <1>7, <3>1, <3>2
  <2>3. ASSUME NEW t \in {"enc", "rec"}, Held(t)', pc'[t] # "length"
        PROVE  out'.len = mem'[Hand'].used
    <3>1. Held(t) /\ pc[t] # "length" /\ InHand
      BY <1>3, <1>c, <2>3 DEF SamePlaces, InHand
    <3>2. mem'[Hand] = mem[Hand]
      BY <1>8, <3>1 DEF Pending
    <3> QED
      BY <1>1, <1>c, <2>1, <3>1, <3>2 DEF Sized
  <2> QED
    BY <2>2, <2>3 DEF Sized
<1>12. ASSUME ~Stuck'
       PROVE  InOrder' /\ Complete'
  <2>1. ~Stuck
    BY <1>c, <1>12
  <2>2. InOrder /\ Complete
    BY <2>1 DEF PInv, Pipelined
  <2>3. \A b : Pending(b) => (Good(b)' <=> Good(b))
    BY <1>8 DEF Good
  <2>4. \A b : b = dst => ~Good(b)'
    BY <1>5 DEF Good
  <2>5. InOrder'
    <3>1. \A k \in DOMAIN m_fullBuffers : mem'[m_fullBuffers[k]] = mem[m_fullBuffers[k]]
      BY <1>8 DEF Pending
    <3>2. InHand => mem'[Hand] = mem[Hand]
      BY <1>8 DEF Pending
    <3>3. \A k, l \in DOMAIN m_fullBuffers :
            k < l /\ mem'[m_fullBuffers[k]].used # ULong - 1
                  /\ mem'[m_fullBuffers[l]].used # ULong - 1 =>
              mem'[m_fullBuffers[k]].chunk < mem'[m_fullBuffers[l]].chunk
      BY <2>2, <3>1 DEF InOrder, Good
    <3>4. InHand /\ mem'[Hand].used # ULong - 1 =>
            \A k \in DOMAIN m_fullBuffers : mem'[m_fullBuffers[k]].used # ULong - 1 =>
              mem'[Hand].chunk < mem'[m_fullBuffers[k]].chunk
      BY <2>2, <3>1, <3>2 DEF InOrder, Good
    <3>5. \A k \in DOMAIN m_fullBuffers : mem'[m_fullBuffers[k]].used # ULong - 1 =>
            mem'[m_fullBuffers[k]].chunk < reads
      BY <1>3, <2>2, <3>1 DEF InOrder, Good
    <3>6. InHand /\ mem'[Hand].used # ULong - 1 => mem'[Hand].chunk < reads
      BY <1>3, <2>2, <3>2 DEF InOrder, Good
    <3> QED
      BY <1>1, <1>3, <1>c, <1>5, <3>3, <3>4, <3>5, <3>6 DEF InOrder, Good
  <2>6. Complete'
    <3>1. Undelivered' = Undelivered
      BY <1>1 DEF Undelivered
    <3>2. \A b : Pending(b)' /\ Good(b)' <=> Pending(b) /\ Good(b)
      BY <1>4, <1>7, <2>3, <2>4
    <3>3. \A b : Pending(b) => mem'[b].chunk = mem[b].chunk
      BY <1>8
    <3> QED
      BY <1>1, <1>5, <2>2, <3>1, <3>2, <3>3 DEF Complete
  <2> QED
    BY <2>5, <2>6
<1> QED
  BY <1>9, <1>10, <1>11, <1>b, <1>12 DEF Pipelined

(* The steps that touch no chunk. *)
LEMMA QuietSteps ==
  ASSUME PInv,
         \/ PrepLock \/ PrepSize \/ PrepRefill
         \/ EncTest \/ EncShipNothing \/ EncProcessed
         \/ RecOpen \/ RecOpenFails \/ RecUnlock \/ RecCount \/ RecStop \/ RecJoin
         \/ RecDrainNothing \/ RecClose \/ Undefined \/ UNCHANGED vars
  PROVE  Pipelined'
<1>1. pc \in [Threads -> PrepPlaces \cup RecPlaces \cup EncPlaces]
  BY DEF PInv, IInv, TypeOK
<1>2. UNCHANGED <<m_pSndbuf, setter, m_inputBuffers, m_fullBuffers, mem, reads,
                  captured, written, dst, out>>
  BY DEF PrepLock, PrepSize, PrepRefill, EncTest, EncShipNothing, ShipNothing, EncProcessed,
     RecOpen, RecOpenFails, RecUnlock, RecCount, Use, RecStop, RecJoin, RecDrainNothing,
     RecClose, Undefined, vars, queues, prepVars, recVars, encVars, raceVars
<1>3. Buffers' = Buffers
  BY <1>2 DEF Buffers
<1>4. pc["rec"] = "undefined" => pc["enc"] = "undefined" /\ pc["prep"] = "undefined"
  BY DEF PInv, Pipelined, Together, At
<1> USE DEF Threads, At, Goto, SamePlaces, Recorded, Unread
<1>5. CASE PrepLock \/ PrepSize \/ PrepRefill
  <2>1. /\ pc["prep"] # "undefined" /\ pc'["rec"] = pc["rec"] /\ pc'["enc"] = pc["enc"]
        /\ pc'["prep"] \in {"zero", "push", "pushing"} => pc["prep"] = "push"
    BY <1>1, <1>5 DEF PrepLock, PrepSize, PrepRefill
  <2>2. SamePlaces /\ (Recorded' <=> Recorded) /\ (Unread' => Unread)
    BY <1>2, <2>1
  <2> QED
    BY <1>2, <1>3, <1>4, <2>1, <2>2, QuietStep
<1>6. CASE EncTest \/ EncShipNothing \/ EncProcessed
  <2>1. /\ pc["enc"] \in {"test", "ship", "processed"}
        /\ pc'["enc"] \in {"test", "ship", "exited"}
        /\ pc'["rec"] = pc["rec"] /\ pc'["prep"] = pc["prep"]
    BY <1>1, <1>6 DEF EncTest, EncShipNothing, ShipNothing, EncProcessed
  <2>2. SamePlaces /\ (Recorded' <=> Recorded) /\ (Unread' => Unread)
    BY <1>2, <2>1
  <2> QED
    BY <1>2, <1>3, <1>4, <2>1, <2>2, QuietStep
<1>7. CASE RecOpen
  <2>1. /\ pc["enc"] = "off" /\ pc["rec"] = "wait"
        /\ pc'["enc"] = "test" /\ pc'["rec"] = "take" /\ pc'["prep"] = pc["prep"]
    BY <1>1, <1>7 DEF RecOpen, PInv, NoEncoderYet
  <2>2. SamePlaces /\ (Recorded' <=> Recorded) /\ (Unread' => Unread)
    BY <1>2, <2>1
  <2> QED
    BY <1>2, <1>3, <1>4, <2>1, <2>2, QuietStep
<1>8. CASE RecOpenFails \/ RecStop \/ RecJoin \/ RecDrainNothing \/ RecClose
  <2>1. /\ pc["rec"] \in {"wait", "stop", "join", "drain", "pclose"}
        /\ pc'["rec"] \in {"failed", "join", "drain", "pclose", "closed"}
        /\ pc'["enc"] = pc["enc"] /\ pc'["prep"] = pc["prep"]
    BY <1>1, <1>8 DEF RecOpenFails, RecStop, RecJoin, RecDrainNothing, ShipNothing, RecClose
  <2>2. SamePlaces /\ (Recorded' <=> Recorded) /\ (Unread' => Unread)
    BY <1>2, <2>1
  <2> QED
    BY <1>2, <1>3, <1>4, <2>1, <2>2, QuietStep
<1>9. CASE RecUnlock \/ RecCount
  <2>1. /\ \/ pc["rec"] = "unlock" /\ pc'["rec"] = "call"
           \/ pc["rec"] = "count" /\ pc'["rec"] = "push"
        /\ pc'["enc"] = pc["enc"] /\ pc'["prep"] = pc["prep"]
    BY <1>1, <1>9 DEF RecUnlock, RecCount
  <2>2. SamePlaces /\ (Recorded' <=> Recorded) /\ (Unread' => Unread)
    BY <1>2, <2>1
  <2> QED
    BY <1>2, <1>3, <1>4, <2>1, <2>2, QuietStep
<1>10. CASE Undefined \/ UNCHANGED vars
  <2>1. pc' = pc
    BY <1>10 DEF Undefined, vars
  <2>2. SamePlaces /\ (Recorded' <=> Recorded) /\ (Unread' => Unread)
    BY <1>2, <2>1
  <2> QED
    BY <1>2, <1>3, <1>4, <2>1, <2>2, QuietStep
<1> QED
  BY <1>5, <1>6, <1>7, <1>8, <1>9, <1>10

(* NULL under a thread, and the wild pointers of an empty queue.           *)
LEMMA CrashSteps ==
  ASSUME \/ NullUsed("prep", {"zero"}) \/ NullUsed("enc", {"length", "processed"})
         \/ RecTakeWild \/ RecPopEmpty
  PROVE  Crash
  BY DEF NullUsed, RecTakeWild, RecPopEmpty

(* The recorder looks, and finds NULL. *)
LEMMA RecNullStep == ASSUME PInv, RecNull PROVE Pipelined'
<1>1. /\ m_pSndbuf = 0 /\ pc["rec"] = "look" /\ pc' = [pc EXCEPT !["rec"] = "new"]
      /\ UNCHANGED <<m_pSndbuf, setter, m_inputBuffers, m_fullBuffers, mem, reads,
                     captured, written, dst, out>>
  BY DEF RecNull, Use, Goto, At, recVars, encVars
<1>2. pc'["prep"] = pc["prep"] /\ pc'["enc"] = pc["enc"] /\ pc'["rec"] = "new"
  BY <1>1 DEF PInv, IInv, TypeOK, Threads
<1>3. SamePlaces /\ (Recorded' <=> Recorded) /\ (Unread' => Unread) /\ Buffers' = Buffers
  BY <1>1, <1>2 DEF SamePlaces, Recorded, Unread, Buffers
<1> QED
  BY <1>1, <1>2, <1>3, QuietStep

LEMMA EncoderStep == PInv /\ [Next]_vars => NoEncoderYet'
<1> SUFFICES ASSUME PInv, [Next]_vars PROVE NoEncoderYet'
  OBVIOUS
<1>1. pc \in [Threads -> PrepPlaces \cup RecPlaces \cup EncPlaces]
  BY DEF PInv, IInv, TypeOK
<1>2. CASE Undefined \/ UNCHANGED vars
  BY <1>2 DEF Undefined, vars, PInv, NoEncoderYet, At
<1>3. CASE PrepAlloc \/ PrepZero \/ PrepLock \/ PrepPush \/ PrepSize \/ PrepRefill
  <2>1. pc'["rec"] = pc["rec"] /\ pc'["enc"] = pc["enc"]
    BY <1>1, <1>3 DEF Threads, Goto, PrepAlloc, PrepZero, PrepLock, PrepPush, PrepSize,
       PrepRefill
  <2> QED
    BY <2>1 DEF PInv, NoEncoderYet, At
<1>4. CASE EncTest \/ EncShipNothing \/ EncShipTake \/ EncShipWrite \/ EncProcessed
  <2>1. pc["enc"] # "off" /\ pc'["rec"] = pc["rec"]
    BY <1>1, <1>4 DEF Threads, At, Goto, EncTest, EncShipNothing, ShipNothing,
      EncShipTake, EncShipWrite, ShipLength, ShipData, ShipWrite, EncProcessed
  <2> QED
    BY <2>1 DEF PInv, NoEncoderYet, At
<1>5. CASE \/ RecOpen \/ RecOpenFails \/ RecTake \/ RecPop \/ RecNull \/ RecNew \/ RecZero
           \/ RecUnlock \/ RecReadCall \/ RecReadReturn \/ RecReadFails \/ RecCount
           \/ RecPush \/ RecStop \/ RecJoin \/ RecDrainNothing \/ RecDrainTake
           \/ RecDrainWrite \/ RecClose
  <2>1. pc'["rec"] # "wait"
    BY <1>1, <1>5 DEF Threads, At, Goto, RecOpen, RecOpenFails, RecTake, RecPop, RecNull,
      RecNew, RecZero, RecUnlock, RecReadCall, RecReadReturn, RecReadFails, RecCount,
      RecPush, RecStop, RecJoin, RecDrainNothing, ShipNothing, RecDrainTake, RecDrainWrite,
      ShipLength, ShipData, ShipWrite, RecClose
  <2> QED
    BY <2>1 DEF NoEncoderYet, At
<1>6. CASE Crash
  BY <1>6 DEF Crash, Threads, NoEncoderYet, At
<1> QED
  BY <1>2, <1>3, <1>4, <1>5, <1>6, CrashSteps DEF Next, Prep, Enc, Rec

(* A run without races keeps the buffers apart and the chunks in order.    *)
LEMMA PipelineStep == PInv /\ [RaceFreeNext]_vars => PInv'
<1> SUFFICES ASSUME PInv, [RaceFreeNext]_vars PROVE PInv'
  OBVIOUS
<1>1. [Next]_vars /\ (UNCHANGED vars \/ ~raced')
  BY DEF RaceFreeNext
<1>2. IInv'
  BY <1>1, TypeStep, ControlStep DEF PInv, IInv
<1>3. NoEncoderYet'
  BY <1>1, EncoderStep
<1>4. CASE UNCHANGED vars
  BY <1>2, <1>3, <1>4, QuietSteps DEF PInv
<1>5. CASE ~raced' /\ Next
  <2>1. ASSUME \/ PrepLock \/ PrepSize \/ PrepRefill
               \/ EncTest \/ EncShipNothing \/ EncProcessed
               \/ RecOpen \/ RecOpenFails \/ RecUnlock \/ RecCount \/ RecStop \/ RecJoin
               \/ RecDrainNothing \/ RecClose \/ Undefined
        PROVE  Pipelined'
    BY <2>1, QuietSteps
  <2>2. ASSUME PrepAlloc \/ RecNew \/ PrepZero \/ RecZero \/ PrepPush
        PROVE  Pipelined'
    BY <1>5, <2>2, AllocSteps, ZeroSteps, PrepPushStep
  <2>3. ASSUME EncShipTake PROVE Pipelined'
    <3>1. ShipTake("enc") /\ pc["enc"] = "ship" /\ pc' = [pc EXCEPT !["enc"] = "length"]
      BY <2>3 DEF EncShipTake, At, Goto
    <3> QED
      BY <3>1, TakeStep
  <2>4. ASSUME RecDrainTake PROVE Pipelined'
    <3>1. ShipTake("rec") /\ pc["rec"] = "drain" /\ pc' = [pc EXCEPT !["rec"] = "length"]
      BY <2>4 DEF RecDrainTake, At, Goto
    <3> QED
      BY <3>1, TakeStep
  <2>5. ASSUME EncShipWrite PROVE Pipelined'
    BY <1>5, <2>5, ArgumentStep, WriteStep DEF EncShipWrite
  <2>6. ASSUME RecDrainWrite PROVE Pipelined'
    <3>1. CASE ShipLength("rec") \/ ShipData("rec")
      BY <1>5, <3>1, ArgumentStep
    <3>2. ASSUME NEW next \in {"drain", "pclose"}, ShipWrite("rec", next)
          PROVE  Pipelined'
      BY <3>2, WriteStep
    <3> QED
      BY <2>6, <3>1, <3>2 DEF RecDrainWrite
  <2>7. ASSUME RecTake \/ RecPop \/ RecNull \/ RecReadCall \/ RecReadReturn
               \/ RecReadFails \/ RecPush
        PROVE  Pipelined'
    BY <1>5, <2>7, RecTakeStep, RecPopStep, RecNullStep, RecReadCallStep,
       RecReadReturnStep, RecReadFailsStep, RecPushStep
  <2>8. ASSUME \/ NullUsed("prep", {"zero"}) \/ NullUsed("enc", {"length", "processed"})
               \/ RecTakeWild \/ RecPopEmpty
        PROVE  Pipelined'
    BY <2>8, CrashSteps, CrashStep
  <2>9. Pipelined'
    BY <1>5, <2>1, <2>2, <2>3, <2>4, <2>5, <2>6, <2>7, <2>8 DEF Next, Prep, Enc, Rec
  <2> QED
    BY <1>2, <1>3, <2>9 DEF PInv
<1> QED
  BY <1>1, <1>4, <1>5 DEF RaceFreeNext

-----------------------------------------------------------------------------
(* What the card delivers is a chunk Capture knows.                        *)
LEMMA ReadImplements == ASSUME PInv, RecReadReturn PROVE Pipeline!Read
<1>1. /\ pc["rec"] = "read" /\ pc' = [pc EXCEPT !["rec"] = "count"]
      /\ captured' = Append(captured, reads) /\ written' = written
  BY DEF RecReadReturn, At, Goto, encVars
<1>2. reads \in 1..MaxReads
  BY <1>1 DEF PInv, IInv, TypeOK, Pointers
<1>3. pc'["rec"] = "count"
  BY <1>1 DEF PInv, IInv, TypeOK, Threads
<1> QED
  BY <1>1, <1>2, <1>3 DEF Pipeline!Read, At

(* A buffer that is shipped delivers the next chunk, or nothing.           *)
LEMMA WriteImplements ==
  ASSUME PInv, NEW t \in {"enc", "rec"}, NEW next, ShipWrite(t, next),
         t = "enc" => next = "processed",
         t = "rec" => next \in {"drain", "pclose"}
  PROVE  Pipeline!Deliver \/ UNCHANGED Pipeline!vars
<1>1. /\ pc[t] = "write" /\ pc' = [pc EXCEPT ![t] = next]
      /\ captured' = captured
  BY DEF ShipWrite, Goto, At, recVars
<1>2. /\ ~Stuck /\ InHand
      /\ written' = IF Good(Hand) THEN Append(written, mem[Hand].chunk)
                    ELSE written
  BY WriteStep
<1>3. pc["rec"] # "closed" /\ pc'["rec"] # "closed"
  BY <1>1 DEF PInv, IInv, TypeOK, Threads, Drain
<1>4. CASE Good(Hand)
  <2>1. Len(written) < Len(captured) /\ mem[Hand].chunk = captured[Len(written) + 1]
    BY <1>2, <1>4, HandIsNext
  <2>2. written' = Append(written, captured[Len(written) + 1])
    BY <1>2, <1>4, <2>1
  <2> QED
    BY <1>1, <1>3, <2>1, <2>2 DEF Pipeline!Deliver, At
<1>5. CASE ~Good(Hand)
  BY <1>1, <1>2, <1>3, <1>5 DEF Pipeline!vars, At
<1> QED
  BY <1>4, <1>5

(* The pipe is closed with nothing between the card and the encoder.       *)
LEMMA CloseImplements == ASSUME PInv, RecClose PROVE Pipeline!Close
<1>1. /\ pc["rec"] = "pclose" /\ pc' = [pc EXCEPT !["rec"] = "closed"]
      /\ UNCHANGED <<captured, written>>
  BY DEF RecClose, At, Goto, recVars, encVars
<1>2. pc["enc"] = "exited" /\ m_fullBuffers = << >> /\ pc'["rec"] = "closed"
  BY <1>1 DEF PInv, IInv, TypeOK, Threads, Drain
<1>3. \A b : ~Pending(b)
  <2>1. DOMAIN m_fullBuffers = {}
    BY <1>2
  <2> QED
    BY <1>1, <1>2, <2>1 DEF Pending, Recorded, InHand, Held
<1>4. Complete
  BY <1>1, <1>2 DEF PInv, Pipelined, Stuck, At
<1>5. /\ Len(captured) \in Nat /\ Len(written) \in Nat
      /\ DOMAIN written = 1..Len(written)
  BY Elements DEF PInv, Pipelined
<1>6. Len(written) = Len(captured)
  <2>1. Undelivered = {} /\ Len(written) <= Len(captured)
    BY <1>3, <1>4 DEF Complete
  <2> QED
    BY <1>5, <2>1 DEF Undelivered
<1>7. captured \in Seq(0..MaxReads) /\ written \in Seq(0..MaxReads)
  BY SeqWiden, RecorderAssumption DEF PInv, IInv, TypeOK
<1>8. \A k \in 1..Len(written) : written[k] = captured[k]
  BY <1>4, <1>5 DEF Complete
<1>9. written = captured
  BY <1>6, <1>7, <1>8, SeqEqual
<1> QED
  BY <1>1, <1>2, <1>9 DEF Pipeline!Close, At

(* Every other step is one Capture does not see.                           *)
LEMMA OthersStutter ==
  ASSUME PInv,
         \/ Prep \/ Undefined \/ UNCHANGED vars
         \/ EncTest \/ EncShipNothing \/ EncShipTake \/ ShipLength("enc") \/ ShipData("enc")
         \/ EncProcessed \/ NullUsed("enc", {"length", "processed"})
         \/ RecOpen \/ RecOpenFails \/ RecTake \/ RecTakeWild \/ RecPop \/ RecPopEmpty
         \/ RecNull \/ RecNew \/ RecZero \/ RecUnlock
         \/ RecReadCall \/ RecReadFails \/ RecCount \/ RecPush \/ RecStop \/ RecJoin
         \/ RecDrainNothing \/ RecDrainTake \/ ShipLength("rec") \/ ShipData("rec")
  PROVE  UNCHANGED Pipeline!vars
<1>1. pc \in [Threads -> PrepPlaces \cup RecPlaces \cup EncPlaces]
  BY DEF PInv, IInv, TypeOK
<1> USE DEF Threads, At, Goto, recVars, encVars
<1>2. CASE Undefined \/ UNCHANGED vars
  BY <1>2 DEF Undefined, vars, Pipeline!vars
<1>3. CASE PrepAlloc \/ PrepZero \/ PrepLock \/ PrepPush \/ PrepSize \/ PrepRefill
  <2>1. UNCHANGED <<captured, written>> /\ pc'["rec"] = pc["rec"]
    BY <1>1, <1>3 DEF PrepAlloc, PrepZero, PrepLock, PrepPush, PrepSize, PrepRefill
  <2> QED
    BY <2>1 DEF Pipeline!vars
<1>4. CASE EncTest \/ EncShipNothing \/ EncShipTake \/ ShipLength("enc") \/ ShipData("enc")
           \/ EncProcessed
  <2>1. UNCHANGED <<captured, written>> /\ pc'["rec"] = pc["rec"]
    BY <1>1, <1>4 DEF EncTest, EncShipNothing, ShipNothing, EncShipTake, ShipTake,
       ShipLength, ShipData, EncProcessed
  <2> QED
    BY <2>1 DEF Pipeline!vars
<1>5. CASE RecOpen \/ RecOpenFails \/ RecTake \/ RecPop \/ RecNull \/ RecNew \/ RecZero
           \/ RecUnlock \/ RecReadCall
  <2>1. UNCHANGED <<captured, written>> /\ pc["rec"] # "closed" /\ pc'["rec"] # "closed"
    BY <1>1, <1>5 DEF RecOpen, RecOpenFails, RecTake, RecPop, RecNull, RecNew, RecZero,
       RecUnlock, RecReadCall
  <2> QED
    BY <2>1 DEF Pipeline!vars
<1>6. CASE RecReadFails \/ RecCount \/ RecPush \/ RecStop \/ RecJoin
  <2>1. UNCHANGED <<captured, written>> /\ pc["rec"] # "closed" /\ pc'["rec"] # "closed"
    BY <1>1, <1>6 DEF RecReadFails, RecCount, RecPush, RecStop, RecJoin
  <2> QED
    BY <2>1 DEF Pipeline!vars
<1>7. CASE RecDrainNothing \/ RecDrainTake \/ ShipLength("rec") \/ ShipData("rec")
  <2>1. UNCHANGED <<captured, written>> /\ pc["rec"] # "closed" /\ pc'["rec"] # "closed"
    BY <1>1, <1>7 DEF RecDrainNothing, ShipNothing, RecDrainTake, ShipTake, ShipLength,
       ShipData
  <2> QED
    BY <2>1 DEF Pipeline!vars
<1>8. CASE \/ NullUsed("prep", {"zero"}) \/ NullUsed("enc", {"length", "processed"})
           \/ RecTakeWild \/ RecPopEmpty
  <2>1. Crash
    BY <1>8, CrashSteps
  <2>2. pc["rec"] # "closed"
    <3>1. CASE RecTakeWild \/ RecPopEmpty
      BY <3>1 DEF RecTakeWild, RecPopEmpty
    <3>2. ASSUME m_pSndbuf = 0, pc["prep"] = "zero" \/ pc["enc"] \in {"length", "processed"}
          PROVE  pc["rec"] # "closed"
      BY <3>2 DEF PInv, IInv, Pointers, Drain
    <3>3. CASE NullUsed("prep", {"zero"}) \/ NullUsed("enc", {"length", "processed"})
      BY <3>2, <3>3 DEF NullUsed
    <3> QED
      BY <1>8, <3>1, <3>3
  <2> QED
    BY <2>1, <2>2 DEF Crash, Pipeline!vars
<1> QED
  BY <1>2, <1>3, <1>4, <1>5, <1>6, <1>7, <1>8 DEF Prep

LEMMA StepImplements == PInv /\ [RaceFreeNext]_vars => [Pipeline!Next]_(Pipeline!vars)
<1> SUFFICES ASSUME PInv, [RaceFreeNext]_vars
             PROVE  Pipeline!Next \/ UNCHANGED Pipeline!vars
  OBVIOUS
<1>1. CASE UNCHANGED vars
  BY <1>1, OthersStutter
<1>2. CASE RaceFreeNext
  <2>1. ~raced' /\ Next
    BY <1>2 DEF RaceFreeNext
  <2>2. CASE RecReadReturn
    BY <2>2, ReadImplements DEF Pipeline!Next
  <2>3. CASE RecClose
    BY <2>3, CloseImplements DEF Pipeline!Next
  <2>4. CASE ShipWrite("enc", "processed")
    BY <2>4, WriteImplements DEF Pipeline!Next
  <2>5. ASSUME NEW next \in {"drain", "pclose"}, ShipWrite("rec", next)
        PROVE  Pipeline!Next \/ UNCHANGED Pipeline!vars
    BY <2>5, WriteImplements DEF Pipeline!Next
  <2>6. ASSUME ~(RecReadReturn \/ RecClose \/ EncShipWrite \/ RecDrainWrite)
        PROVE  UNCHANGED Pipeline!vars
    BY <2>1, <2>6, OthersStutter DEF Next, Enc, Rec
  <2>7. CASE EncShipWrite
    BY <2>4, <2>7, OthersStutter DEF EncShipWrite
  <2>8. CASE RecDrainWrite
    BY <2>5, <2>8, OthersStutter DEF RecDrainWrite
  <2> QED
    BY <2>2, <2>3, <2>6, <2>7, <2>8
<1> QED
  BY <1>1, <1>2

(* The sound read from the card goes down the encoder's pipe complete,     *)
(* once and in order, and the pipe is closed only when all of it has been  *)
(* delivered, in every run in which no thread uses a value of m_pSndbuf    *)
(* that another one assigned: that race is the only way sound is lost.     *)
THEOREM RecorderImplementsCapture == RaceFreeSpec => PipelineSpec
<1>1. Init => Pipeline!Init
  BY DEF Init, Pipeline!Init, At
<1>2. RaceFreeSpec => []PInv
  <2>1. RaceFreeSpec => Init /\ [][RaceFreeNext]_vars
    BY DEF RaceFreeSpec, RaceFreeNext
  <2> QED
    BY InitPipeline, PipelineStep, <2>1, PTL
<1> QED
  BY <1>1, <1>2, StepImplements, PTL
     DEF RaceFreeSpec, RaceFreeNext, PipelineSpec, Pipeline!Spec
=============================================================================
