--------------------------- MODULE KeyboardProofs ---------------------------
(***************************************************************************)
(* Proofs about Keyboard for any tables, keys and buffer and any number of *)
(* signals: the console is restored by every way out of the program, a     *)
(* PASS is never earned by the entries of the two tables, and the program  *)
(* waits for a key only with the watchdog set.                             *)
(***************************************************************************)
EXTENDS Keyboard, FiniteSetTheorems, Functions, TLAPS

Steps == {"endwin", "mode", "term", "close", "exit"}

(* count_keys has a byte left to look at.                                   *)
Counting == pc = "count" => k <= n

LEMMA TypeInit == Init => TypeOK /\ Counting
<1> SUFFICES ASSUME Init PROVE TypeOK /\ Counting
  OBVIOUS
<1>1. line \in Seq(Byte) /\ frames \in Seq(Handlers \X Steps)
  BY DEF Init
<1>2. buf \in [1 .. BufLen + 1 -> Byte] /\ n \in 0 .. BufLen /\ k \in 1 .. BufLen + 1
  BY KeyboardAssumption DEF Init, Byte
<1>3. signals \in 0 .. MaxSignals /\ typed \in 0 .. MaxTyped
  BY KeyboardAssumption DEF Init
<1>4. ticked \subseteq Entries /\ key_count \in Nat
  BY DEF Init
<1>5. late \in BOOLEAN
  BY Zenon DEF Init
<1>6. QED
  BY <1>1, <1>2, <1>3, <1>4, <1>5 DEF Init, TypeOK, Counting, Steps

(* A byte read or counted keeps the buffer and the index inside.            *)
LEMMA ReadType ==
  ASSUME TypeOK, Read
  PROVE  TypeOK' /\ Counting'
<1>1. line \in Seq(Byte) /\ line # << >> /\ Len(line) \in Nat \ {0}
  BY DEF TypeOK, Read
<1>2. n' \in 1 .. BufLen /\ n' <= Len(line)
  BY <1>1, KeyboardAssumption DEF Read, ReadSize
<1>3. buf' \in [1 .. BufLen + 1 -> Byte]
  <2>1. DOMAIN buf = 1 .. BufLen + 1
    BY DEF TypeOK
  <2>2. \A j \in 1 .. BufLen + 1 : (IF j <= n' THEN line[j] ELSE buf[j]) \in Byte
    BY <1>1, <1>2, KeyboardAssumption DEF TypeOK
  <2>3. QED
    BY <2>1, <2>2 DEF Read
<1>4. line' \in Seq(Byte)
  BY <1>1, <1>2 DEF Read
<1>5. k' \in 1 .. BufLen + 1
  BY KeyboardAssumption DEF Read
<1>6. Counting'
  BY <1>2 DEF Counting, Read
<1>7. QED
  BY <1>2, <1>3, <1>4, <1>5, <1>6 DEF TypeOK, Read, Main, At, modes, saved, count

(* A handler is put in front of those that run, and takes its next step.    *)
LEMMA FramesPushed ==
  ASSUME TypeOK, NEW handler \in Handlers
  PROVE  <<<<handler, "endwin">>>> \o frames \in Seq(Handlers \X Steps)
<1>1. <<<<handler, "endwin">>>> \in Seq(Handlers \X Steps)
  BY DEF Steps
<1>2. QED
  BY <1>1 DEF TypeOK, Steps

LEMMA FrameStepped ==
  ASSUME TypeOK, frames # << >>, NEW step \in Steps, GoesTo(step)
  PROVE  /\ frames' \in Seq(Handlers \X Steps) /\ frames' # << >>
         /\ frames'[1][2] = step /\ pc' = pc
<1>1. frames[1] \in Handlers \X Steps /\ 1 \in DOMAIN frames
  BY DEF TypeOK, Steps
<1>2. /\ [frames[1] EXCEPT ![2] = step] \in Handlers \X Steps
      /\ [frames[1] EXCEPT ![2] = step][2] = step
  BY <1>1
<1>3. frames' = [frames EXCEPT ![1] = [frames[1] EXCEPT ![2] = step]] /\ pc' = pc
  BY DEF TypeOK, GoesTo
<1>4. QED
  BY <1>1, <1>2, <1>3 DEF TypeOK, Steps

LEMMA CountType ==
  ASSUME TypeOK, Counting, CountKey
  PROVE  TypeOK' /\ Counting'
<1>1. k \in 1 .. BufLen /\ k <= n
  BY KeyboardAssumption DEF TypeOK, Counting, CountKey, At
<1>2. k' \in 1 .. BufLen + 1
  BY <1>1, KeyboardAssumption DEF CountKey
<1>3. ticked' \subseteq Entries /\ key_count' \in Nat
  BY DEF TypeOK, CountKey, Tick, count
<1>4. pc' \in {"count", "verdict"} /\ (pc' = "count" => k + 1 <= n)
  BY <1>1, KeyboardAssumption DEF CountKey, TypeOK
<1>5. QED
  BY <1>2, <1>3, <1>4 DEF TypeOK, Counting, CountKey, At, modes, saved, input

LEMMA TypeNext ==
  ASSUME TypeOK, Counting, [Next]_vars
  PROVE  TypeOK' /\ Counting'
<1> USE DEF TypeOK, Counting, Main, At, modes, saved, input, reading, count, rest
<1>0. frames \in Seq(Handlers \X Steps)
  BY DEF Steps
<1>1. CASE GetMode
  BY <1>1 DEF GetMode
<1>2. CASE TcGetAttr
  BY <1>2 DEF TcGetAttr
<1>3. CASE TcSetAttr
  BY <1>3 DEF TcSetAttr
<1>4. CASE SetRaw \/ InitScr
  BY <1>4 DEF SetRaw, InitScr
<1>5. CASE SetAlarm
  BY <1>5 DEF SetAlarm
<1>6. CASE Read
  BY <1>6, ReadType
<1>7. CASE CountKey
  BY <1>7, CountType
<1>8. CASE Verdict
  BY <1>8 DEF Verdict
<1>9. CASE MainEndsWin \/ MainRestoresMode
  BY <1>9 DEF MainEndsWin, EndWin, MainRestoresMode, RestoreMode
<1>10. CASE MainRestoresTerm \/ MainCloses
  BY <1>10 DEF MainRestoresTerm, RestoreTerm, MainCloses
<1>11. CASE Return
  BY <1>11 DEF Return
<1>12. CASE HandlerEndsWin \/ HandlerRestoresTerm \/ HandlerCloses
  <2>1. PICK step \in Steps : GoesTo(step)
    BY <1>12 DEF HandlerEndsWin, HandlerRestoresTerm, HandlerCloses, Steps
  <2>2. frames # << >>
    BY <1>12 DEF HandlerEndsWin, HandlerRestoresTerm, HandlerCloses, HandlerAt
  <2>3. frames' \in Seq(Handlers \X Steps) /\ pc' = pc
    BY <2>1, <2>2, FrameStepped
  <2>4. CASE HandlerEndsWin
    BY <2>3, <2>4 DEF HandlerEndsWin, EndWin, Steps
  <2>5. CASE HandlerRestoresTerm
    BY <2>3, <2>5 DEF HandlerRestoresTerm, RestoreTerm, Steps
  <2>6. CASE HandlerCloses
    <3>1. /\ fdOpen' = FALSE
          /\ UNCHANGED <<ended, kbmode, term, oldkbmode, old, allowed, alarmSet, signals, line, typed>>
          /\ UNCHANGED <<buf, n, k, ticked, key_count, late>>
      BY <2>6 DEF HandlerCloses
    <3>2. QED
      <4>1. fdOpen' \in BOOLEAN /\ allowed' \in BOOLEAN /\ alarmSet' \in BOOLEAN
        BY <3>1
      <4>2. late' \in BOOLEAN
        BY <3>1, Zenon
      <4>3. QED
        BY <2>3, <3>1, <4>1, <4>2 DEF Steps
  <2>7. QED
    BY <1>12, <2>4, <2>5, <2>6
<1>13. CASE HandlerRestoresMode
  <2>1. frames # << >>
    BY <1>13 DEF HandlerRestoresMode, HandlerAt
  <2>2. CASE fdOpen /\ allowed
    <3>1. GoesTo("term")
      BY <1>13, <2>2 DEF HandlerRestoresMode, RestoreMode
    <3>2. frames' \in Seq(Handlers \X Steps) /\ pc' = pc
      BY <2>1, <3>1, FrameStepped DEF Steps
    <3>3. QED
      BY <1>13, <2>2, <3>2 DEF HandlerRestoresMode, RestoreMode, Steps
  <2>3. CASE ~(fdOpen /\ allowed)
    BY <1>13, <2>3 DEF HandlerRestoresMode, RestoreMode
  <2>4. QED
    BY <2>2, <2>3
<1>14. CASE HandlerExits
  BY <1>14 DEF HandlerExits, HandlerAt
<1>15. CASE Alarm
  <2>1. "watch_dog" \in Handlers
    BY DEF Handlers
  <2>2. frames' \in Seq(Handlers \X Steps)
    BY <1>15, <2>1, FramesPushed DEF Alarm, Interrupt
  <2>3. alarmSet' \in BOOLEAN /\ late' \in BOOLEAN
    BY <1>15, Zenon DEF Alarm, Interrupt
  <2>4. UNCHANGED <<pc, ended, modes, saved, fdOpen, allowed, signals, input, reading, count>>
    BY <1>15 DEF Alarm, Interrupt
  <2>5. QED
    BY <2>2, <2>3, <2>4 DEF Steps
<1>16. CASE Type
  BY <1>16, KeyboardAssumption DEF Type
<1>17. ASSUME NEW handler \in {"SIGTERM", "SIGINT"}, Signal(handler)
       PROVE  TypeOK' /\ Counting'
  <2>1. handler \in Handlers
    BY <1>17 DEF Handlers
  <2>2. frames' \in Seq(Handlers \X Steps)
    BY <1>17, <2>1, FramesPushed DEF Signal, Interrupt
  <2>3. signals' \in 0 .. MaxSignals /\ late' \in BOOLEAN
    <3>1. signals' \in 0 .. MaxSignals
      BY <1>17, KeyboardAssumption DEF Signal
    <3>2. late' \in BOOLEAN
      BY <1>17, Zenon DEF Signal, Interrupt
    <3>3. QED
      BY <3>1, <3>2
  <2>4. UNCHANGED <<pc, ended, modes, saved, fdOpen, allowed, alarmSet, input, reading, count>>
    BY <1>17 DEF Signal, Interrupt
  <2>5. QED
    BY <2>2, <2>3, <2>4 DEF Steps
<1>18. CASE UNCHANGED vars
  BY <1>18 DEF vars
<1>19. QED
  BY <1>1, <1>2, <1>3, <1>4, <1>5, <1>6, <1>7, <1>8, <1>9, <1>10, <1>11, <1>12,
     <1>13, <1>14, <1>15, <1>16, <1>17, <1>18 DEF Next, MainNext, HandlerNext, Ended

(* Indices stay inside the buffer and bytes are bytes, whatever is typed.   *)
THEOREM TypeCorrect == Spec => []TypeOK
<1>1. TypeOK /\ Counting /\ [Next]_vars => TypeOK' /\ Counting'
  BY TypeNext
<1>2. QED
  BY <1>1, TypeInit, PTL DEF Spec

-----------------------------------------------------------------------------
(* The console.                                                             *)

(* What of the console is already back, or not yet touched: nothing before  *)
(* it is saved, the mode once clean_up has restored it, the settings once   *)
(* it has restored those and no handler came after the close.               *)
Untouched == pc \in {"get_mode", "tcgetattr"} /\ frames = << >> /\ ended = "no" =>
               kbmode = "found" /\ term = "found"
Kept      == /\ pc = "tcgetattr" => oldkbmode = "found"
             /\ old = "found" => oldkbmode = "found"
             /\ pc \notin {"get_mode", "tcgetattr"} => old = "found"
ModeBack  == old = "found" =>
               /\ frames # << >> /\ frames[1][2] \in {"term", "close", "exit"} => kbmode = "found"
               /\ pc \in {"restore_term", "close", "return"} => kbmode = "found"
               /\ ~fdOpen => kbmode = "found"
TermBack  == old = "found" /\ ~late =>
               /\ frames # << >> /\ frames[1][2] \in {"close", "exit"} => term = "found"
               /\ frames = << >> /\ pc \in {"close", "return"} => term = "found"
Closed    == /\ frames = << >> => ~late /\ (fdOpen \/ pc = "return")
             /\ frames # << >> /\ ~fdOpen /\ ~late => frames[1][2] = "exit"
AllBack   == ended # "no" /\ old = "found" => kbmode = "found" /\ (term = "found" \/ late)
ConsoleInv == allowed => /\ Untouched /\ Kept /\ ModeBack
                         /\ TermBack /\ Closed /\ AllBack

LEMMA ConsoleNext ==
  ASSUME TypeOK, ConsoleInv, [Next]_vars
  PROVE  ConsoleInv'
<1> DEFINE Inv == Untouched /\ Kept /\ ModeBack /\ TermBack /\ Closed /\ AllBack
<1> SUFFICES ASSUME allowed' PROVE Inv'
  BY DEF ConsoleInv
<1>0. allowed' = allowed
  BY DEF Next, MainNext, HandlerNext, GetMode, TcGetAttr, TcSetAttr, SetRaw, InitScr, SetAlarm, Read,
     CountKey, Verdict, MainEndsWin, MainRestoresMode, MainRestoresTerm, MainCloses, Return,
     HandlerEndsWin, HandlerRestoresMode, HandlerRestoresTerm, HandlerCloses, HandlerExits,
     Alarm, Type, Ended, Signal, Interrupt, vars, rest
<1>a. allowed /\ Inv
  BY <1>0 DEF ConsoleInv
<1> USE <1>a DEF Untouched, Kept, ModeBack, TermBack, Closed, AllBack, Main, At, modes, saved,
    input, reading, count, rest
<1>1. CASE GetMode
  BY <1>1 DEF GetMode
<1>2. CASE TcGetAttr
  BY <1>2 DEF TcGetAttr
<1>3. CASE TcSetAttr
  BY <1>3 DEF TcSetAttr
<1>4. CASE SetRaw \/ InitScr
  <2>1. CASE SetRaw
    BY <2>1 DEF SetRaw
  <2>2. CASE InitScr
    BY <2>2 DEF InitScr
  <2>3. QED
    BY <1>4, <2>1, <2>2
<1>5. CASE SetAlarm
  BY <1>5 DEF SetAlarm
<1>6. CASE Read
  BY <1>6 DEF Read
<1>7. CASE CountKey
  BY <1>7 DEF CountKey
<1>8. CASE Verdict \/ MainEndsWin
  BY <1>8 DEF Verdict, MainEndsWin, EndWin
<1>9. CASE MainRestoresMode
  BY <1>9 DEF MainRestoresMode, RestoreMode
<1>10. CASE MainRestoresTerm \/ MainCloses
  BY <1>10 DEF MainRestoresTerm, RestoreTerm, MainCloses
<1>11. CASE Return
  BY <1>11 DEF Return
<1>12. CASE HandlerEndsWin
  <2>1. frames # << >> /\ frames[1][2] = "endwin" /\ ended = "no" /\ GoesTo("mode")
    BY <1>12 DEF HandlerEndsWin, HandlerAt
  <2>2. frames' # << >> /\ frames'[1][2] = "mode" /\ pc' = pc
    BY <2>1, FrameStepped DEF Steps
  <2>3. UNCHANGED <<ended, kbmode, fdOpen, old, oldkbmode, late>>
    BY <1>12 DEF HandlerEndsWin
  <2>4. QED
    BY <2>1, <2>2, <2>3
<1>13. CASE HandlerRestoresMode
  <2>1. frames # << >> /\ frames[1][2] = "mode" /\ ended = "no"
    BY <1>13 DEF HandlerRestoresMode, HandlerAt
  <2>2. UNCHANGED <<term, fdOpen, old, oldkbmode, late>>
    BY <1>13 DEF HandlerRestoresMode
  <2>3. CASE fdOpen
    <3>1. GoesTo("term") /\ kbmode' = oldkbmode /\ ended' = ended
      BY <1>13, <2>3 DEF HandlerRestoresMode, RestoreMode
    <3>2. frames' # << >> /\ frames'[1][2] = "term" /\ pc' = pc
      BY <2>1, <3>1, FrameStepped DEF Steps
    <3>3. QED
      BY <2>1, <2>2, <2>3, <3>1, <3>2
  <2>4. CASE ~fdOpen
    <3>1. ended' = "fail" /\ UNCHANGED <<kbmode, pc, frames>>
      BY <1>13, <2>4 DEF HandlerRestoresMode, RestoreMode
    <3>2. QED
      BY <2>1, <2>2, <2>4, <3>1
  <2>5. QED
    BY <2>3, <2>4
<1>14. CASE HandlerRestoresTerm
  <2>1. frames # << >> /\ frames[1][2] = "term" /\ ended = "no" /\ GoesTo("close")
    BY <1>14 DEF HandlerRestoresTerm, HandlerAt
  <2>2. frames' # << >> /\ frames'[1][2] = "close" /\ pc' = pc
    BY <2>1, FrameStepped DEF Steps
  <2>3. UNCHANGED <<ended, kbmode, fdOpen, old, oldkbmode, late>>
    BY <1>14 DEF HandlerRestoresTerm
  <2>4. term' = IF fdOpen THEN old ELSE term
    BY <1>14 DEF HandlerRestoresTerm, RestoreTerm
  <2>5. QED
    BY <2>1, <2>2, <2>3, <2>4
<1>15. CASE HandlerCloses
  <2>1. frames # << >> /\ frames[1][2] = "close" /\ ended = "no" /\ GoesTo("exit")
    BY <1>15 DEF HandlerCloses, HandlerAt
  <2>2. frames' # << >> /\ frames'[1][2] = "exit" /\ pc' = pc
    BY <2>1, FrameStepped DEF Steps
  <2>3. UNCHANGED <<ended, kbmode, term, old, oldkbmode, late>>
    BY <1>15 DEF HandlerCloses
  <2>4. QED
    BY <2>1, <2>2, <2>3
<1>16. CASE HandlerExits
  BY <1>16 DEF HandlerExits, HandlerAt
<1>17. ASSUME NEW handler \in Handlers, Interrupt(handler)
       PROVE  Inv'
  <2>1. frames' = <<<<handler, "endwin">>>> \o frames
    BY <1>17 DEF Interrupt
  <2>2. frames' # << >> /\ frames'[1] = <<handler, "endwin">>
    BY <2>1 DEF TypeOK
  <2>3. frames'[1][2] = "endwin"
    BY <2>2
  <2>4. /\ ended = "no" /\ late' = (late \/ ~fdOpen)
        /\ UNCHANGED <<pc, ended, kbmode, term, old, oldkbmode, fdOpen>>
    BY <1>17 DEF Interrupt
  <2>5. ModeBack' /\ Kept' /\ Untouched'
    BY <2>2, <2>3, <2>4
  <2>6. TermBack' /\ Closed' /\ AllBack'
    BY <2>2, <2>3, <2>4
  <2>7. QED
    BY <2>5, <2>6
<1>18. CASE Alarm
  BY <1>18, <1>17 DEF Alarm, Handlers
<1>19. ASSUME NEW handler \in {"SIGTERM", "SIGINT"}, Signal(handler)
       PROVE  Inv'
  BY <1>19, <1>17 DEF Signal, Handlers
<1>20. CASE Type
  BY <1>20 DEF Type
<1>21. CASE UNCHANGED vars
  BY <1>21 DEF vars
<1>22. QED
  BY <1>1, <1>2, <1>3, <1>4, <1>5, <1>6, <1>7, <1>8, <1>9, <1>10, <1>11, <1>12, <1>13, <1>14,
     <1>15, <1>16, <1>18, <1>19, <1>20, <1>21 DEF Next, MainNext, HandlerNext, Ended

(* Whoever ends the program, and whatever interrupts it meanwhile, a        *)
(* console whose mode and settings were saved gets both back, but for the   *)
(* settings if a handler came in after the close.                           *)
THEOREM ConsoleCorrect == Spec => []ConsoleRestored
<1>1. Init => ConsoleInv
  BY DEF Init, ConsoleInv, Untouched, Kept, ModeBack, TermBack, Closed, AllBack
<1>2. ConsoleInv => ConsoleRestored
  BY DEF ConsoleInv, AllBack, ConsoleRestored
<1>3. TypeOK /\ ConsoleInv /\ [Next]_vars => ConsoleInv'
  BY ConsoleNext
<1>4. QED
  BY <1>1, <1>2, <1>3, TypeCorrect, PTL DEF Spec

-----------------------------------------------------------------------------
(* The count.                                                               *)

(* key_count is the number of entries ticked off, and main goes on to       *)
(* clean_up only with enough of them.                                       *)
Counted == /\ IsFiniteSet(ticked) /\ key_count = Cardinality(ticked)
           /\ pc \in {"endwin", "restore_mode", "restore_term", "close", "return"} => key_count >= KEYNUMS
           /\ ended = "pass" => pc = "return"

LEMMA TickCounts ==
  ASSUME Counted, CountKey
  PROVE  Counted'
<1>1. CASE EntryOf(k) \in Entries \ ticked
  <2>1. ticked' = ticked \cup {EntryOf(k)} /\ key_count' = key_count + 1
    BY <1>1 DEF CountKey, Tick
  <2>2. IsFiniteSet(ticked') /\ Cardinality(ticked') = Cardinality(ticked) + 1
    BY <1>1, <2>1, FS_AddElement DEF Counted
  <2>3. QED
    BY <2>1, <2>2 DEF Counted, CountKey, At
<1>2. CASE EntryOf(k) \notin Entries \ ticked
  <2>1. UNCHANGED count
    BY <1>2 DEF CountKey, Tick
  <2>2. QED
    BY <2>1 DEF Counted, CountKey, At, count
<1>3. QED
  BY <1>1, <1>2

LEMMA CountedNext ==
  ASSUME Counted, [Next]_vars
  PROVE  Counted'
<1> USE DEF Main, At, count, rest
<1>1. CASE CountKey
  BY <1>1, TickCounts
<1>2. CASE Verdict
  BY <1>2 DEF Verdict, Counted
<1>3. CASE MainEndsWin \/ MainRestoresMode
  BY <1>3 DEF MainEndsWin, MainRestoresMode, RestoreMode, Counted
<1>4. CASE MainRestoresTerm \/ MainCloses \/ Return
  BY <1>4 DEF MainRestoresTerm, MainCloses, Return, Counted
<1>5. CASE GetMode \/ TcGetAttr \/ TcSetAttr \/ SetRaw \/ InitScr \/ SetAlarm \/ Read
  BY <1>5 DEF GetMode, TcGetAttr, TcSetAttr, SetRaw, InitScr, SetAlarm, Read, Counted
<1>6. CASE HandlerNext
  BY <1>6 DEF HandlerNext, HandlerEndsWin, HandlerRestoresMode, HandlerRestoresTerm, HandlerCloses,
         HandlerExits, HandlerAt, GoesTo, RestoreMode, Counted
<1>7. CASE Alarm \/ Type \/ (\E handler \in {"SIGTERM", "SIGINT"} : Signal(handler))
  BY <1>7 DEF Alarm, Type, Signal, Interrupt, Counted
<1>8. CASE UNCHANGED vars
  BY <1>8 DEF vars, Counted
<1>9. QED
  BY <1>1, <1>2, <1>3, <1>4, <1>5, <1>6, <1>7, <1>8 DEF Next, MainNext, Ended

(* As many entries as a table has can be ticked off in it.                  *)
LEMMA TableSize ==
  ASSUME NEW table, NEW B \in SUBSET (1 .. 127)
  PROVE  /\ IsFiniteSet({<<table, b>> : b \in B})
         /\ Cardinality({<<table, b>> : b \in B}) <= Cardinality(B)
         /\ Cardinality(B) \in Nat
<1>1. IsFiniteSet(B)
  <2>1. PICK bound \in Nat : \A b \in B : b <= bound
    <3>1. 127 \in Nat /\ \A b \in B : b <= 127
      OBVIOUS
    <3>2. QED
      BY <3>1
  <2>2. B \in SUBSET Nat
    OBVIOUS
  <2>3. QED
    BY <2>1, <2>2, FS_BoundedSetOfNaturals
<1>2. [b \in B |-> <<table, b>>] \in Surjection(B, {<<table, b>> : b \in B})
  BY DEF Surjection
<1>3. QED
  <2> DEFINE T == {<<table, b>> : b \in B}
             f == [b \in B |-> <<table, b>>]
  <2> HIDE DEF T, f
  <2>1. f \in Surjection(B, T)
    BY <1>2 DEF T, f
  <2>2. IsFiniteSet(T) /\ Cardinality(T) <= Cardinality(B)
    BY <1>1, <2>1, FS_Surjection
  <2>3. Cardinality(B) \in Nat
    BY <1>1, FS_CardinalityType
  <2>4. QED
    BY <2>2, <2>3 DEF T

LEMMA TablesTooSmall ==
  ASSUME ticked \subseteq Entries, \A b \in Beyond : <<"e0_keys", b>> \notin ticked
  PROVE  Cardinality(ticked) < KEYNUMS
<1> DEFINE P == {<<"keys", b>> : b \in Plain}
           E == {<<"e0_keys", b>> : b \in Extended}
<1>1. ticked \in SUBSET (P \cup E)
  BY DEF Entries
<1>2. /\ IsFiniteSet(P) /\ Cardinality(P) <= Cardinality(Plain) /\ Cardinality(Plain) \in Nat
      /\ IsFiniteSet(E) /\ Cardinality(E) <= Cardinality(Extended) /\ Cardinality(Extended) \in Nat
  <2>1. Plain \subseteq 1 .. 127 /\ Extended \subseteq 1 .. 127
    BY KeyboardAssumption
  <2>2. IsFiniteSet(P) /\ Cardinality(P) <= Cardinality(Plain) /\ Cardinality(Plain) \in Nat
    BY <2>1, TableSize
  <2>3. IsFiniteSet(E) /\ Cardinality(E) <= Cardinality(Extended) /\ Cardinality(Extended) \in Nat
    BY <2>1, TableSize
  <2>4. QED
    BY <2>2, <2>3
<1> HIDE DEF P, E
<1>3. /\ IsFiniteSet(P \cup E)
      /\ Cardinality(P \cup E) = Cardinality(P) + Cardinality(E) - Cardinality(P \cap E)
  BY <1>2, FS_Union
<1>4. IsFiniteSet(P \cap E) /\ Cardinality(P \cap E) \in Nat
  BY <1>2, FS_Subset, FS_CardinalityType
<1>5. Cardinality(P) \in Nat /\ Cardinality(E) \in Nat
  BY <1>2, FS_CardinalityType
<1>6. Cardinality(P \cup E) <= Cardinality(Plain) + Cardinality(Extended)
  BY <1>2, <1>3, <1>4, <1>5
<1>7. Cardinality(ticked) <= Cardinality(P \cup E) /\ Cardinality(ticked) \in Nat /\ Cardinality(P \cup E) \in Nat
  BY <1>1, <1>3, FS_Subset, FS_CardinalityType
<1>8. QED
  BY <1>2, <1>6, <1>7, TablesAssumption, KeyboardAssumption

(* A PASS needs a byte looked up beyond the end of e0_keys[]: the entries   *)
(* of the tables are one too few, in whatever order keys are pressed.       *)
THEOREM PassCorrect == Spec => []PassFromBeyond
<1>1. Init => Counted
  BY KeyboardAssumption, FS_EmptySet DEF Init, Counted
<1>2. TypeOK /\ Counted => PassFromBeyond
  <2> SUFFICES ASSUME TypeOK, Counted, ended = "pass", \A b \in Beyond : <<"e0_keys", b>> \notin ticked
               PROVE  FALSE
    BY DEF PassFromBeyond
  <2>1. ticked \subseteq Entries /\ key_count \in Nat
    BY DEF TypeOK
  <2>2. key_count >= KEYNUMS /\ key_count = Cardinality(ticked)
    BY DEF Counted
  <2>3. Cardinality(ticked) < KEYNUMS
    BY <2>1, TablesTooSmall
  <2>4. QED
    BY <2>1, <2>2, <2>3, KeyboardAssumption
<1>3. Counted /\ [Next]_vars => Counted'
  BY CountedNext
<1>4. QED
  BY <1>1, <1>2, <1>3, TypeCorrect, PTL DEF Spec

-----------------------------------------------------------------------------
(* The safety part of the program's end.                                    *)

(* While main reads and counts the alarm is to come, unless it has come.    *)
Watched ==
  ended = "no" /\ pc \in {"read", "count", "verdict"} => alarmSet \/ frames # << >>

LEMMA WatchedNext == TypeOK /\ Watched /\ [Next]_vars => Watched'
<1> SUFFICES ASSUME TypeOK, Watched, [Next]_vars PROVE Watched'
  OBVIOUS
<1> USE DEF Watched
<1>1. CASE Alarm \/ \E handler \in {"SIGTERM", "SIGINT"} : Signal(handler)
  <2>1. PICK handler \in Handlers : frames' = <<<<handler, "endwin">>>> \o frames
    BY <1>1 DEF Alarm, Signal, Interrupt, Handlers
  <2>2. frames' # << >>
    BY <2>1 DEF TypeOK
  <2>3. QED
    BY <2>2
<1>2. CASE HandlerNext
  <2>1. frames # << >>
    BY <1>2 DEF HandlerNext, HandlerEndsWin, HandlerRestoresMode, HandlerRestoresTerm, HandlerCloses,
           HandlerExits, HandlerAt
  <2>2. CASE \E step \in Steps : GoesTo(step)
    BY <2>1, <2>2, FrameStepped
  <2>3. CASE ended' = "fail"
    BY <2>3
  <2>4. QED
    BY <1>2, <2>2, <2>3
    DEF HandlerNext, HandlerEndsWin, HandlerRestoresMode, RestoreMode, HandlerRestoresTerm,
        HandlerCloses, HandlerExits, Steps
<1>3. CASE MainNext
  <2>1. CASE GetMode \/ TcGetAttr \/ TcSetAttr \/ SetRaw \/ InitScr
    BY <2>1 DEF GetMode, TcGetAttr, TcSetAttr, SetRaw, InitScr, Main
  <2>2. CASE SetAlarm
    BY <2>2 DEF SetAlarm
  <2>3. CASE Read \/ CountKey
    BY <2>3 DEF Read, CountKey, Main, At
  <2>4. CASE Verdict
    BY <2>4 DEF Verdict, Main
  <2>5. CASE MainEndsWin \/ MainRestoresMode
    BY <2>5 DEF MainEndsWin, MainRestoresMode, RestoreMode, Main, At
  <2>6. CASE MainRestoresTerm \/ MainCloses \/ Return
    BY <2>6 DEF MainRestoresTerm, MainCloses, Return, Main
  <2>7. QED
    BY <1>3, <2>1, <2>2, <2>3, <2>4, <2>5, <2>6 DEF MainNext
<1>4. CASE Type \/ Ended \/ UNCHANGED vars
  BY <1>4 DEF Type, Ended, vars
<1>5. QED
  BY <1>1, <1>2, <1>3, <1>4 DEF Next

(* The test waits for a key only with the watchdog set, however often it    *)
(* goes back to read and whatever was pressed (lines 277 to 292): what is   *)
(* left to ProgramEnds is that the alarm comes and that handlers run.       *)
THEOREM ReadIsWatched == Spec => [](At("read") => alarmSet)
<1>1. Init => Watched
  BY DEF Init, Watched
<1>2. Watched => (At("read") => alarmSet)
  BY DEF Watched, At
<1>3. QED
  BY <1>1, <1>2, WatchedNext, TypeCorrect, PTL DEF Spec

=============================================================================
