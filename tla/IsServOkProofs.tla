--------------------------- MODULE IsServOkProofs ---------------------------
(***************************************************************************)
(* Proofs about IsServOk for any times, units and widths: the counters     *)
(* stay unsigned numbers, and the LED lit for a time is put out once.      *)
(***************************************************************************)
EXTENDS IsServOk, TLAPS

(* The one signal of a continuous light is still to come, waits, or has    *)
(* been: it is counted once.                                               *)
FiresOnce ==
  /\ pc = "start" => time = 0 /\ count = 0 /\ timer = "none" /\ ~pending
  /\ option = "0" => timer # "periodic" /\ ~(timer = "once" /\ pending)
  /\ option = "0" /\ (timer = "once" \/ pending) => count = 0

(* A signal waits only where there is room for its handler to run.         *)
RoomForHandler == pending => lag < MaxLag

IInv == TypeOK /\ FiresOnce /\ RoomForHandler

-----------------------------------------------------------------------------
LEMMA QuotientBound ==
  ASSUME NEW n \in Nat, NEW d \in Nat \ {0}
  PROVE  n \div d \in 0..n
<1> DEFINE q == n \div d
<1>1. q \in Int /\ q * d <= n /\ n < (q + 1) * d
  OBVIOUS
<1>2. q >= 0
  <2> SUFFICES ASSUME q + 1 <= 0 PROVE FALSE
    BY <1>1
  <2>1. (q + 1) * d <= 0
    BY <1>1
  <2> QED
    BY <1>1, <2>1
<1>3. q <= q * d
  BY <1>1, <1>2
<1> QED
  BY <1>1, <1>2, <1>3

LEMMA BlinksNumber ==
  ASSUME NEW t \in Times
  PROVE  Blinks(t) \in 0..(Word - 1)
<1> DEFINE n == (Unit * t) % Word
<1>1. Word \in Nat \ {0} /\ t \in Nat
  BY IsServOkAssumption
<1>2. Unit * t \in Nat
  BY <1>1, IsServOkAssumption
<1>3. n \in 0..(Word - 1)
  BY <1>1, <1>2
<1>4. n \in Nat
  BY <1>1, <1>3
<1>5. n \div Interval \in 0..n
  BY <1>4, QuotientBound, IsServOkAssumption
<1> QED
  BY <1>1, <1>3, <1>5 DEF Blinks

LEMMA InitHolds == Init => IInv
<1> SUFFICES ASSUME Init PROVE IInv
  OBVIOUS
<1>1. pending = FALSE /\ pending \in BOOLEAN
  BY DEF Init
<1>2. time \in 0..(Word - 1) /\ count \in 0..(Word - 1) /\ lag \in 0..MaxLag
  BY IsServOkAssumption DEF Init
<1>3. TypeOK
  BY <1>1, <1>2, Zenon DEF Init, TypeOK
<1>4. FiresOnce /\ RoomForHandler
  BY <1>1 DEF Init, FiresOnce, RoomForHandler
<1> QED
  BY <1>3, <1>4 DEF IInv

(* The handler takes the pending signal and wakes main.                    *)
LEMMA Handled ==
  ASSUME IInv, Interrupt
  PROVE  /\ pending' = FALSE /\ pending' \in BOOLEAN
         /\ pc' \in {"test", "pausing", "pause"}
         /\ lag' \in 0..MaxLag
<1>1. pending' = FALSE /\ pending' \in BOOLEAN
  BY DEF Interrupt
<1>2. pc' \in {"test", "pausing", "pause"}
  BY DEF Interrupt, Running
<1>3. lag' \in 0..MaxLag
  <2>1. lag \in 0..MaxLag /\ lag < MaxLag
    BY DEF Interrupt, IInv, TypeOK, RoomForHandler
  <2> QED
    BY <2>1, IsServOkAssumption DEF Interrupt
<1> QED
  BY <1>1, <1>2, <1>3

LEMMA StepHolds == IInv /\ [Next]_vars => IInv'
<1> SUFFICES ASSUME IInv, [Next]_vars PROVE IInv'
  OBVIOUS
<1> USE IsServOkAssumption DEF IInv, TypeOK, FiresOnce, RoomForHandler
<1>1. CASE OpenFails
  BY <1>1 DEF OpenFails
<1>2. CASE Continuous
  BY <1>2 DEF Continuous, Negative
<1>3. CASE Blinking
  <2>1. Blinks(arg) \in 0..(Word - 1)
    BY BlinksNumber
  <2> QED
    BY <1>3, <2>1 DEF Blinking
<1>4. CASE Neither
  BY <1>4 DEF Neither
<1>5. CASE Test
  BY <1>5 DEF Test
<1>6. CASE Pause
  BY <1>6 DEF Pause
<1>7. CASE Expire
  BY <1>7 DEF Expire, Running
<1>8. CASE light_led_continuously
  <2>1. Interrupt /\ option = "0"
    BY <1>8 DEF light_led_continuously
  <2>2. time' = time /\ timer' = timer /\ count' = (count + time) % Word /\ led' = "off"
    BY <1>8 DEF light_led_continuously
  <2>3. UNCHANGED <<option, arg>>
    BY <1>8 DEF light_led_continuously
  <2>4. count = 0 /\ timer \notin {"once", "periodic"} /\ pc # "start"
    BY <2>1 DEF Interrupt, Running
  <2>5. count' = time
    BY <2>2, <2>4
  <2> QED
    BY <2>1, <2>2, <2>3, <2>4, <2>5, Handled
<1>9. CASE light_led_blinking
  <2>1. Interrupt /\ option = "1"
    BY <1>9 DEF light_led_blinking
  <2>2. time' = time /\ timer' = timer
    BY <1>9 DEF light_led_blinking
  <2>3. UNCHANGED <<option, arg>>
    BY <1>9 DEF light_led_blinking
  <2>4. (count + 1) % Word \in 0..(Word - 1)
    OBVIOUS
  <2>5. led' \in {"on", "off"} /\ count' \in 0..(Word - 1)
    BY <1>9, <2>4 DEF light_led_blinking
  <2> QED
    BY <2>1, <2>2, <2>3, <2>5, Handled
<1>10. CASE Ended \/ UNCHANGED vars
  BY <1>10 DEF Ended, vars
<1> QED
  BY <1>1, <1>2, <1>3, <1>4, <1>5, <1>6, <1>7, <1>8, <1>9, <1>10
  DEF Next, Setup, Handler

-----------------------------------------------------------------------------
(* Time and count stay unsigned numbers, and a light lit for a time is     *)
(* counted once, however late its signal comes, for any unit and width.    *)
THEOREM TypeCorrect == Spec => []TypeOK
<1>1. IInv => TypeOK
  BY DEF IInv
<1> QED
  BY InitHolds, StepHolds, <1>1, PTL DEF Spec

-----------------------------------------------------------------------------
(* The safety part of the light's going off.  Main cannot end before the    *)
(* signal is counted, since the time it waits for is not 0.                 *)

TimeSet ==
  option = "0" => /\ pc = "start" => led = "dark"
                  /\ Running => time = arg
                  /\ led # "off" => count = 0

LInv == IInv /\ TimeSet /\ NotLeftOn

LEMMA LightInit == Init => LInv
<1>1. Init => TimeSet /\ NotLeftOn
  BY DEF Init, TimeSet, NotLeftOn, Running
<1> QED
  BY <1>1, InitHolds DEF LInv

LEMMA LightStep == LInv /\ [Next]_vars => LInv'
<1> SUFFICES ASSUME LInv, [Next]_vars PROVE TimeSet' /\ NotLeftOn'
  BY StepHolds DEF LInv
<1>1. IInv /\ TimeSet /\ NotLeftOn
  BY DEF LInv
<1> USE DEF TimeSet, NotLeftOn, Running
<1>2. CASE Setup
  <2>1. CASE Continuous
    <3>1. /\ option = "0" /\ pc' = "test" /\ time' = arg /\ UNCHANGED <<option, arg>>
          /\ timer' = IF Negative(arg) THEN "none" ELSE "once"
          /\ count' = 0
      BY <1>1, <2>1 DEF Continuous
    <3>2. Negative(arg)' = Negative(arg)
      BY <3>1 DEF Negative
    <3> QED
      BY <3>1, <3>2
  <2>2. CASE OpenFails
    <3>1. option = "0" => led' # "on"
      BY <1>1, <2>2 DEF OpenFails
    <3>2. led' = led /\ count' = count /\ option' = option /\ pc' = "failed"
      BY <2>2 DEF OpenFails
    <3> QED
      BY <1>1, <3>1, <3>2
  <2>3. CASE Blinking \/ Neither
    <3>1. option # "0" /\ option' = option
      BY <2>3 DEF Blinking, Neither
    <3> QED
      BY <3>1
  <2> QED
    BY <1>2, <2>1, <2>2, <2>3 DEF Setup
<1>3. CASE Test
  <2>1. /\ pc = "test" /\ pc' = (IF count < time THEN "pausing" ELSE "done")
        /\ UNCHANGED <<option, arg, led, time, count, timer, pending>>
    BY <1>3 DEF Test
  <2>2. option = "0" /\ led = "on" => count < time
    <3>1. arg \in Nat /\ arg > 0
      BY <1>1, IsServOkAssumption DEF IInv, TypeOK
    <3>2. option = "0" /\ led = "on" => count = 0 /\ time = arg
      BY <1>1, <2>1
    <3> QED
      BY <3>1, <3>2
  <2> QED
    BY <1>1, <2>1, <2>2
<1>4. CASE Pause
  BY <1>1, <1>4 DEF Pause
<1>5. CASE Expire
  <2>1. pending' = TRUE /\ Running /\ UNCHANGED <<option, arg, pc, led, time, count>>
    BY <1>5 DEF Expire
  <2> QED
    BY <1>1, <2>1
<1>6. CASE Handler
  <2>1. Interrupt /\ UNCHANGED <<option, arg, time>> /\ (option = "0" => led' = "off")
    BY <1>6 DEF Handler, light_led_continuously, light_led_blinking
  <2>2. Running /\ pc' \in {"test", "pausing", "pause"}
    BY <2>1 DEF Interrupt
  <2> QED
    BY <1>1, <2>1, <2>2
<1>7. CASE Ended \/ UNCHANGED vars
  BY <1>1, <1>7 DEF Ended, vars
<1> QED
  BY <1>2, <1>3, <1>4, <1>5, <1>6, <1>7 DEF Next

(* As long as the LED is lit for a time, main is there and its signal is to *)
(* come or waits, for any width and any time setitimer takes: a signal that *)
(* comes between the test of count and pause (lines 99 and 100) leaves the  *)
(* program waiting, but not the LED on.                                     *)
THEOREM LightNotLeftOn == Spec => []NotLeftOn
<1>1. LInv => NotLeftOn
  BY DEF LInv
<1> QED
  BY LightInit, LightStep, <1>1, PTL DEF Spec
=============================================================================
