------------------------------ MODULE IsServOk ------------------------------
(***************************************************************************)
(* nas-tool/is-serv-ok.c: light the LED for a time (option 0), or blink it *)
(* (option 1).  The main loop tests count and pauses; the LED and count    *)
(* are moved by the handler of SIGALRM, between any two steps of main.     *)
(*                                                                         *)
(* Arithmetic is unsigned, modulo Word: a time from half of Word on is a   *)
(* negative argument, which arg_filter lets through.                       *)
(***************************************************************************)
EXTENDS Integers

CONSTANTS
  Options,    \* the option arguments given: "0", "1", "00" for other spellings
  Times,      \* the time arguments given, converted to unsigned
  Unit,       \* 500000, in the program
  Interval,   \* 200000, in the program
  Word,       \* 2^32, in the program
  MaxLag      \* bound of the model: timer signals between two steps of main

ASSUME IsServOkAssumption ==
  /\ Options \subseteq {"0", "1", "00"}
  /\ Word \in Nat /\ Times \subseteq 1..(Word - 1)
  /\ Unit \in Nat \ {0} /\ Interval \in Nat \ {0}
  /\ MaxLag \in Nat

VARIABLES
  option, arg,   \* the arguments
  pc,            \* main: "start", then "test" count, call ("pausing") or be
                 \* in "pause", until it is "done" or has "failed"
  led,           \* "dark", "on" or "off" (dark: not touched yet)
  time, count,
  timer,         \* "none", "once" or "periodic"
  pending,       \* SIGALRM is pending
  lag            \* handler runs since the last step of main

vars == <<option, arg, pc, led, time, count, timer, pending, lag>>

Init ==
  /\ option \in Options /\ arg \in Times
  /\ pc = "start"
  /\ led = "dark"
  /\ time = 0 /\ count = 0
  /\ timer = "none" /\ pending = FALSE
  /\ lag = 0

(* arg_filter has passed these arguments; open may fail. *)
OpenFails ==
  /\ pc = "start"
  /\ pc' = "failed"
  /\ UNCHANGED <<option, arg, led, time, count, timer, pending, lag>>

(* Mutant: the interval of the timer is set too. *)
ContinuousPeriodic ==
  /\ pc = "start" /\ option = "0"
  /\ led' = "on"
  /\ time' = arg
  /\ timer' = "periodic"
  /\ pc' = "test"
  /\ UNCHANGED <<option, arg, count, pending, lag>>

Negative(t) == t >= Word \div 2

(* The argument of setitimer is the time: the timer fires once.  A         *)
(* negative one is refused; the program says so and goes on.               *)
Continuous ==
  /\ pc = "start" /\ option = "0"
  /\ led' = "on"
  /\ time' = arg
  /\ timer' = IF Negative(arg) THEN "none" ELSE "once"
  /\ pc' = "test"
  /\ UNCHANGED <<option, arg, count, pending, lag>>

(* set_timer1: the time in blinks. *)
Blinks(t) == ((Unit * t) % Word) \div Interval

Blinking ==
  /\ pc = "start" /\ option = "1"
  /\ led' = "on"
  /\ time' = Blinks(arg)
  /\ timer' = "periodic"
  /\ pc' = "test"
  /\ UNCHANGED <<option, arg, count, pending, lag>>

(* An option such as "00" passes the filter and matches neither strcmp.    *)
Neither ==
  /\ pc = "start" /\ option \notin {"0", "1"}
  /\ time' = arg
  /\ pc' = "test"
  /\ UNCHANGED <<option, arg, led, count, timer, pending, lag>>

(* Mutant: the loop ends one short. *)
TestShort ==
  /\ pc = "test"
  /\ pc' = IF count + 1 < time THEN "pausing" ELSE "done"
  /\ lag' = 0
  /\ UNCHANGED <<option, arg, led, time, count, timer, pending>>

Test ==
  /\ pc = "test"
  /\ pc' = IF count < time THEN "pausing" ELSE "done"
  /\ lag' = 0
  /\ UNCHANGED <<option, arg, led, time, count, timer, pending>>

(* The call of pause: what was delivered since the test does not end it. *)
Pause ==
  /\ pc = "pausing"
  /\ pc' = "pause"
  /\ lag' = 0
  /\ UNCHANGED <<option, arg, led, time, count, timer, pending>>

Running == pc \in {"test", "pausing", "pause"}

(* The interval timer; a second SIGALRM adds nothing to a pending one. *)
Expire ==
  /\ Running
  /\ timer # "none" /\ lag < MaxLag
  /\ timer' = IF timer = "once" THEN "none" ELSE timer
  /\ pending' = TRUE
  /\ UNCHANGED <<option, arg, pc, led, time, count, lag>>

(* A signal handler runs, and ends the pause in which it found main. *)
Interrupt ==
  /\ Running /\ pending
  /\ pending' = FALSE
  /\ pc' = IF pc = "pause" THEN "test" ELSE pc
  /\ lag' = IF pc = "pause" THEN 0 ELSE lag + 1

(* Mutant: the LED is not put out, the signal only counted. *)
LightContinuouslyCounts ==
  /\ option = "0"
  /\ Interrupt
  /\ count' = count + time
  /\ UNCHANGED <<option, arg, time, timer, led>>

light_led_continuously ==
  /\ option = "0"
  /\ Interrupt
  /\ led' = "off"
  /\ count' = (count + time) % Word
  /\ UNCHANGED <<option, arg, time, timer>>

(* Mutant: the LED is not lit again. *)
LightBlinkingOnce ==
  /\ option = "1"
  /\ Interrupt
  /\ \/ led = "on" /\ led' = "off" /\ count' = (count + 1) % Word
     \/ led # "on" /\ UNCHANGED <<led, count>>
  /\ UNCHANGED <<option, arg, time, timer>>

light_led_blinking ==
  /\ option = "1"
  /\ Interrupt
  /\ \/ led = "on" /\ led' = "off" /\ count' = (count + 1) % Word
     \/ led # "on" /\ led' = "on" /\ count' = count
  /\ UNCHANGED <<option, arg, time, timer>>

Handler == light_led_continuously \/ light_led_blinking

Setup == OpenFails \/ Continuous \/ Blinking \/ Neither

Ended == pc \in {"done", "failed"} /\ UNCHANGED vars

Next == Setup \/ Test \/ Pause \/ Expire \/ Handler \/ Ended

(* Main runs, time goes on, and a pending signal is delivered. *)
Spec ==
  /\ Init /\ [][Next]_vars
  /\ WF_vars(Setup) /\ WF_vars(Test \/ Pause) /\ WF_vars(Expire) /\ WF_vars(Handler)

-----------------------------------------------------------------------------
TypeOK ==
  /\ option \in Options /\ arg \in Times
  /\ pc \in {"start", "test", "pausing", "pause", "done", "failed"}
  /\ led \in {"dark", "on", "off"}
  /\ time \in 0..(Word - 1) /\ count \in 0..(Word - 1)
  /\ option = "0" => count \in {0, time}
  /\ timer \in {"none", "once", "periodic"}
  /\ pending \in BOOLEAN
  /\ lag \in 0..MaxLag

(* As long as the LED is lit for a time its one signal is still to come or *)
(* waits, and the program has not ended without it: main may sleep through *)
(* the signal, but never leaves the LED on (lines 87 to 101, 221 to 227),  *)
(* unless setitimer has refused a negative time (lines 164 to 168).        *)
NotLeftOn ==
  option = "0" /\ led = "on" =>
    Running /\ (timer = "once" \/ pending \/ Negative(arg))

(* The LED lit for a time goes off, whether main notices or not; for a     *)
(* negative time nothing puts it out.                                      *)
LightGoesOff ==
  (option = "0" /\ led = "on" /\ ~Negative(arg)) ~> (led = "off")

(* A program that blinks ends: a signal that comes between the test of     *)
(* count and pause is made good by the next one.                           *)
BlinkingEnds == option = "1" ~> pc \in {"done", "failed"}
=============================================================================
