------------------------------ MODULE Keyboard ------------------------------
(***************************************************************************)
(* keyboard/keyboard-test.c: the console is switched to raw scan codes and *)
(* every key pressed is ticked off in two tables, one for plain codes and  *)
(* one for codes behind the byte e0.  Beside the program there are the     *)
(* keyboard, whose bytes a read() cuts into pieces, the alarm clock and    *)
(* the signals; a handler may interrupt main and the other handlers.       *)
(*                                                                         *)
(* The model begins at get_mode (line 72) with the handlers installed; a   *)
(* signal before ends the program with nothing changed or as one at the    *)
(* beginning here does.  Of curses only what it does to the terminal is    *)
(* there: initscr and raw set it, endwin sets it to what initscr found.    *)
(***************************************************************************)
EXTENDS Integers, Sequences, FiniteSets

CONSTANTS Plain,      \* valid entries of keys[]
          Extended,   \* valid entries of e0_keys[]
          Beyond,     \* bytes beyond e0_keys[] that read as valid entries there
          KEYNUMS,    \* ticks for a PASS
          BufLen,     \* sizeof(buf)
          Keys,       \* the bytes keys send when pressed or released
          MaxTyped,   \* bound: presses and releases
          MaxSignals  \* bound: signals other than the alarm

Byte == 0 .. 255

ASSUME KeyboardAssumption ==
  /\ Plain \subseteq 1 .. 127 /\ Extended \subseteq 1 .. 127 /\ Beyond \subseteq 128 .. 255
  /\ KEYNUMS \in Nat \ {0} /\ BufLen \in Nat \ {0}
  /\ Keys \subseteq Seq(Byte) /\ << >> \notin Keys
  /\ MaxTyped \in Nat /\ MaxSignals \in Nat

\* 68 and 11 valid entries, and KEYNUMS is 80.
ASSUME TablesAssumption == Cardinality(Plain) + Cardinality(Extended) < KEYNUMS

VARIABLES
  pc,       \* main's next step
  frames,   \* the handlers that run, the innermost first: <<handler, step>>
  ended,    \* how the program ended: "no", "pass" or "fail"
  kbmode, term,        \* the console's keyboard mode and terminal settings
  oldkbmode, old,      \* what the program saved of them
  fdOpen, allowed,     \* the console may be closed, or refuse a new mode
  alarmSet, signals,   \* an alarm will come; signals that came
  line, typed,         \* bytes not yet read; presses and releases so far
  buf, n, k,           \* read's buffer and result, count_keys' index
  ticked, key_count,   \* entries with is_pressed, and their number
  late                 \* history: a handler was entered with the console closed

Handlers == {"SIGTERM", "SIGINT", "watch_dog"}

modes   == <<kbmode, term>>
saved   == <<oldkbmode, old>>
input   == <<line, typed>>
reading == <<buf, n, k>>
count   == <<ticked, key_count>>
vars    == <<pc, frames, ended, modes, saved, fdOpen, allowed, alarmSet, signals,
             input, reading, count, late>>

\* What the end of the program does not touch.
rest == <<saved, allowed, alarmSet, signals, input, reading, count, late>>

\* An entry is the table and the byte; a table is an entry of is_pressed each.
Entries == {<<"keys", b>> : b \in Plain} \cup {<<"e0_keys", b>> : b \in Extended \cup Beyond}

\* oldkbmode and old are globals: 0, which is K_RAW, and settings of zeros.
Init ==
  /\ pc = "get_mode" /\ frames = << >> /\ ended = "no"
  /\ kbmode = "found" /\ term = "found" /\ oldkbmode = "K_RAW" /\ old = "zeros"
  /\ fdOpen = TRUE /\ allowed \in BOOLEAN /\ alarmSet = FALSE /\ signals = 0
  /\ line = << >> /\ typed = 0
  /\ \E b \in {0, 69} : buf = [j \in 1 .. BufLen + 1 |-> b]   \* not initialised
  /\ n = 0 /\ k = 1
  /\ ticked = {} /\ key_count = 0
  /\ late = FALSE

-----------------------------------------------------------------------------
(* main                                                                     *)

At(step) == ended = "no" /\ frames = << >> /\ pc = step

Main(from, to) == At(from) /\ pc' = to

GetMode ==
  /\ Main("get_mode", "tcgetattr")
  /\ oldkbmode' = kbmode
  /\ UNCHANGED <<frames, ended, modes, old, fdOpen, allowed, alarmSet, signals, input, reading, count, late>>

TcGetAttr ==
  /\ Main("tcgetattr", "tcsetattr")
  /\ old' = term
  /\ UNCHANGED <<frames, ended, modes, oldkbmode, fdOpen, allowed, alarmSet, signals, input, reading, count, late>>

TcSetAttr ==
  /\ Main("tcsetattr", "K_RAW")
  /\ term' = "test"
  /\ UNCHANGED <<frames, ended, kbmode, saved, fdOpen, allowed, alarmSet, signals, input, reading, count, late>>

\* ioctl(KDSKBMODE, K_RAW): a console that refuses ends the program at once.
SetRaw ==
  /\ Main("K_RAW", "initscr")
  /\ IF allowed THEN kbmode' = "K_RAW" /\ UNCHANGED ended
     ELSE ended' = "fail" /\ UNCHANGED kbmode
  /\ UNCHANGED <<frames, term, saved, fdOpen, allowed, alarmSet, signals, input, reading, count, late>>

InitScr ==
  /\ Main("initscr", "alarm")
  /\ term' = "curses"
  /\ UNCHANGED <<frames, ended, kbmode, fdOpen, rest>>

SetAlarm ==
  /\ Main("alarm", "read")
  /\ alarmSet' = TRUE
  /\ UNCHANGED <<frames, ended, modes, saved, fdOpen, allowed, signals, input, reading, count, late>>

\* Mutant: a byte more than buf has.
ReadSizeMore == BufLen + 1

ReadSize == BufLen

\* VMIN and VTIME: read returns with a full buffer or after a gap.  The rest
\* of the buffer keeps its bytes.
Read ==
  /\ Main("read", "count")
  /\ line # << >>
  /\ n' = IF Len(line) < ReadSize THEN Len(line) ELSE ReadSize
  /\ buf' = [j \in DOMAIN buf |-> IF j <= n' THEN line[j] ELSE buf[j]]
  /\ k' = 1
  /\ line' = SubSeq(line, n' + 1, Len(line))
  /\ UNCHANGED <<frames, ended, modes, saved, fdOpen, allowed, alarmSet, signals, typed, count, late>>

\* The entry count_keys looks at for the byte at j, an index from 1.  An e0 at
\* the beginning of the buffer holds for all of it, and e0_keys[] has 128
\* entries for a byte.
EntryOf(j) ==
  IF buf[j] = 29 /\ buf[j + 1] = 69 THEN <<"e0_keys", 29>>
  ELSE IF buf[1] = 224 THEN <<"e0_keys", buf[j]>>
  ELSE <<"keys", buf[j]>>

\* Mutant: is_pressed is not set.
TickForgetful(entry) ==
  IF entry \in Entries \ ticked THEN ticked' = ticked /\ key_count' = key_count + 1
  ELSE UNCHANGED count

\* A valid entry is counted the first time.
Tick(entry) ==
  IF entry \in Entries \ ticked THEN ticked' = ticked \cup {entry} /\ key_count' = key_count + 1
  ELSE UNCHANGED count

\* count_keys: one byte.  It returns behind the last one, or once more than
\* KEYNUMS are counted.
CountKey ==
  /\ At("count")
  /\ Tick(EntryOf(k))
  /\ k' = k + 1
  /\ pc' = IF k = n \/ key_count' > KEYNUMS THEN "verdict" ELSE "count"
  /\ UNCHANGED <<frames, ended, modes, saved, fdOpen, allowed, alarmSet, signals, input, buf, n, late>>

\* main compares what count_keys returned.
Verdict ==
  /\ Main("verdict", IF key_count >= KEYNUMS THEN "endwin" ELSE "alarm")
  /\ UNCHANGED <<frames, ended, modes, saved, fdOpen, allowed, alarmSet, signals, input, reading, count, late>>

-----------------------------------------------------------------------------
(* endwin and clean_up, called by main at the end and by both handlers.     *)

\* Before initscr it does nothing.
EndWin ==
  term' = IF pc \in {"get_mode", "tcgetattr", "tcsetattr", "K_RAW", "initscr"} THEN term ELSE "test"

\* ioctl(KDSKBMODE, oldkbmode): exits when it fails.
RestoreMode(next) ==
  IF fdOpen /\ allowed THEN kbmode' = oldkbmode /\ next /\ UNCHANGED ended
  ELSE ended' = "fail" /\ UNCHANGED <<kbmode, pc, frames>>

\* tcsetattr(&old) only complains when it fails.
RestoreTerm == term' = IF fdOpen THEN old ELSE term

MainEndsWin ==
  /\ Main("endwin", "restore_mode")
  /\ EndWin
  /\ UNCHANGED <<frames, ended, kbmode, fdOpen, rest>>

\* Mutant: the console is closed before its terminal is restored.
MainClosesFirst ==
  /\ At("restore_mode")
  /\ RestoreMode(pc' = "restore_term" /\ UNCHANGED frames)
  /\ fdOpen' = FALSE
  /\ UNCHANGED <<term, rest>>

MainRestoresMode ==
  /\ At("restore_mode")
  /\ RestoreMode(pc' = "restore_term" /\ UNCHANGED frames)
  /\ UNCHANGED <<term, fdOpen, rest>>

MainRestoresTerm ==
  /\ Main("restore_term", "close")
  /\ RestoreTerm
  /\ UNCHANGED <<frames, ended, kbmode, fdOpen, rest>>

MainCloses ==
  /\ Main("close", "return")
  /\ fdOpen' = FALSE
  /\ UNCHANGED <<frames, ended, modes, rest>>

Return ==
  /\ Main("return", "return")
  /\ ended' = "pass"
  /\ UNCHANGED <<frames, modes, fdOpen, rest>>

\* A signal interrupts what runs; its own handler keeps it out.
Interrupt(handler) ==
  /\ ended = "no" /\ \A f \in DOMAIN frames : frames[f][1] # handler
  /\ frames' = <<<<handler, "endwin">>>> \o frames
  /\ late' = (late \/ ~fdOpen)
  /\ UNCHANGED <<pc, ended, modes, saved, fdOpen, allowed, input, reading, count>>

Signal(handler) ==
  /\ signals < MaxSignals
  /\ Interrupt(handler)
  /\ signals' = signals + 1 /\ UNCHANGED alarmSet

Alarm ==
  /\ alarmSet
  /\ Interrupt("watch_dog")
  /\ alarmSet' = FALSE /\ UNCHANGED signals

\* die and watch_dog.
HandlerAt(step) == ended = "no" /\ frames # << >> /\ frames[1][2] = step

GoesTo(step) == frames' = [frames EXCEPT ![1][2] = step] /\ UNCHANGED pc

HandlerEndsWin ==
  /\ HandlerAt("endwin") /\ GoesTo("mode")
  /\ EndWin
  /\ UNCHANGED <<ended, kbmode, fdOpen, rest>>

HandlerRestoresMode ==
  /\ HandlerAt("mode")
  /\ RestoreMode(GoesTo("term"))
  /\ UNCHANGED <<term, fdOpen, rest>>

HandlerRestoresTerm ==
  /\ HandlerAt("term") /\ GoesTo("close")
  /\ RestoreTerm
  /\ UNCHANGED <<ended, kbmode, fdOpen, rest>>

HandlerCloses ==
  /\ HandlerAt("close") /\ GoesTo("exit")
  /\ fdOpen' = FALSE
  /\ UNCHANGED <<ended, modes, rest>>

\* Mutant: the handler returns where it should exit.
HandlerReturns ==
  /\ HandlerAt("exit")
  /\ frames' = Tail(frames)
  /\ UNCHANGED <<pc, ended, modes, fdOpen, rest>>

HandlerExits ==
  /\ HandlerAt("exit")
  /\ ended' = "fail"
  /\ UNCHANGED <<pc, frames, modes, fdOpen, rest>>

-----------------------------------------------------------------------------
(* The keyboard: a key is pressed or released; its bytes come together.     *)
(* Nothing reads them any more once a handler runs.                         *)
Type ==
  /\ ended = "no" /\ frames = << >> /\ typed < MaxTyped
  /\ \E bytes \in Keys : line' = line \o bytes
  /\ typed' = typed + 1
  /\ UNCHANGED <<pc, frames, ended, modes, saved, fdOpen, allowed, alarmSet, signals, reading, count, late>>

Ended == ended # "no" /\ UNCHANGED vars

MainNext == \/ GetMode \/ TcGetAttr \/ TcSetAttr \/ SetRaw \/ InitScr
            \/ SetAlarm \/ Read \/ CountKey \/ Verdict
            \/ MainEndsWin \/ MainRestoresMode \/ MainRestoresTerm \/ MainCloses \/ Return

HandlerNext == HandlerEndsWin \/ HandlerRestoresMode \/ HandlerRestoresTerm \/ HandlerCloses
               \/ HandlerExits

Next ==
  \/ MainNext \/ HandlerNext \/ Alarm \/ Type \/ Ended
  \/ \E handler \in {"SIGTERM", "SIGINT"} : Signal(handler)

Spec == Init /\ [][Next]_vars

(* The processor runs the program, and the alarm comes once it is set.      *)
FairSpec == Spec /\ WF_vars(MainNext) /\ WF_vars(HandlerNext) /\ WF_vars(Alarm)

-----------------------------------------------------------------------------
(* Properties.                                                              *)

TypeOK ==
  /\ pc \in {"get_mode", "tcgetattr", "tcsetattr", "K_RAW", "initscr", "alarm", "read", "count",
             "verdict", "endwin", "restore_mode", "restore_term", "close", "return"}
  /\ frames \in Seq(Handlers \X {"endwin", "mode", "term", "close", "exit"})
  /\ ended \in {"no", "pass", "fail"}
  /\ kbmode \in {"found", "K_RAW"} /\ oldkbmode \in {"found", "K_RAW"}
  /\ term \in {"found", "test", "curses", "zeros"} /\ old \in {"found", "test", "curses", "zeros"}
  /\ fdOpen \in BOOLEAN /\ allowed \in BOOLEAN /\ alarmSet \in BOOLEAN /\ late \in BOOLEAN
  /\ signals \in 0 .. MaxSignals /\ typed \in 0 .. MaxTyped
  /\ line \in Seq(Byte) /\ buf \in [1 .. BufLen + 1 -> Byte] /\ n \in 0 .. BufLen /\ k \in 1 .. BufLen + 1
  /\ ticked \subseteq Entries /\ key_count \in Nat

\* Whichever of main, die and watch_dog ends the program, and however they
\* interrupt each other, the console gets back the mode and the settings it
\* had, once they are saved (clean_up at 396, with the handlers at 45 to 69);
\* but a handler that comes between the close and the end puts the settings
\* of the test back and can no longer undo it (endwin at 416 and 424).
ConsoleRestored ==
  ended # "no" /\ allowed /\ old = "found" =>
    kbmode = "found" /\ (term = "found" \/ late)

\* The tables have one valid entry less than KEYNUMS: no PASS is earned by
\* them alone, a byte that was looked up beyond e0_keys[] is among those
\* counted (keyboard-test.c, 284 and 461).
PassFromBeyond ==
  ended = "pass" => \E b \in Beyond : <<"e0_keys", b>> \in ticked

\* When nobody types any more the program ends, in whatever state the
\* signals and the alarm find it (alarm at 278, the handlers' exits).
ProgramEnds == <>(ended # "no")
=============================================================================
