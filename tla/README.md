# Models and proofs for lx_toolset

`lx_toolset` is a collection of hardware test tools for Loongson notebooks and
network storage boxes: a sound recorder, memory testers, burn-in supervisors,
and small programs that drive one device each. Most of them are short, run
unattended for hours, and are trusted to give a verdict on a machine. This
directory holds TLA+ models of the parts that have real control (threads, signal
handlers, shared files, supervisors and their children, a search automaton, a chip
driven bit by bit), the TLC configurations that check them, and proofs for the TLA+ proof system.

Contents: [1 Inventory](#1-inventory), [2 Modules and code](#2-modules-and-code),
[3 Runs](#3-runs), [4 Fairness](#4-fairness), [5 Proofs](#5-proofs),
[6 Findings](#6-findings), [7 Not modelled](#7-not-modelled), [8 Plan](#8-plan).

## 1 Inventory

Paths are relative to the root of the repository.

### Programs with concurrency, shared state or long protocols

**7inch-mp3/record.cpp, the sound recorder (modelled).** State: two queues of
buffer pointers, `m_inputBuffers` (empty) and `m_fullBuffers`, each with a mutex;
the flags `m_binitialized` and `m_doneRecording`; and `m_pSndbuf`, "the current
buffer". Operations: `prepareBuffers` (a thread) keeps the empty queue filled one
second of sound at a time; `start` (the main thread) takes a buffer, reads the sound
card into it and queues it; `encode` (a thread) writes full buffers to the pipe of
an encoder; at the end `start` raises the flag, joins `encode`, drains the queue
and closes the pipe. They interact by the queues, by busy loops with
`sched_yield`, and by `m_pSndbuf`, which all three assign and use without a lock.
Hard: every interleaving of those uses, the NULL that `start` leaves in the pointer while
it allocates with the lock released, the second unlock after that, a failed `read`, an empty queue
indexed at 0, and the shutdown. Correct when the supply stays bounded, the recorder never finds
the queue empty in its first second, nothing is queued when the pipe is closed,
and, as long as the pointer is not raced, sound is delivered once and in order.

**rumt/urumt.c, the user space memory test (modelled).** State: an arena of
`n_pages` locked pages used as a ring, two cursors (page and pass) for filling and
for checking, and a statistics file with two 4-byte counters for each frame of
physical memory, shared by every urumt process. Operations: fill a page with an MD5
stream of (process, page, pass), compare the page filled `n_pages - 1` fills earlier,
count the bits that differ, give up if there are too many, add to the counters. Hard:
the check recomputes the stream from cursors of its own; a counter is read and
written in two system calls without a lock while other processes start and are
killed; counters saturate; memory changes at any time, also between `memcmp` and the
counting. Correct when a page is compared with its own fill, no test is lost or
counted twice, only real flips are counted, one check adds few of them, and
counters do not fall.

**rumt/rumt_daemon with rumt_trymem.c and rumt_fusion (modelled).** A shell loop
that checks memory the kernel was told not to use. State: the memory, the seed it was
filled from (a shell variable), and four files: the output of `rumt_trymem`, the table
`BAD_BITS`, `BAD_BITS.new` and `BAD_BITS.old`. Operations per round: check and refill
the memory, merge the new bad bits with the table, rename twice, sleep. Hard: the
script or the machine stops between any two commands and starts again with the files
it left and memory filled from another seed; the script alone is killed and its
`rumt_trymem` goes on to fill the memory; `rumt_fusion` dies after it has
truncated its output. Correct when memory is compared with the seed it was filled
from, nothing is entered that was not reported, and the table is the summary of all
rounds.

**rumt/bgrep.c, a binary grep (modelled but for its argument parsing).** State: the
pattern kept in reverse, a table of links, the index `p`. Operations: build the links,
follow them for every byte, print an address. Hard: a Knuth-Morris-Pratt search has
an index at every step that can be off by one, and the state after an occurrence is
where such programs go wrong. Correct when the links are longest borders, the first address
printed is the first occurrence, a wrong address, which the code does print, lies inside the one
printed just before it, and an occurrence it misses begins inside an address printed.

**nas-tool/is-serv-ok.c, an LED timer (modelled).** State: `time`, `count`, the LED
register, the interval timer. Operations: light or blink the LED for a time; a SIGALRM
handler moves the LED and `count`; the main loop tests `count` and pauses. Hard: the
signal may come anywhere, also between the test and `pause`; unsigned products; a time that `setitimer`
refuses. Correct when the LED goes off and a program that blinks ends.

**emi-test/run with cpu-mem-ide-burn.sh, the burn-in (modelled).** State: a tmpfs and
the archive copied to it, a flag file, a background script with its trees, the count of
polls. Operations: `run` copies the archive, starts the script, polls once a minute for
the flag for four hours, shows PASS or FAIL, kills the scripts by name and unmounts.
The script unpacks the archive over and over, compares, and leaves the flag on a
difference. Hard: the user may end `run`, whose script goes on into the next run;
the archive may be read while it is copied; `cp` and `tar` may find no space left, and nobody looks at
their status; the flag may come after the last poll. Correct when a sound machine is not failed, whole trees are compared, a run ends and
nothing burns after the verdict.

**keyboard/keyboard-test.c (modelled from `get_mode` on).** State: two tables of keys with
`is_pressed`, `key_count`, the console's keyboard mode and terminal settings and what was saved
of them, the alarm. Operations: put the console in raw scan code mode, read bytes, tick keys,
end when enough were seen; restore the mode in `main` and from signal handlers and a watchdog.
Hard: how the bytes of a key are cut into `read` calls (line 452 decides for a whole buffer by its
first byte, line 439 looks one byte past the end), `endwin` and `clean_up` interrupted by a handler that runs
both. Correct when the console is as it was found, and the test ends.

**eeprom/eeprom.c (the 16 bit build modelled).** State: the pins and the shift register of a
93C46 chip, `i`, `retval`, the loop of `main`. Operations: enable, write 16 bits, read, disable,
bit by bit. Hard: waiting for the chip (a count at 190), which hears nothing while it writes; a program
interrupted in the middle of a command; loop lengths. Correct when the words passed are in
the chip, the words returned are the chip's, and nothing else changes.

**touchpad/getbutton.c (not modelled).** State: `pressed`, `choice`. A click outside both
fields counts for the field of an earlier click (109-119 leave `choice` alone). One thread, two
variables; there is nothing for a model to interleave.

**i2c/i2cread.c (not modelled).** State: control, status and data register of an SMBus
controller. Operations: read and write transactions by polling. Hard: `i2cwait` (51-63)
does not tell success from failure, the early returns of `i2crd` (73, 80, 88) leave the
bus without a stop, and 0xff is both a value and an error. What the controller then does
with the next transaction is nowhere in the repository, and a model would have to invent it.

### Programs that are one loop or one straight line

- **rumt/highmem.c**: a kernel module, /dev/misc/highmem; **rumt/print_holes_linux**: a filter.
- **memtester** (Charles Cazabon), **presure-test/mem_test.sh** (Doug Ledford),
  **webcam/luvcview**, **overload-test/alsa-lib-1.0.9**: third-party programs. Worth knowing of
  memtester.c all the same: at 141-146 `wantbytes` may be reduced to 0, after which nothing is
  tested and the exit status is 0; after the retry without `mlock`, `aligned` still points
  at the block just freed (175-176). mem_test.sh announces a pass whatever `diff` said (109).
- **emc-test**: loads at a given rate, for measurements of electromagnetic compatibility.
  `cpu.c` shares the float `defaults` between two threads without a lock and divides by
  `1 - defaults` and by a measured time that may be 0 (83).
- **overload-test**, **presure_test_linpack**: loads without a verdict.
- **videoram/videoram-test.c** (and a copy in emi-test/video): maps video memory block
  by block; the inner loop (61) reuses the variable of the outer one (40), so
  that only the first block is tested, where the comment (39) promises four.
- **cmos/cmos-time-test.c**: sets the clock, sleeps 5 seconds and demands that exactly 5 have
  passed (64-79); the clock is left at 2008-12-01.
- **com_test**, **ecreg**, **ecupdate_tool**, **led**, **nas-tool/beep_test.c**, **sis_tool**,
  **spi**, **vgaout** and **emi-test/video** (fbtest, showbitmap): sequential I/O on one device.
  In spi, `stat` is unchecked (saveinfo.c:70) and the size stored in flash is trusted
  (readinfo.c:69-80); rwecreg.c:51 lets the address 0x10000 through.

The tools do not call one another, except inside rumt (the daemon runs rumt_trymem and
rumt_fusion, and urumt shares md5stream.c with rumt_trymem) and emi-test (run starts the
burn scripts). There is no common library.

## 2 Modules and code

| Module | Code | What it is |
| --- | --- | --- |
| `Recorder` | 7inch-mp3/record.cpp 81-421 | the three threads |
| `Capture` | the same, from outside | what a recorder promises: chunks captured and delivered in order, then closed |
| `RecorderProofs` | | proofs about `Recorder`, and that it implements `Capture` |
| `Urumt` | rumt/urumt.c 92-320, 404-427 | processes, ring, statistics file |
| `MCUrumt` | | sets and symmetry for TLC |
| `UrumtProofs` | | proofs about `Urumt` |
| `RumtDaemon` | rumt/rumt_daemon, rumt_fusion, rumt_trymem.c 84-145, 258-259 | script, memory and files |
| `MCRumtDaemon` | | sets for TLC |
| `RumtDaemonProofs` | | proofs about `RumtDaemon` |
| `Bgrep` | rumt/bgrep.c 37-60, 79-163 | the automaton and its input |
| `BgrepProofs` | | proofs about `Bgrep` |
| `IsServOk` | nas-tool/is-serv-ok.c 53-104, 144-245 | main, timer and handler |
| `IsServOkProofs` | | proofs about `IsServOk` |
| `BurnIn` | emi-test/run, emi-test/cpu-mem-ide-burn.sh | supervisor and scripts |
| `BurnInProofs` | | proofs about `BurnIn` |
| `Keyboard` | keyboard/keyboard-test.c 29-96, 277-292, 376-484 | main, handlers, alarm, bytes |
| `MCKeyboard` | | keys and tables for TLC |
| `KeyboardProofs` | | proofs about `Keyboard` |
| `Eeprom` | eeprom/eeprom.c 48-302, 359-462 as built for 16 bit words | the functions that drive the pins, and the chip |
| `MCEeprom` | | programs and contents for TLC |
| `EepromProofs` | | proofs about `Eeprom` |

Variables have the names of the source's variables where it has one; `pc` says where a
thread, process or script is. Variables called "history" in a declaration are not in the
code: they remember what a property speaks of and no guard reads them.

**Recorder.** An action is a section under the lock of the full queue, or one load or store of `m_pSndbuf`
outside one. The lock of the input queue is a variable, taken in one action (`PrepLock`, `RecTake`) and given back
in another, because `start` unlocks it twice when it finds NULL (393, 398), the second time whoever holds it:
`RecNull`, `RecNew`, `RecZero` and `RecUnlock` are the four steps of lines 391-398, and in between the supply
thread may push the NULL, or be in its section together with `start`. How often the pointer is loaded between two calls is not fixed by the
source; the model follows the binary in the repository (7inch-mp3/myrecord, 32-bit,
unoptimised): the buffer given to `read` and the field its result is stored in come
from one load, every other use is a load of its own, the length and the data of `write` among them (`ShipLength`,
`ShipData`). `m_stopRequested` is never set, since the
signal handler is compiled out (293-300), and main asks for a fixed time. A failed
`read` stores -1 in an unsigned field (`ULong - 1`). Indexing an empty queue reads a slot
nothing was stored in: 0, so that a buffer is allocated, or anything. What is undefined in C++ (a use of NULL, which kills the
program; such a slot; a pop of an empty queue; two threads in one queue) takes every thread to `"undefined"`, from
where nothing is claimed. The encoder process, the WAV header and the messages are
left out.

**Urumt.** The content of a frame is the seed it was filled from and the set of bits
flipped since: two MD5 streams are taken to differ wherever a seed differs, and in more
bits than `max_bugs_panic` only if `Bits` is that large. Two system calls of
`record_incr` are two actions. `Kill` ends a process at any point; the same slot may then
start again, as a new process does. The kernel is external: it gives a starting process
frames that no running process has locked, and blanks frames it takes back. `Flip`
changes a bit of a locked frame. Delays, options, messages and failing system calls are left
out, and so is `print_stats`, which only reads. Counters count modulo `IntMod`, unsigned
long modulo `LongMod`.

**RumtDaemon.** Seeds and stamps are loop numbers (the script uses the date, which
is another one in every round). A file is absent or the function it holds from bits to
entries. `rumt_fusion` writes through a buffer, so that its file has some part of the table between opening and
closing (`FusionPrints`; a line cut in two is no entry); a death in between leaves that part, a death before leaves an older file.
`Tested` are the bits 0 to 6 that `check_areas` looks at. `Quit` is the normal end of the daemon,
between rounds; `Stop`, `Kill` and `FusionDies` are faults and switched by `Faults`. `Stop` ends everything, perhaps with the memory half
filled (`written = 0`). `Kill` ends the script alone while it waits for `rumt_trymem`, which goes on as one of
the `strays`: it checks and fills the memory next to whatever is started meanwhile. A `rumt_fusion` or `mv` left behind ends
as if the script had been killed a little later. `crowded` remembers that a stray was running when the daemon was last
started. It is assumed to end before that daemon has slept its first `INTERVAL` (30 minutes in rumt.conf). A disk that is
full shows as a death of rumt_fusion, since its `print` and `close` are not checked.

**Bgrep.** As in the code the pattern is stored in reverse and `p` counts down.
`make_kmp_links` is `Links`, the first `j` of its loop being `Min`. `input` keeps all bytes
read, as history; the code's 4096-byte buffer does not change its behaviour byte by byte.

**IsServOk.** `Unit`, `Interval` and `Word` are 500000, 200000 and 2^32 in the code.
`pc = "pausing"` is the call of `pause` before the process sleeps. A second SIGALRM
while one is pending adds nothing. A time from half of the word on is a negative
one (`Negative`), which `setitimer` refuses with option 0: the program says so and goes on without a timer (164-168). The spelling "00" stands for the option arguments
that the filter (by `atoi`) lets through and the `strcmp`s do not recognise.

**BurnIn.** `run` and one script per run. Every run mounts a new tmpfs over the same
directory; a script works in the one that was mounted when it was started, and reads
the archive through its path, in the topmost. Trees are "whole", "cut" or "corrupt".
With `Filling`, `cp` and `tar` may end early for want of space (`CopyShort`, `Unpacked`): the tmpfs holds half of the
memory at most, and one that could not be unmounted (60, 99) keeps the trees of its run; `short` remembers for which
run it happened. The script runs with its defaults (one tree at a time). `kill -9` ends a script and not the
`tar` or `diff` it waits for, which is why `child` is a variable of its own.

**Keyboard.** The model begins at `get_mode`, with the handlers installed. `frames` are the
handlers that run, the innermost first; SIGTERM, SIGINT and the alarm may each interrupt main and
the other two, but not themselves. `endwin` and the three calls of `clean_up` are an action each wherever they are
called: `endwin`, which sets the terminal to what `initscr` found, the settings of line 84; the keyboard
mode, where a failing ioctl exits; the terminal; the close. `late` (history) says that a handler was entered with the
console closed. The keyboard sends
the bytes of a key together; `read` cuts the line into buffers, whose rest keeps the bytes of earlier
reads. `Entries` are the entries whose `valid` is set, and `Beyond` the bytes above 127 at which
memory behind `e0_keys` reads as such an entry: the code indexes 128 entries with a byte.
Drawing, the search for a console and a `read` that fails are left out.

**Eeprom.** An action is one access to the port. The chip is external: it takes a bit at each rising
edge of the clock while it is selected, starts a complete write or erase (`EE_ERASE_CMD`, 52, which this
build of the program never sends) when it is deselected, if writing is enabled, and hears nothing until that has
finished. What it has taken is one number, `chip.sr`: zeros before the start bit leave it 0, and the command it
amounts to is read off its digits (`Targets`, `Datum`); `chip.next` is the memory as it will be after the writing.
`Command` and `LastBit` are the constants and loop lengths of the source written for `AddrBits`
and `DataBits` (6 and 16). The user may interrupt a program at any access and start another.
Two assumptions are on time: the empty loop that counts to 600000 outlasts the chip's writing,
and so does starting a program by hand. `whole` says that the chip held no complete command
when the program started: an interrupt behind the last clock of a write leaves one, and the
next program's first chip select starts it. It may then be ready in the middle of that program's first command, and
take the end of it for an erase, which is why `OnlyAsked` lets a word become all ones where `whole` is false.
`asked` (history) is what `write_eeprom` was called with.

## 3 Runs

| Run | Checks | States |
| --- | --- | --- |
| `recorder_safety` | `TypeOK`, `InputBounded`, `FirstSecondCovered`, `NothingLeftQueued`, `StopLeadsToClosed` | 233,602 |
| `recorder_pipeline` | `PipelineSpec`: `Recorder` implements `Capture` while no pointer is raced | 378,319 |
| `recorder_output` | `OutputWritten`, violated | |
| `urumt_ring` | `TypeOK`, `ComparesOwnFill`, `NoFalseAlarm`, `StatsNotRuined` | 53,077 |
| `urumt_shared` | `EveryTestCounted`, `TotalsNeverFall` | 392,202 |
| `rumt_rounds` | `TypeOK`, `SeedsMatch`, `TableIsSummary`, `NothingInvented` | 1,218,658 |
| `rumt_stop` | `TableKept`, violated | |
| `bgrep_search` | `TypeOK`, `LinksAreLongest`, `StateIsLongest`, `FirstIsExact`, `FalseOnesOverlap`, `MissedOverlap`, `EveryByteMatched` | 101,806 |
| `isservok_run` | `TypeOK`, `NotLeftOn`, `LightGoesOff`, `BlinkingEnds` | 1,426 |
| `burnin_run` | `TypeOK`, `NoFalseFail`, `NoCutTrees`, `NothingBurns`, `RunEnds` | 349,287 |
| `eeprom_rom` | `TypeOK`, `WordsWritten`, `ReadsTrue`, `OnlyAsked` | 148,488 |
| `keyboard_run` | `TypeOK`, `ConsoleRestored`, `PassFromBeyond`, `ProgramEnds` | 1,372,667 |

Bounds, and why they are enough:

- *Recorder*: the threshold is 0 and a refill one buffer (1 and two where runs are race free), so that the supply
  thread refills while the recorder holds a buffer and while it does not, and the queue
  runs empty; `MaxReads` iterations (2, or 4 where runs are race free) let the encoder lag,
  overtake and meet the drain. The requested bytes are passed after two reads, so the
  shutdown is reached with one or two chunks queued.
- *Urumt*: three pages and six fills take one process twice round its ring, past every
  wrap of a cursor; two processes with two pages each over four frames share frames only
  after a kill, which is the case that matters; `IntMod = 3` makes counters saturate after two
  tests. Processes and bits are symmetric.
- *RumtDaemon*: four rounds and three changes of memory are what it takes to see a bit one
  way, then the other, then again, with a restart between, and enough for a killed `rumt_trymem` next to one of a new daemon. Two bits: the lowest of
  a byte and the last one tested.
- *Bgrep*: patterns of four bytes over two values have every shape of border that the links
  tell apart (none, one byte, overlapping, the whole period), and nine bytes of input hold two
  occurrences and an overlap. The proofs do not need the bound.
- *IsServOk*: with a unit of 5 and an interval of 2 the number of blinks is `5 * time / 2`, which keeps the
  rounding of `500000 * time / 200000`; the time 13 makes the product wrap round the 64 numbers of
  the word, the others do not; 60 is a negative time. `MaxLag = 2` bounds how often the handler runs between two steps of
  main: once is a lost wake-up, twice shows that more adds nothing.
- *BurnIn*: two runs are the least for a script of an earlier run; two polls
  put the flag before, between and after them.
- *Eeprom*: addresses and words of two bits have a first, a middle and a last bit, and are the least for which
  the two bits that tell enable from disable are address bits of their own. The programs are two
  images, a table that starts behind the first word, and the reading of everything; two of them in a row,
  each interrupted anywhere, meet a chip in every state the other can leave.
- *Keyboard*: a buffer of three bytes is shorter than two extended keys, so that a read ends inside one; three
  valid entries against `KEYNUMS = 4` are the source's 79 against 80; four keys reach a PASS; one
  signal with the alarm makes two handlers that interrupt each other, also behind the close. The proofs do not need the bounds.

Deadlock is checked except where the system really stops: the race-free schedules of the
recorder may have every thread waiting, is-serv-ok with an unknown option pauses for ever,
and after the last run of a burn-in or of an EEPROM program nothing is left to do.

What the runs show beyond "no error": in `recorder_safety` the race on `m_pSndbuf` is
included, and so are the NULL and the second unlock, up to where C++ defines nothing any more: the bounds and the
shutdown do not depend on them, and a NULL gets no further than the queue of empty buffers, while `recorder_pipeline`
shows that the race is the only thing that stands between the recorder and its
promise. `EveryTestCounted` holds although nothing locks the file, because a counter belongs to a
frame and a frame to one process at a time. `FalseOnesOverlap` and `MissedOverlap` bound the damage of the
wrong state after an occurrence in bgrep: what is printed or missed wrongly begins inside an address printed. `NotLeftOn` is the
safety side of `LightGoesOff`: main may sleep through the only signal, but the LED is not on when the program ends. `NoFalseFail` and `NoCutTrees` are claimed only as
long as the user has not ended a run: a script left behind reads the archive that the next run is
copying, unpacks a cut tree and can fail a sound machine. They are also claimed only for runs whose `cp` and `tar` had the
space they needed, since the model fails a sound machine for want of it. `SeedsMatch` is claimed for daemons started when no
`rumt_trymem` of a killed one was at work; where one was, it may fill the memory last, and nothing in the script prevents it.
`NotLeftOn` and `LightGoesOff` say nothing of a negative time. `ConsoleRestored` claims the keyboard mode whoever ends the
program, once it was saved, and the terminal settings unless a handler came after the console was closed. `WordsWritten` holds although the disable command
after a word is given while the chip writes and is not heard: the chip stays enabled, and the next word starts
with an enable of its own. `PassFromBeyond` says what a PASS of the keyboard test takes: the tables have 68 and
11 valid entries and `KEYNUMS` is 80, so that a byte looked up behind `e0_keys` must have been counted.

## 4 Fairness

Liveness is checked under weak fairness only, of what the system schedules by itself:

- *Recorder*: each thread. Every waiting loop calls `sched_yield`, mutexes are held for a
  few instructions, and `read` and `write` return. No fairness between two outcomes of `read`.
- *Bgrep*: the inner loop, which is sequential.
- *IsServOk*: main, the interval timer, and the delivery of a pending signal.
- *BurnIn*: `run` and each script (whose `tar` and `diff` end). The user's `Quit` is not fair.
- *Keyboard*: main, the handlers, and the alarm once it is set. Nobody has to type.

The specifications of Urumt and RumtDaemon are safety only: what those programs do, they do
until somebody stops them. So is that of Eeprom, whose programs are a fixed number of steps.

## 5 Proofs

| Theorem | States | For every |
| --- | --- | --- |
| `RecorderProofs!TypeCorrect` | what is queued to the encoder is an allocated buffer; NULL gets no further than the empty queue | threshold, number of buffers and reads |
| `RecorderProofs!InputQueueBounded` | the empty queue holds at most `MIN_BUFFERS + OneSecond` | the same |
| `RecorderProofs!NoStarvationInFirstSecond` | no read of an empty queue in the first `OneSecond` iterations | the same |
| `RecorderProofs!QueueDrainedAtClose` | nothing is queued when the pipe is closed | the same |
| `RecorderProofs!RecorderImplementsCapture` | without a raced pointer `Recorder` implements `Capture` | the same |
| `UrumtProofs!TypeCorrect` | cursors inside the arena, counters inside the file | number of processes, pages, frames |
| `UrumtProofs!PagesComparedWithOwnFill` | a page is compared with its own last fill | the same |
| `UrumtProofs!FewBadBitsAtOnce` | one check adds at most `max_bugs_panic` | the same |
| `UrumtProofs!TestsCounted` | no test is lost or counted twice | the same, with `LongMod = IntMod` |
| `UrumtProofs!NoBitTooMany` | only flips of a frame are recorded for it, none twice by one check | the same |
| `UrumtProofs!CountersNeverFall` | no counter of the file falls | the same, with `LongMod = IntMod` |
| `RumtDaemonProofs!TypeCorrect` | every file is absent or a table of bits with sign and stamp | bits, rounds, changes and faults |
| `RumtDaemonProofs!CheckedAgainstItsSeed` | memory is compared with the seed it was filled from, by a daemon started when no `rumt_trymem` of a killed one was at work | the same |
| `RumtDaemonProofs!NothingIsInvented` | no file says what was not reported | the same |
| `RumtDaemonProofs!TableSummarizes` | without a fault the table is the summary of all reports | the same, with `NoFile \notin TableContents` |
| `BgrepProofs!TypeCorrect` | `p` is an index of the pattern, no address negative | pattern, alphabet and input |
| `BgrepProofs!FalseOnlyInsideAnother` | a wrong address lies inside the address before it | the same |
| `BgrepProofs!MissedOnlyInsideAnother` | an occurrence not printed begins inside an address printed | the same |
| `BgrepProofs!LinksGoForward` | every turn of the inner loop raises `p` | the same |
| `BgrepProofs!LinksCorrect` | every link is the longest border, whatever byte follows it | the same |
| `BgrepProofs!StateCorrect` | until an address is printed, `p` is the longest part matched | the same |
| `BgrepProofs!FirstCorrect` | the first address is the first occurrence, and none is passed over before it | the same |
| `IsServOkProofs!TypeCorrect` | `time` and `count` fit the word, a light is counted once | unit, interval, width and times |
| `IsServOkProofs!LightNotLeftOn` | an LED lit for a time that is not negative has its signal before it, and the program has not ended | the same |
| `BurnInProofs!TypeCorrect` | runs, scripts and children are where they can be | polls, runs and faults |
| `BurnInProofs!QuietAtVerdict` | no script goes on behind a verdict | the same |
| `BurnInProofs!FailIsTrue` | FAIL only for a failure of that run's hardware, no run being ended early and `cp` and `tar` having space | the same |
| `BurnInProofs!WholeTreesCompared` | no cut tree is compared, no run being ended early and `cp` and `tar` having space | the same |
| `KeyboardProofs!TypeCorrect` | indices stay inside the buffer and one byte behind it | tables, keys, buffer and signals |
| `KeyboardProofs!ConsoleCorrect` | the console gets back the mode saved, and the settings unless a handler came after the close | the same |
| `KeyboardProofs!PassCorrect` | a PASS counts an entry behind the tables | the same |
| `KeyboardProofs!ReadIsWatched` | the test waits for a key only with the alarm set | the same |
| `EepromProofs!TypeCorrect` | loop variables, results and chip stay in their ranges | widths, contents, programs and interrupts |
| `EepromProofs!WordsAreWritten` | the words passed are in the memory | the same |
| `EepromProofs!WordsAreRead` | the words returned are the memory's | the same |
| `EepromProofs!NothingElseChanges` | a word changes only as asked, or is erased by what an interrupted program left | the same |

The assumptions are those of the modules (`RecorderAssumption`, `UrumtAssumption`,
`RumtDaemonAssumption`, `BgrepAssumption`, `IsServOkAssumption`, `BurnInAssumption`, `EepromAssumption`,
`KeyboardAssumption` and `TablesAssumption`, which says that there are fewer valid entries than
`KEYNUMS`), which TLC evaluates in the runs. Two theorems of Urumt assume that an unsigned long is as wide as a
counter, and `TableSummarizes` that the value standing for a missing file is not a table.

*Recorder.* `IInv` adds to `TypeOK` four parts. `Pointers`: nobody uses `m_pSndbuf` before a buffer
was allocated, and it is NULL only while `start` is looking at it or allocating. `Supply`: at each place of `prepareBuffers` the queue is no longer than the
threshold plus the buffers pushed in this refill; `InputBounded` alone is not inductive,
since a push is safe only by what was measured before, and the measure stays a bound because no
other thread appends. `FirstSecond`: before `m_binitialized` the queue has exactly `i` buffers,
afterwards queue and reads together make `OneSecond`, and one more while `start` has taken a buffer it has not popped yet. `Drain`: from the join on, only
`start` touches the full queue, so its last result is the length.

*Recorder implements Capture.* `PInv` adds to `IInv` what holds of a run without races. `Apart`: no buffer
is in the empty queue twice or both empty and pending, no NULL is in it, and the buffer a thread is about to fill or
to queue is nobody else's. `Sized`: `write` gets the length of the buffer whose data it gets. `Numbered`: captured chunks ascend and do not exceed `reads`. `InOrder`: the
chunks of the pending buffers (the one in the `Hand` of who writes, the full queue, the one just read) ascend in that order.
`Complete`: the pending buffers that hold sound hold exactly the chunks captured and not yet written. The last two need `~Stuck`:
a thread whose buffer pointer was reassigned before it used it cannot go on without a race, and from then on its buffer is not
pending any more; nor does an undefined program go on. The key lemma is `HandIsNext`: since the buffer being written holds the least of the chunks that are
missing, and those captured ascend, it holds the next one. At the close nothing is pending, so
`Complete` makes what was written equal to what was captured. Each step then maps to `Read`, `Deliver`, `Close` or a stutter.

*Urumt.* `IInv` needs `Exclusive` (no two pages in one frame, of one process or of two) for
everything else; `Behind` (the checking cursors are `NPages - 1` fills behind, or still waiting
for the ring to fill); `OwnFills` (every page holds the stream of its last fill, as a function of
where the filling cursor is) and `FreshCounters` (a counter read is unchanged until it is
written back, since the frame is exclusive). `ComparesOwnFill` follows from `Behind` and
`OwnFills`, `EveryTestCounted` from `FreshCounters`. `TestsCounted` assumes that
an unsigned long is as wide as a counter: otherwise saturation fails, see the hazard at urumt.c:234.
For `NoBitTooMany` `AInv` adds two sums for each page of a running process: what the file says of its frame, with the
flipped bits no check has counted yet (`UncountedOf`), or with the number a check is about to add (`PendingOf`), is no more
than the flips of that frame. `Clean` keeps frames nobody has locked without flipped bits.

*RumtDaemon.* `IInv` says for each place of the script which files are there (`FilesThere`) and, unless the daemon is `crowded`, what memory
was filled from (`Filled`); when a stray may still be there (`StraysEnd`: not behind the first sleep); that the lines being merged are reported before anything is written (`LinesReported`); and that
a table that is there is honest (`HonestThere`, next to `NothingInvented`, so that nothing depends on what `NoFile` is). The step that matters
is one lemma about the merge, `FusionHonest`: from an honest table and reported lines it makes an honest table. Every other step
moves a file, empties it or leaves it, which is why stops and deaths anywhere do no harm to this property.

`TableSummarizes` rests on `SInv`: a table there is `Exact` for the reports so far (a bit is in it if it was reported, with its
sign, or `*` if it was reported both ways, and with its first stamp), at every place of the script and for whichever of the
files is the table there; and `StampsPast`, that stamps are not in the future, without which a later round could
be taken for the first. `FusionExact` says that the merge takes an exact table and new lines to an exact table.

*Bgrep.* `IInv` is `TypeOK`, `LinkSound` (the bytes after a link equal those after the index),
`Claims` (what `p` claims to be matched really ends the input, as far as it lies after the
end of the last address printed) and `FalseOnesOverlap`. The claim must be weakened to
"after the last address" because the state after an occurrence is wrong by one byte; that is
what keeps the invariant inductive, and it is exactly strong enough.

For the exactness of the first address `EInv` adds, until an address is printed, that `p` holds
(`HoldsAt`), that nothing longer ends the input (`NoneLonger`) and that no occurrence was passed (`NoneBefore`), and
afterwards that the first address is the least occurrence (`FirstIsLeast`). While `p` is followed
along links, `NoneLonger` speaks of what would still match the byte just read; `LinksAreLongest` is what
keeps it, since a longer beginning that could still match would be a longer border.

`MissedOverlap` rests on the same argument begun anew at each address. `MInv` says of the bytes behind the end of the
last address (`Base`) what `NoneLonger` says of the whole input: no longer part of the pattern lies there and ends the input
(`NoneLongerSince`), and every occurrence that has ended is in an address printed (`AllCovered`). The wrong state after an
occurrence does no harm here, since nothing lies behind `Base` yet. An occurrence that ends with the byte just read therefore is
either found or began before `Base`, and then inside the last address (`JustEnded`).

*IsServOk.* `FiresOnce`: the signal of the single-shot timer is to come, pending or counted, and exactly one of these.
`RoomForHandler` bounds `lag`. Without `FiresOnce` `count` might be a multiple of `time`. `LightNotLeftOn` adds `TimeSet`: while
main loops, `time` is the argument, which is not 0, so that main cannot end at `count = 0`, as `count` is until the LED is off.

*BurnIn.* `RunInv` holds of every run: runs to come have left nothing (`Ahead`), nothing is shown before the polls end
(`Polling`), and no script survives the kill, because none is started after the list (`Killing`). `Sound` holds while no run was ended
early: one script works (`Alone`), in the tmpfs on top (`OnTop`), from an archive copied whole (`Fed`), and whatever leads to
FAIL has a failure before it (`Blamed`), the last two for a run that is not `short`.

*Keyboard.* `ConsoleInv` says for each point of main and of the handlers which of the two settings is as it was
found, to be restored, or restored (`Untouched`, `Kept`, `ModeBack`, `TermBack`, `AllBack`). A handler that interrupts `clean_up`
undoes what was restored (`endwin`) and restores it again, and the innermost one exits, unless the console is closed: `Closed`
says that then, without a `late` handler, nothing is left but the exit. For `PassCorrect`, `key_count` is the cardinality of `ticked`.
`ReadIsWatched` is inductive once it is said of counting and the verdict too, and of the handler that used the alarm up (`Watched`).

*Eeprom.* Commands, addresses and words are numbers whose binary digits go over one wire, so most of the invariant is arithmetic with
powers of two. Those are defined by recursion, which the provers cannot unfold for every exponent; `2^k` enters as the number of subsets of
a set of `k` elements, which the library's theorems on cardinality give, and the lemmas about quotients and digits follow from
`2^(k + 1) = 2 * 2^k`. `TInv` adds to `TypeOK` where each loop variable is (`Loops`), which function is where (`Flow`), and when the chip's
register is empty (`Wires`). What a line has done to the chip is one of two things: `Hears`, its register is the part of the command
sent so far; or `Missed`, it was writing and took at most what came after the start bit, a number too small for a write.
`NothingElseChanges` needs both, and that every word in the chip's register, and every word it is writing, was asked for
(`AskedFor`). For programs that are `whole`, `Heard` says that only the disable command is ever missed, because the program waits behind
it; `Writes`, that the chip writes the word of this turn and is enabled when it is told to; and `Reads`, that `retval` is the upper part of
the word in the memory. `WordsWritten` and `ReadsTrue` are not inductive without these three: they speak only of turns that are over.

Model-checked only: liveness (`StopLeadsToClosed`, `EveryByteMatched`, `LightGoesOff`,
`BlinkingEnds`, `RunEnds`, `ProgramEnds`), which the prover does not reach under fairness. Of three of them the safety half is
proved: `LinksGoForward` for `EveryByteMatched`, `LightNotLeftOn` for `LightGoesOff` and `ReadIsWatched` for `ProgramEnds`.

## 6 Findings

- **Lost sound** (`recorder_output`): the encode thread's assignment of `m_pSndbuf` (record.cpp:192)
  between the recorder's 390 and 404 makes the recorder count or queue the wrong buffer. "Do NOT exit
  until output is written" (417) does not hold: the pipe is closed with a chunk never written.
- **Lost table** (`rumt_stop`): stopped between its two `mv` commands, rumt_daemon starts again
  with an empty table, and the next round with news moves that over the backup too.

Two more sentences do not hold; the properties are stated as what remains true:

- *Bit 7*: "If something has changed, the detected bad bits will be printed" (rumt.html:77-82), but the loop over the bits of
  a byte ends before bit 7 (rumt_trymem.c:109), and a byte in which only that bit changed is passed over in silence. `Tested` are
  the bits 0 to 6.
- *The keyboard*: "if we receive a signal, we want to exit nicely, in order not to leave the keyboard in an unusable mode"
  (keyboard-test.c:47-49). The handlers restore what is saved only at 72 and 73, so that a signal before that writes back zeros;
  and one between the close and the exit runs `endwin`, which sets the terminal to the settings of line 84, and then a `clean_up` that fails on
  the closed descriptor and exits with those settings in force. `ConsoleRestored` claims the settings where no handler came after the close.

Seen while modelling, without a sentence of the repository that says otherwise, and therefore
only in the models and among the hazards:

- *record.cpp*: buffers are never freed (198); a failed `read` is counted as a length of -1 (401); with the empty queue run dry,
  NULL is in `m_pSndbuf` while the lock is released (393-394), where the other threads may use it, and the lock is released twice (398).
- *rumt*: a `rumt_trymem` whose script was killed fills the memory from its own seed, and a daemon started meanwhile may
  then compare with another and list nearly every bit; a failed rumt_fusion leaves an unfinished file
  that is renamed over the table; counters of urumt wrap to 0 where unsigned long has 64 bits (234).
- *bgrep*: after an occurrence it goes back along the link of the last byte as if that byte had not been
  read (149): `aab` in `aabab` prints 0 and 2, and `2121` in `212112121` prints 0 and 3, and not 5 (which begins inside 3). An
  empty argument makes `p` the largest unsigned number (137).
- *is-serv-ok*: a negative time passes the filter (134; the usage at 115 asks for a time > 0), no timer is set with option 0
  (164-168), and the LED stays on. With option 0 the only SIGALRM may come between the test of `count` and `pause` (99-100), which then
  waits for ever; so it does with an option such as `00` (129). The number of blinks wraps for times above 8589
  seconds (182), and the program ends early.
- *burn-in*: a difference found after the last poll, or by a script killed before it leaves the flag, is
  followed by PASS; so is a burn-in without an archive, after four hours. `kill -9` leaves `tar` or `diff`, and umount fails; the old trees then stay in memory, a later `cp` or `tar` may find
  no space, and trees that differ for want of it fail a sound machine.
- *eeprom*: the disable command after a word is given while the chip writes and is missed, so that writing stays
  enabled; `RTL_W8` has its arguments swapped at 276 and 288, so that the chip stays selected; `gethex` stores an int
  through a pointer to an unsigned short (408, 412); `write_eeprom8` polls for ever (225). A program
  interrupted behind the last clock of a write leaves a command in the chip: the next program's first select starts it, and what that
  program sends before the chip is ready again is lost or, if only its end is heard, may be an erase.
- *keyboard*: a PASS needs entries behind the tables (79 valid ones against 80); an e0 behind another byte in the
  buffer is not seen, so that right Alt ticks left Alt; a left Ctrl at the end of the buffer with an old 69 behind it ticks nothing, since it is looked up as
  Pause in `e0_keys[29]`, which is no valid entry; a console that refuses `K_RAW` is left with the test's settings
  (88); the screen promises 10 seconds (102) where `TIMELEFT` is 20; the alarm is not cancelled before PASS.

## 7 Not modelled

Third-party programs (memtester, mem_test.sh, luvcview, alsa-lib), which are most of the lines of the
repository; the kernel modules; programs that are a straight line of I/O on one device, for which a model would repeat
the code without a state space worth exploring; drawing and formatting; floating point (emc-test/cpu.c,
presure_test_linpack). i2c and touchpad for the reasons given in the inventory; nas-tool/beep_test has the timer and
loop of is-serv-ok, and led the registers of it. The 8 bit build of eeprom.c sends commands that are an address bit
short of what its comments give, so that there is no chip to model it against; eeprom/old holds the same functions. In the
modelled programs: parsing of arguments, messages, delays as durations, and the contents of data beyond what the
properties tell apart. PROJECT.json gives the reason for each component.

## 8 Plan

Done: all modules and proofs of section 2. What is left, in this order:

1. `Recorder`: how many chunks one race on `m_pSndbuf` can lose. `RecorderImplementsCapture` says that none is lost
   without one.
2. `Keyboard`: the console search, so that the model begins with `main`; a `read` that fails and re-arms the alarm.
3. `BurnIn`: the parallel trees of cpu-mem-ide-burn.sh, and the scripts runwifi.sh and runcat.sh.
4. touchpad, once there is a property to state beyond the missing assignment.
