------------------------------ MODULE Recorder ------------------------------
(***************************************************************************)
(* The sound recorder of 7inch-mp3/record.cpp.  Three threads share one    *)
(* Recorder object: "prep" (prepareBuffers) keeps a queue of empty buffers *)
(* filled, "rec" (start) reads the sound card into them, and "enc"         *)
(* (encode) writes the full ones to the encoder's pipe.  Each queue has a  *)
(* mutex; m_pSndbuf, the pointer to "the current buffer", is a member all  *)
(* three threads assign and use with no lock.                              *)
(*                                                                         *)
(* A section under m_fullBuffersLock is one action: nothing in it blocks    *)
(* and its lock is released by the thread that holds it.  Not so the input *)
(* queue's: start unlocks it twice when it finds no buffer (lines 393 and  *)
(* 398), the second time whoever holds it, so taking it is an action and   *)
(* what is done under it another.  Every other use of m_pSndbuf is an      *)
(* action of its own.  How often the pointer is loaded follows the build   *)
(* kept in the repository (7inch-mp3/myrecord, 32-bit, unoptimised): the   *)
(* address read() fills and the field its result goes to come from one     *)
(* load before the call, every other use loads the member again.           *)
(*                                                                         *)
(* The program is "undefined", and nothing is claimed of it, once it uses  *)
(* a NULL pointer (which kills it), an element of an empty queue that is   *)
(* not zero, pops an empty queue, or has two threads in the input queue's  *)
(* section.                                                                *)
(*                                                                         *)
(* m_stopRequested is never set (its handler is compiled out, lines        *)
(* 293-300) and main asks for 10 seconds, so m_sec is never 0.             *)
(***************************************************************************)
EXTENDS Naturals, Sequences

CONSTANTS
  OneSecond,   \* buffers for one second of sound: bytes per second / BUFFER_SIZE + 1
  MIN_BUFFERS, \* prep refills the queue when it has no more than this many
  BUFFER_SIZE, \* bytes in a buffer
  Requested,   \* totalBytesRequested
  ULong,       \* an unsigned long is a number modulo this
  MaxReads     \* bound of the model: iterations of the recording loop

ASSUME RecorderAssumption ==
  /\ OneSecond \in Nat \ {0}
  /\ MIN_BUFFERS \in Nat
  /\ BUFFER_SIZE \in Nat \ {0}
  /\ Requested \in Nat
  /\ ULong \in Nat
  /\ ULong > BUFFER_SIZE + 1
  /\ MaxReads \in Nat

VARIABLES
  pc,             \* where each thread is
  m_pSndbuf,      \* the shared current buffer, 0 for NULL
  m_inputBuffers, \* the queue of empty buffers
  m_inputBuffersLock, \* its mutex is held
  m_fullBuffers,  \* the queue of buffers read from the card
  m_binitialized, \* the first second of buffers is ready
  m_doneRecording,
  mem,            \* the SndBuffer objects: mem[b] is the buffer allocated b-th
  i,              \* prep: buffers pushed in this refill
  sz,             \* prep: the queue length it last saw
  dst,            \* rec: the buffer read() was given
  bytesRead,      \* rec
  lastSize,       \* enc and rec: what shipToEncoder last returned
  out,            \* the length and the data of the write() in preparation, of
                  \* enc until it has exited and of rec after that
  reads,          \* iterations of the recording loop begun
  captured,       \* history: the chunks the card delivered, in order
  written,        \* history: what went down the pipe after the header
  setter,         \* history: the thread that last assigned m_pSndbuf
  raced           \* history: a thread has used a pointer another one assigned

prepVars == <<i, sz, m_binitialized>>
recVars  == <<dst, bytesRead, reads, captured, m_doneRecording>>
encVars  == <<lastSize, out, written>>
raceVars == <<setter, raced>>
queues   == <<m_inputBuffers, m_fullBuffers, m_inputBuffersLock>>
vars     == <<pc, m_pSndbuf, queues, mem, prepVars, recVars, encVars, raceVars>>

Threads == {"prep", "rec", "enc"}

PrepPlaces == {"alloc", "zero", "push", "pushing", "size", "sizing", "spin",
               "spinning", "undefined"}
RecPlaces  == {"wait", "failed", "take", "look", "new", "zero", "unlock", "call",
               "read", "count", "push", "stop", "join", "drain", "length", "data",
               "write", "pclose", "closed", "undefined"}
EncPlaces  == {"off", "test", "ship", "length", "data", "write", "processed",
               "exited", "undefined"}

(* The buffer operator new returns: fresh memory, all zero. *)
NewBuffer == [chunk |-> 0, used |-> 0]

At(t, place) == pc[t] = place
Goto(t, place) == pc' = [pc EXCEPT ![t] = place]

(* Thread t assigns b to m_pSndbuf. *)
Assign(t, b) ==
  /\ m_pSndbuf' = b
  /\ setter' = t

(* Thread t loads m_pSndbuf. *)
Use(t) ==
  /\ raced' = (raced \/ setter # t)
  /\ UNCHANGED <<m_pSndbuf, setter>>

(* No write() is in preparation. *)
NoWrite == [len |-> 0, src |-> 0]

(* prep is between its lock and its unlock of the input queue. *)
Inside == pc["prep"] \in {"pushing", "sizing", "spinning"}

(* The end of what is claimed of the program. *)
Crash ==
  /\ pc' = [t \in Threads |-> "undefined"]
  /\ UNCHANGED <<m_pSndbuf, queues, mem, prepVars, recVars, encVars, raceVars>>

(* m_pSndbuf is NULL, as rec leaves it for a while, when thread t reaches  *)
(* through it: the program is killed.                                      *)
NullUsed(t, places) ==
  /\ pc[t] \in places
  /\ m_pSndbuf = 0
  /\ Crash

Init ==
  /\ pc = [prep |-> "alloc", rec |-> "wait", enc |-> "off"]
  /\ m_pSndbuf = 0
  /\ m_inputBuffers = << >>
  /\ m_inputBuffersLock = FALSE
  /\ m_fullBuffers = << >>
  /\ m_binitialized = FALSE
  /\ m_doneRecording = FALSE
  /\ mem = << >>
  /\ i = 0
  /\ sz = 0
  /\ dst = 0
  /\ bytesRead = 0
  /\ lastSize = [rec |-> 0, enc |-> 1]
  /\ out = NoWrite
  /\ reads = 0
  /\ captured = << >>
  /\ written = << >>
  /\ setter = "prep"
  /\ raced = FALSE

-----------------------------------------------------------------------------
(* prepareBuffers *)

(* buffer_prepare: m_pSndbuf = new SndBuffer ... *)
PrepAlloc ==
  /\ At("prep", "alloc")
  /\ mem' = Append(mem, NewBuffer)
  /\ Assign("prep", Len(mem) + 1)
  /\ Goto("prep", "zero")
  /\ UNCHANGED <<queues, prepVars, recVars, encVars, raced>>

(* ... and the memset of whatever m_pSndbuf then points at. *)
PrepZero ==
  /\ At("prep", "zero")
  /\ m_pSndbuf # 0
  /\ Use("prep")
  /\ mem' = [mem EXCEPT ![m_pSndbuf] = NewBuffer]
  /\ Goto("prep", "push")
  /\ UNCHANGED <<queues, prepVars, recVars, encVars>>

(* input_buffer_push and input_buffer_get_size take the lock, the latter   *)
(* again and again while(sz > MIN_BUFFERS).                                *)
PrepLock ==
  /\ ~m_inputBuffersLock
  /\ \/ At("prep", "push") /\ Goto("prep", "pushing")
     \/ At("prep", "size") /\ Goto("prep", "sizing")
     \/ At("prep", "spin") /\ sz > MIN_BUFFERS /\ Goto("prep", "spinning")
  /\ m_inputBuffersLock' = TRUE
  /\ UNCHANGED <<m_pSndbuf, m_inputBuffers, m_fullBuffers, mem, prepVars, recVars,
                 encVars, raceVars>>

(* Mutant: the for loop runs once too often. *)
PrepPushOneMore ==
  /\ At("prep", "pushing")
  /\ Use("prep")
  /\ m_inputBuffers' = Append(m_inputBuffers, m_pSndbuf)
  /\ m_inputBuffersLock' = FALSE
  /\ i' = i + 1
  /\ Goto("prep", IF i + 1 <= OneSecond THEN "alloc" ELSE "size")
  /\ UNCHANGED <<m_fullBuffers, mem, sz, m_binitialized, recVars, encVars>>

(* The push, the unlock, and the test of the for loop. *)
PrepPush ==
  /\ At("prep", "pushing")
  /\ Use("prep")
  /\ m_inputBuffers' = Append(m_inputBuffers, m_pSndbuf)
  /\ m_inputBuffersLock' = FALSE
  /\ i' = i + 1
  /\ Goto("prep", IF i + 1 < OneSecond THEN "alloc" ELSE "size")
  /\ UNCHANGED <<m_fullBuffers, mem, sz, m_binitialized, recVars, encVars>>

(* The queue's size, the unlock, and the first time input_buffer_ready.    *)
PrepSize ==
  /\ pc["prep"] \in {"sizing", "spinning"}
  /\ sz' = Len(m_inputBuffers)
  /\ m_inputBuffersLock' = FALSE
  /\ m_binitialized' = TRUE
  /\ Goto("prep", "spin")
  /\ UNCHANGED <<m_pSndbuf, m_inputBuffers, m_fullBuffers, mem, i, recVars,
                 encVars, raceVars>>

(* Mutant: the loop variable is not reset for the next refill. *)
PrepRefillNoReset ==
  /\ At("prep", "spin")
  /\ sz <= MIN_BUFFERS
  /\ i' = i
  /\ Goto("prep", "alloc")
  /\ UNCHANGED <<m_pSndbuf, queues, mem, sz, m_binitialized, recVars, encVars,
                 raceVars>>

(* The queue has run low: another second of buffers. *)
PrepRefill ==
  /\ At("prep", "spin")
  /\ sz <= MIN_BUFFERS
  /\ i' = 0
  /\ Goto("prep", "alloc")
  /\ UNCHANGED <<m_pSndbuf, queues, mem, sz, m_binitialized, recVars, encVars,
                 raceVars>>

Prep ==
  \/ PrepAlloc \/ PrepZero \/ PrepLock \/ PrepPush \/ PrepSize \/ PrepRefill
  \/ NullUsed("prep", {"zero"})

-----------------------------------------------------------------------------
(* shipToEncoder, called by the encoder's loop and by start at the end.    *)

ShipNothing(t, next) ==
  /\ m_fullBuffers = << >>
  /\ lastSize' = [lastSize EXCEPT ![t] = 0]
  /\ Goto(t, next)
  /\ UNCHANGED <<m_pSndbuf, queues, mem, prepVars, recVars, out, written,
                 raceVars>>

(* Mutant: the buffer is taken from the wrong end of the queue. *)
ShipTakeBack(t) ==
  /\ m_fullBuffers # << >>
  /\ Assign(t, m_fullBuffers[Len(m_fullBuffers)])
  /\ m_fullBuffers' = SubSeq(m_fullBuffers, 1, Len(m_fullBuffers) - 1)
  /\ lastSize' = [lastSize EXCEPT ![t] = Len(m_fullBuffers) - 1]
  /\ UNCHANGED <<m_inputBuffers, m_inputBuffersLock, mem, prepVars, recVars, out,
                 written, raced>>

ShipTake(t) ==
  /\ m_fullBuffers # << >>
  /\ Assign(t, Head(m_fullBuffers))
  /\ m_fullBuffers' = Tail(m_fullBuffers)
  /\ lastSize' = [lastSize EXCEPT ![t] = Len(m_fullBuffers) - 1]
  /\ UNCHANGED <<m_inputBuffers, m_inputBuffersLock, mem, prepVars, recVars, out,
                 written, raced>>

(* The arguments of write(), last to first: m_pSndbuf->used ... *)
ShipLength(t) ==
  /\ At(t, "length")
  /\ m_pSndbuf # 0
  /\ Use(t)
  /\ out' = [out EXCEPT !.len = mem[m_pSndbuf].used]
  /\ Goto(t, "data")
  /\ UNCHANGED <<queues, mem, prepVars, recVars, lastSize, written>>

(* ... and, from another load, m_pSndbuf->buffer.                          *)
ShipData(t) ==
  /\ At(t, "data")
  /\ Use(t)
  /\ out' = [out EXCEPT !.src = m_pSndbuf]
  /\ Goto(t, "write")
  /\ UNCHANGED <<queues, mem, prepVars, recVars, lastSize, written>>

(* write(): no length, a length of -1 (left by a failed read) and the      *)
(* address of a field of NULL write nothing.                               *)
ShipWrite(t, next) ==
  /\ At(t, "write")
  /\ written' = IF out.len \in {0, ULong - 1} \/ out.src = 0 THEN written
                ELSE Append(written, mem[out.src].chunk)
  /\ out' = NoWrite
  /\ Goto(t, next)
  /\ UNCHANGED <<m_pSndbuf, queues, mem, prepVars, recVars, lastSize, raceVars>>

(* encode *)

(* while(!is_recording_done() || lastSize) *)
EncTest ==
  /\ At("enc", "test")
  /\ Goto("enc", IF ~m_doneRecording \/ lastSize["enc"] # 0 THEN "ship" ELSE "exited")
  /\ UNCHANGED <<m_pSndbuf, queues, mem, prepVars, recVars, encVars, raceVars>>

EncShipNothing ==
  /\ At("enc", "ship")
  /\ ShipNothing("enc", "test")

EncShipTake ==
  /\ At("enc", "ship")
  /\ ShipTake("enc")
  /\ Goto("enc", "length")

EncShipWrite == ShipLength("enc") \/ ShipData("enc") \/ ShipWrite("enc", "processed")

(* *processed = m_pSndbuf->used: a third load, for a count that is only    *)
(* reset, never used, so that it counts as no use of the wrong buffer.     *)
EncProcessed ==
  /\ At("enc", "processed")
  /\ m_pSndbuf # 0
  /\ Goto("enc", "test")
  /\ UNCHANGED <<m_pSndbuf, queues, mem, prepVars, recVars, encVars, raceVars>>

Enc ==
  \/ EncTest \/ EncShipNothing \/ EncShipTake \/ EncShipWrite \/ EncProcessed
  \/ NullUsed("enc", {"length", "processed"})

-----------------------------------------------------------------------------
(* start *)

(* Mutant: start does not wait for the first second of buffers. *)
RecOpenAtOnce ==
  /\ At("rec", "wait")
  /\ pc' = [pc EXCEPT !["rec"] = "take", !["enc"] = "test"]
  /\ UNCHANGED <<m_pSndbuf, queues, mem, prepVars, recVars, encVars, raceVars>>

(* The wait for m_binitialized; then the encoder is started, the card      *)
(* opened and set up, the header written and the encode thread created.    *)
RecOpen ==
  /\ At("rec", "wait")
  /\ m_binitialized
  /\ pc' = [pc EXCEPT !["rec"] = "take", !["enc"] = "test"]
  /\ UNCHANGED <<m_pSndbuf, queues, mem, prepVars, recVars, encVars, raceVars>>

(* popen, open or an ioctl fails: start returns 1 and main spins.          *)
RecOpenFails ==
  /\ At("rec", "wait")
  /\ m_binitialized
  /\ Goto("rec", "failed")
  /\ UNCHANGED <<m_pSndbuf, queues, mem, prepVars, recVars, encVars, raceVars>>

(* The lock, and m_pSndbuf = m_inputBuffers[0]: the slot of an empty queue *)
(* was never stored to, here it holds zero.                                *)
RecTake ==
  /\ At("rec", "take")
  /\ reads < MaxReads
  /\ ~m_inputBuffersLock
  /\ ~Inside
  /\ m_inputBuffersLock' = TRUE
  /\ Assign("rec", IF m_inputBuffers = << >> THEN 0 ELSE Head(m_inputBuffers))
  /\ reads' = reads + 1
  /\ Goto("rec", "look")
  /\ UNCHANGED <<m_inputBuffers, m_fullBuffers, mem, prepVars, dst, bytesRead,
                 captured, m_doneRecording, encVars, raced>>

(* Here it holds something else; or prep is in its own section, having     *)
(* lost the lock to the second unlock.                                     *)
RecTakeWild ==
  /\ At("rec", "take")
  /\ reads < MaxReads
  /\ ~m_inputBuffersLock
  /\ m_inputBuffers = << >> \/ Inside
  /\ Crash

(* if(!m_pSndbuf), another load: not NULL, so the queue is popped.         *)
RecPop ==
  /\ At("rec", "look")
  /\ m_pSndbuf # 0
  /\ m_inputBuffers # << >>
  /\ Use("rec")
  /\ m_inputBuffers' = Tail(m_inputBuffers)
  /\ m_inputBuffersLock' = FALSE
  /\ Goto("rec", "call")
  /\ UNCHANGED <<m_fullBuffers, mem, prepVars, recVars, encVars>>

(* pop_front of an empty queue. *)
RecPopEmpty ==
  /\ At("rec", "look")
  /\ m_pSndbuf # 0
  /\ m_inputBuffers = << >>
  /\ Crash

(* NULL: the lock is released ... *)
RecNull ==
  /\ At("rec", "look")
  /\ m_pSndbuf = 0
  /\ Use("rec")
  /\ m_inputBuffersLock' = FALSE
  /\ Goto("rec", "new")
  /\ UNCHANGED <<m_inputBuffers, m_fullBuffers, mem, prepVars, recVars, encVars>>

(* ... m_pSndbuf = new SndBuffer ... *)
RecNew ==
  /\ At("rec", "new")
  /\ mem' = Append(mem, NewBuffer)
  /\ Assign("rec", Len(mem) + 1)
  /\ Goto("rec", "zero")
  /\ UNCHANGED <<queues, prepVars, recVars, encVars, raced>>

(* ... m_pSndbuf->used = 0 ... *)
RecZero ==
  /\ At("rec", "zero")
  /\ Use("rec")
  /\ mem' = [mem EXCEPT ![m_pSndbuf].used = 0]
  /\ Goto("rec", "unlock")
  /\ UNCHANGED <<queues, prepVars, recVars, encVars>>

(* ... and the lock is released again, be it prep's. *)
RecUnlock ==
  /\ At("rec", "unlock")
  /\ m_inputBuffersLock' = FALSE
  /\ Goto("rec", "call")
  /\ UNCHANGED <<m_pSndbuf, m_inputBuffers, m_fullBuffers, mem, prepVars, recVars,
                 encVars, raceVars>>

(* The arguments of read(): the buffer it will fill. *)
RecReadCall ==
  /\ At("rec", "call")
  /\ Use("rec")
  /\ dst' = m_pSndbuf
  /\ Goto("rec", "read")
  /\ UNCHANGED <<queues, mem, prepVars, bytesRead, reads, captured,
                 m_doneRecording, encVars>>

(* read() returns n bytes of the next chunk ... *)
RecReadReturn ==
  /\ At("rec", "read")
  /\ \E n \in 1..BUFFER_SIZE :
       mem' = [mem EXCEPT ![dst] = [chunk |-> reads, used |-> n]]
  /\ captured' = Append(captured, reads)
  /\ Goto("rec", "count")
  /\ UNCHANGED <<m_pSndbuf, queues, prepVars, dst, bytesRead, reads,
                 m_doneRecording, encVars, raceVars>>

(* ... or -1, stored in an unsigned field. *)
RecReadFails ==
  /\ At("rec", "read")
  /\ mem' = [mem EXCEPT ![dst].used = ULong - 1]
  /\ Goto("rec", "count")
  /\ UNCHANGED <<m_pSndbuf, queues, prepVars, recVars, encVars, raceVars>>

(* bytesRead += m_pSndbuf->used *)
RecCount ==
  /\ At("rec", "count")
  /\ Use("rec")
  /\ bytesRead' = (bytesRead + mem[m_pSndbuf].used) % ULong
  /\ Goto("rec", "push")
  /\ UNCHANGED <<queues, mem, prepVars, dst, reads, captured, m_doneRecording,
                 encVars>>

RecPush ==
  /\ At("rec", "push")
  /\ Use("rec")
  /\ m_fullBuffers' = Append(m_fullBuffers, m_pSndbuf)
  /\ Goto("rec", IF bytesRead > Requested THEN "stop" ELSE "take")
  /\ UNCHANGED <<m_inputBuffers, m_inputBuffersLock, mem, prepVars, recVars,
                 encVars>>

(* Mutant: the encode thread is never told. *)
RecStopSilent ==
  /\ At("rec", "stop")
  /\ Goto("rec", "join")
  /\ UNCHANGED <<m_pSndbuf, queues, mem, prepVars, recVars, encVars, raceVars>>

RecStop ==
  /\ At("rec", "stop")
  /\ m_doneRecording' = TRUE
  /\ Goto("rec", "join")
  /\ UNCHANGED <<m_pSndbuf, queues, mem, prepVars, dst, bytesRead, reads,
                 captured, encVars, raceVars>>

(* Mutant: the pipe is closed as soon as the encode thread has exited. *)
RecJoinCloses ==
  /\ At("rec", "join")
  /\ At("enc", "exited")
  /\ Goto("rec", "pclose")
  /\ UNCHANGED <<m_pSndbuf, queues, mem, prepVars, recVars, encVars, raceVars>>

RecJoin ==
  /\ At("rec", "join")
  /\ At("enc", "exited")
  /\ Goto("rec", "drain")
  /\ UNCHANGED <<m_pSndbuf, queues, mem, prepVars, recVars, encVars, raceVars>>

(* while(shipToEncoder(NULL)) ; *)
RecDrainNothing ==
  /\ At("rec", "drain")
  /\ ShipNothing("rec", "pclose")

RecDrainTake ==
  /\ At("rec", "drain")
  /\ ShipTake("rec")
  /\ Goto("rec", "length")

RecDrainWrite ==
  \/ ShipLength("rec")
  \/ ShipData("rec")
  \/ ShipWrite("rec", IF lastSize["rec"] # 0 THEN "drain" ELSE "pclose")

RecClose ==
  /\ At("rec", "pclose")
  /\ Goto("rec", "closed")
  /\ UNCHANGED <<m_pSndbuf, queues, mem, prepVars, recVars, encVars, raceVars>>

Rec ==
  \/ RecOpen \/ RecOpenFails
  \/ RecTake \/ RecTakeWild \/ RecPop \/ RecPopEmpty
  \/ RecNull \/ RecNew \/ RecZero \/ RecUnlock
  \/ RecReadCall \/ RecReadReturn \/ RecReadFails \/ RecCount
  \/ RecPush \/ RecStop \/ RecJoin
  \/ RecDrainNothing \/ RecDrainTake \/ RecDrainWrite \/ RecClose

(* What an undefined program does next is not followed. *)
Undefined ==
  /\ At("rec", "undefined")
  /\ UNCHANGED vars

Next == Prep \/ Enc \/ Rec \/ Undefined

Spec == Init /\ [][Next]_vars

(* Every thread is scheduled: each loop without work calls sched_yield,    *)
(* and the mutexes are held for a few instructions.                        *)
Fairness == WF_vars(Prep) /\ WF_vars(Enc) /\ WF_vars(Rec)

FairSpec == Spec /\ Fairness

-----------------------------------------------------------------------------
(* Properties *)

Buffers == 1..Len(mem)

SndBuffer == [chunk : 0..reads, used : 0..(ULong - 1)]

TypeOK ==
  /\ pc \in [Threads -> PrepPlaces \cup RecPlaces \cup EncPlaces]
  /\ pc["prep"] \in PrepPlaces
  /\ pc["rec"] \in RecPlaces
  /\ pc["enc"] \in EncPlaces
  /\ m_pSndbuf \in Buffers \cup {0}
  /\ m_inputBuffers \in Seq(Buffers \cup {0})
  /\ m_fullBuffers \in Seq(Buffers)
  /\ m_inputBuffersLock \in BOOLEAN
  /\ m_binitialized \in BOOLEAN
  /\ m_doneRecording \in BOOLEAN
  /\ mem \in Seq(SndBuffer)
  /\ i \in 0..OneSecond
  /\ sz \in Nat
  /\ dst \in Buffers \cup {0}
  /\ bytesRead \in 0..(ULong - 1)
  /\ lastSize \in [{"rec", "enc"} -> Nat]
  /\ out \in [len : 0..(ULong - 1), src : Buffers \cup {0}]
  /\ reads \in 0..MaxReads
  /\ captured \in Seq(1..MaxReads)
  /\ written \in Seq(0..MaxReads)
  /\ setter \in Threads
  /\ raced \in BOOLEAN

(* The queue of empty buffers never holds more than one refill on top of   *)
(* the threshold at which prepareBuffers refills it, however the threads   *)
(* are interleaved and whichever buffers the race on m_pSndbuf pushes.     *)
InputBounded == Len(m_inputBuffers) <= MIN_BUFFERS + OneSecond

(* "Prepare enough input buffers for one second" (line 258): recording     *)
(* starts only once that many are queued, so in its first OneSecond        *)
(* iterations the loop never indexes an empty queue, even if the supply    *)
(* thread is not scheduled again.                                          *)
FirstSecondCovered ==
  At("rec", "take") /\ reads < OneSecond => m_inputBuffers # << >>

(* When start closes the pipe no buffer is left in the queue, although the *)
(* encode thread may have decided to exit on a queue length it read before *)
(* the last buffer was pushed.                                             *)
NothingLeftQueued == At("rec", "closed") => m_fullBuffers = << >>

(* Once the recording loop is left the encoder thread exits, start drains  *)
(* what remains and closes the pipe.                                       *)
StopLeadsToClosed == At("rec", "stop") ~> At("rec", "closed")

(* As long as no thread uses a pointer another one has assigned to         *)
(* m_pSndbuf, the recorder keeps the promise of Capture: the race on that  *)
(* member is the only way sound is lost, repeated or reordered.            *)
RaceFreeSpec == Init /\ [][Next /\ ~raced']_vars

Pipeline == INSTANCE Capture WITH
  Chunks <- 1..MaxReads,
  delivered <- written,
  closed <- At("rec", "closed")

PipelineSpec == Pipeline!Spec

(* "Do NOT exit until output is written" (line 417): everything read from  *)
(* the card has been written when the pipe is closed.                      *)
OutputWritten ==
  At("rec", "closed") =>
    \A k \in DOMAIN captured : \E w \in DOMAIN written : written[w] = captured[k]
=============================================================================
