------------------------------ MODULE KBufPool ------------------------------
(***************************************************************************)
(* One receive FIFO of the endpoint driver: the buffer pool of kfifo_buf.c *)
(* and kbuf_utils.c, the work handler that fills buffers (put_dataBuf,     *)
(* put_cmdBuf), and the threads of the one application that drain them     *)
(* through the DEQUE, QUE and RESET ioctls.                                *)
(*                                                                         *)
(* A buffer is its index.  Its identifier travels through two kfifos: from *)
(* emptyQue to the worker, to fullQue, to a reader, and back to emptyQue.  *)
(* One kfifo_put or kfifo_get is one step; everything between two of them  *)
(* interleaves, because CONFIG_BUF_LOCK is not defined and buf_lock is     *)
(* empty.  A busy-waiting OSA_quePut or OSA_queGet is a disabled action.   *)
(***************************************************************************)
EXTENDS Naturals, Sequences, Functions, FiniteSets

CONSTANTS NumBuf,      \* buffers of the FIFO (16 for data, 64 for commands)
          Readers,     \* threads of the receiving application
          FifoKind,    \* "data" drops a frame when full, "cmd" sleeps
          EnClearBuf,  \* config->en_clearBuf of the application
          MaxFrames,   \* bound: frames the RC sends
          MaxKills     \* bound: times the application is killed

ASSUME PoolAssumption ==
  /\ NumBuf \in Nat \ {0}
  /\ FifoKind \in {"data", "cmd"}
  /\ EnClearBuf \in BOOLEAN
  /\ MaxFrames \in Nat
  /\ MaxKills \in Nat

VARIABLES emptyQue, fullQue,  \* the two kfifos, as sequences of buffers
          content,            \* the frame a buffer holds, Partial while filled
          sent,               \* number of the last frame the worker picked up
          wpc, wbuf,          \* the work handler: where it is, buffer in hand
          rpc, rbuf,          \* the same for each reader thread
          session, refill,    \* the application: its life, the reset's counter
          kills,
          clashed             \* history: a reset took the queues from under the worker

workerVars == <<sent, wpc, wbuf>>
readerVars == <<rpc, rbuf>>
sessionVars == <<session, refill, kills, clashed>>
vars == <<emptyQue, fullQue, content, workerVars, readerVars, sessionVars>>

Bufs == 0 .. NumBuf - 1
Partial == 0
Frames == 1 .. MaxFrames
Resetting == {"resetEmpty", "resetFull", "refill"}

HasBuf == wpc \in {"copy", "commit", "undo"}
Holding(r) == rpc[r] = "hold"

\* OSA_bufCreate: every index enters emptyQue, once.
Init == /\ emptyQue = [i \in 1 .. NumBuf |-> i - 1]
        /\ fullQue = <<>>
        /\ content = [b \in Bufs |-> Partial]
        /\ sent = 0
        /\ wpc = "idle" /\ wbuf = 0
        /\ rpc = [r \in Readers |-> "user"]
        /\ rbuf = [r \in Readers |-> 0]
        /\ session = "closed" /\ refill = 0 /\ kills = 0 /\ clashed = FALSE

\* OSA_quePut, OSA_queGet with OSA_TIMEOUT_FOREVER: they spin until they can.
Put(que, b) == Len(que) < NumBuf /\ que' = Append(que, b)
Get(que, b) == que # <<>> /\ b = Head(que) /\ que' = Tail(que)

\* Mutant: no wake_up.
WakeNobody == rpc' = rpc

\* wake_up on the FIFO's wait queue: each sleeper evaluates its condition again.
WakeReaders == rpc' = [r \in Readers |-> IF rpc[r] = "asleep" THEN "wait" ELSE rpc[r]]

-----------------------------------------------------------------------------
(* The work handler, from pciedev_do_work to wake_up.                      *)

WorkerBegin ==
  /\ wpc = "idle"
  /\ sent < MaxFrames
  /\ sent' = sent + 1
  /\ wpc' = "check"
  /\ UNCHANGED <<emptyQue, fullQue, content, wbuf, readerVars, sessionVars>>

WorkerSeesRoom ==
  /\ wpc = "check"
  /\ emptyQue # <<>>
  /\ wpc' = "get"
  /\ UNCHANGED <<emptyQue, fullQue, content, sent, wbuf, readerVars, sessionVars>>

\* put_dataBuf: no free buffer, the frame is dropped (and acknowledged).
WorkerDrop ==
  /\ FifoKind = "data"
  /\ wpc = "check"
  /\ emptyQue = <<>>
  /\ wpc' = "idle"
  /\ WakeReaders
  /\ UNCHANGED <<emptyQue, fullQue, content, sent, wbuf, rbuf, sessionVars>>

\* put_cmdBuf: wait_event until the FIFO is not full.
WorkerSleep ==
  /\ FifoKind = "cmd"
  /\ wpc = "check"
  /\ emptyQue = <<>>
  /\ wpc' = "asleep"
  /\ UNCHANGED <<emptyQue, fullQue, content, sent, wbuf, readerVars, sessionVars>>

\* pcie_buf_getEmtpy, and the channel or size written at the buffer's start.
WorkerGetEmpty ==
  /\ wpc = "get"
  /\ Get(emptyQue, wbuf')
  /\ content' = [content EXCEPT ![wbuf'] = Partial]
  /\ wpc' = "copy"
  /\ UNCHANGED <<fullQue, sent, readerVars, sessionVars>>

\* The DMA (data) or memcpy (command) is complete.
WorkerCopied ==
  /\ wpc = "copy"
  /\ content' = [content EXCEPT ![wbuf] = sent]
  /\ wpc' = "commit"
  /\ UNCHANGED <<emptyQue, fullQue, sent, wbuf, readerVars, sessionVars>>

\* Mutant: the error return forgets the buffer.
WorkerDmaErrorForgets ==
  /\ FifoKind = "data"
  /\ wpc = "copy"
  /\ wpc' = "idle"
  /\ UNCHANGED <<emptyQue, fullQue, content, sent, wbuf, readerVars, sessionVars>>

WorkerDmaError ==
  /\ FifoKind = "data"
  /\ wpc = "copy"
  /\ wpc' = "undo"
  /\ UNCHANGED <<emptyQue, fullQue, content, sent, wbuf, readerVars, sessionVars>>

\* pcie_buf_setFull, the acknowledgement and the wake_up.
WorkerSetFull ==
  /\ wpc = "commit"
  /\ Put(fullQue, wbuf)
  /\ wpc' = "idle"
  /\ WakeReaders
  /\ UNCHANGED <<emptyQue, content, sent, wbuf, rbuf, sessionVars>>

\* Mutant: a failed transfer is handed to the readers.
WorkerUndoToFull ==
  /\ wpc = "undo"
  /\ Put(fullQue, wbuf)
  /\ wpc' = "idle"
  /\ WakeReaders
  /\ UNCHANGED <<emptyQue, content, sent, wbuf, rbuf, sessionVars>>

\* put_data_err: the buffer goes back to emptyQue.
WorkerUndo ==
  /\ wpc = "undo"
  /\ Put(emptyQue, wbuf)
  /\ wpc' = "idle"
  /\ WakeReaders
  /\ UNCHANGED <<fullQue, content, sent, wbuf, rbuf, sessionVars>>

Worker == \/ WorkerSeesRoom \/ WorkerDrop \/ WorkerSleep \/ WorkerGetEmpty
          \/ WorkerCopied \/ WorkerSetFull \/ WorkerUndo

-----------------------------------------------------------------------------
(* A reader thread: the DEQUE ioctl, the copy in user space, the QUE ioctl. *)

Goto(r, from, to) == rpc[r] = from /\ rpc' = [rpc EXCEPT ![r] = to]

DequeCall(r) ==
  /\ session = "open"
  /\ Goto(r, "user", "wait")
  /\ UNCHANGED <<emptyQue, fullQue, content, workerVars, rbuf, sessionVars>>

DequeSleep(r) ==
  /\ fullQue = <<>>
  /\ Goto(r, "wait", "asleep")
  /\ UNCHANGED <<emptyQue, fullQue, content, workerVars, rbuf, sessionVars>>

DequeSeesFrame(r) ==
  /\ fullQue # <<>>
  /\ Goto(r, "wait", "recheck")
  /\ UNCHANGED <<emptyQue, fullQue, content, workerVars, rbuf, sessionVars>>

\* wait_event_interruptible returns on a signal; its result is not looked at.
DequeSignal(r) ==
  /\ Goto(r, "asleep", "recheck")
  /\ UNCHANGED <<emptyQue, fullQue, content, workerVars, rbuf, sessionVars>>

\* Mutant: no second look after the wait.
DequeNoRecheck(r) ==
  /\ Goto(r, "recheck", "get")
  /\ UNCHANGED <<emptyQue, fullQue, content, workerVars, rbuf, sessionVars>>

\* The second look at the queue: an error return, or on to pcie_buf_getFull.
DequeRecheck(r) ==
  /\ Goto(r, "recheck", IF fullQue = <<>> THEN "user" ELSE "get")
  /\ UNCHANGED <<emptyQue, fullQue, content, workerVars, rbuf, sessionVars>>

\* Mutant: the entry is read and not removed.
DequePeekFull(r) ==
  /\ Goto(r, "get", "hold")
  /\ fullQue # <<>>
  /\ rbuf' = [rbuf EXCEPT ![r] = Head(fullQue)]
  /\ UNCHANGED <<emptyQue, fullQue, content, workerVars, sessionVars>>

DequeGetFull(r) ==
  /\ Goto(r, "get", "hold")
  /\ fullQue # <<>>
  /\ rbuf' = [rbuf EXCEPT ![r] = Head(fullQue)]
  /\ fullQue' = Tail(fullQue)
  /\ UNCHANGED <<emptyQue, content, workerVars, sessionVars>>

\* Mutant: the worker is not woken.
QueBufSilent(r) ==
  /\ Holding(r)
  /\ Put(emptyQue, rbuf[r])
  /\ rpc' = [rpc EXCEPT ![r] = "user"]
  /\ UNCHANGED <<fullQue, content, workerVars, rbuf, sessionVars>>

\* que_dataBuf, que_cmdBuf: the buffer is free again, everybody is woken.
QueBuf(r) ==
  /\ Holding(r)
  /\ Put(emptyQue, rbuf[r])
  /\ rpc' = [t \in Readers |-> IF t = r THEN "user"
                               ELSE IF rpc[t] = "asleep" THEN "wait" ELSE rpc[t]]
  /\ wpc' = IF wpc = "asleep" THEN "check" ELSE wpc
  /\ UNCHANGED <<fullQue, content, sent, wbuf, rbuf, sessionVars>>

Reader(r) == \/ DequeCall(r) \/ DequeSleep(r) \/ DequeSeesFrame(r)
             \/ DequeRecheck(r) \/ DequeGetFull(r) \/ QueBuf(r)

-----------------------------------------------------------------------------
(* The application: pcie_slave_init with its resets, and its sudden end.   *)

Open ==
  /\ session = "closed"
  /\ session' = IF EnClearBuf THEN "resetEmpty" ELSE "open"
  /\ UNCHANGED <<emptyQue, fullQue, content, workerVars, readerVars, refill, kills, clashed>>

\* Mutant: the queue is refilled without being reset.
ResetEmptyQueNot ==
  /\ session = "resetEmpty"
  /\ session' = "resetFull"
  /\ UNCHANGED <<emptyQue, fullQue, content, workerVars, readerVars, refill, kills, clashed>>

\* Nothing looks whether the work handler has a buffer in hand just then: it
\* keeps it, and the refill puts it into emptyQue all the same.
ResetEmptyQue ==
  /\ session = "resetEmpty"
  /\ emptyQue' = <<>>
  /\ session' = "resetFull"
  /\ clashed' = (clashed \/ HasBuf)
  /\ UNCHANGED <<fullQue, content, workerVars, readerVars, refill, kills>>

ResetFullQue ==
  /\ session = "resetFull"
  /\ fullQue' = <<>>
  /\ refill' = 0
  /\ session' = "refill"
  /\ UNCHANGED <<emptyQue, content, workerVars, readerVars, kills, clashed>>

\* The loop of OSA_bufReset.  pcie_buf_reset wakes nobody.
RefillPut ==
  /\ session = "refill"
  /\ refill < NumBuf
  /\ Put(emptyQue, refill)
  /\ refill' = refill + 1
  /\ UNCHANGED <<fullQue, content, workerVars, readerVars, session, kills, clashed>>

RefillDone ==
  /\ session = "refill"
  /\ refill = NumBuf
  /\ session' = "open"
  /\ UNCHANGED <<emptyQue, fullQue, content, workerVars, readerVars, refill, kills, clashed>>

\* The process dies in user space or asleep in DEQUE.  Nothing returns the
\* buffers it holds: close() does not look at them.
Kill ==
  /\ session = "open"
  /\ kills < MaxKills
  /\ \A r \in Readers : rpc[r] \in {"user", "wait", "asleep", "hold"}
  /\ rpc' = [r \in Readers |-> "user"]
  /\ session' = "closed"
  /\ kills' = kills + 1
  /\ UNCHANGED <<emptyQue, fullQue, content, workerVars, rbuf, refill, clashed>>

Application == Open \/ ResetEmptyQue \/ ResetFullQue \/ RefillPut \/ RefillDone

-----------------------------------------------------------------------------
Next == \/ WorkerBegin \/ Worker \/ WorkerDmaError
        \/ \E r \in Readers : Reader(r) \/ DequeSignal(r)
        \/ Application \/ Kill

Spec == Init /\ [][Next]_vars

\* The scheduler runs every runnable thread, and the application, as every
\* receiver in the repository does, opens the device and calls receive in a
\* loop.  Frames, signals and kills are never forced.
FairSpec == /\ Spec
            /\ WF_vars(Worker)
            /\ WF_vars(Application)
            /\ \A r \in Readers : WF_vars(Reader(r))

-----------------------------------------------------------------------------
(* Properties.                                                             *)

TypeOK ==
  /\ emptyQue \in Seq(Bufs)
  /\ fullQue \in Seq(Bufs)
  /\ content \in [Bufs -> 0 .. MaxFrames]
  /\ sent \in 0 .. MaxFrames
  /\ wpc \in {"idle", "check", "asleep", "get", "copy", "commit", "undo"}
  /\ wbuf \in Bufs
  /\ rpc \in [Readers -> {"user", "wait", "asleep", "recheck", "get", "hold"}]
  /\ rbuf \in [Readers -> Bufs]
  /\ session \in {"closed", "open"} \cup Resetting
  /\ refill \in 0 .. NumBuf
  /\ kills \in 0 .. MaxKills
  /\ clashed \in BOOLEAN

Queued == Range(emptyQue) \cup Range(fullQue)
Held == {rbuf[r] : r \in {t \in Readers : Holding(t)}}
Owned == Queued \cup Held \cup (IF HasBuf THEN {wbuf} ELSE {})

\* A buffer has at most one place: one slot of one of the queues, the worker,
\* or one reader.  The ownership discipline of the pool has no lock behind it.
Exclusive ==
  /\ IsInjective(emptyQue) /\ IsInjective(fullQue)
  /\ Range(emptyQue) \cap Range(fullQue) = {}
  /\ HasBuf => wbuf \notin Queued
  /\ \A r \in Readers : Holding(r) =>
        /\ rbuf[r] \notin Queued
        /\ HasBuf => rbuf[r] # wbuf
        /\ \A t \in Readers \ {r} : Holding(t) => rbuf[t] # rbuf[r]

\* The one way to two owners is a reset of emptyQue that finds a buffer in the
\* worker's hand.  The RC may send, and the worker run, at every other moment of
\* a start; two readers, DMA errors, signals and kills never do harm.
OneOwner == ~clashed => Exclusive

\* What makes OneOwner inductive: there is no reader before the application is
\* up, and whatever the worker has, or has handed on, while the queues are
\* rebuilt comes from the part that is already rebuilt.
ResetInv ==
  /\ session # "open" => \A r \in Readers : rpc[r] = "user"
  /\ ~clashed /\ session = "resetFull" => emptyQue = <<>> /\ ~HasBuf
  /\ ~clashed /\ session = "refill" => \A b \in Owned : b < refill

PoolInv == TypeOK /\ OneOwner /\ ResetInv

\* An application that is up has the whole pool at its service, except for
\* what earlier instances died with; a start that clears recovers those too.
LeakBounded ==
  ~clashed /\ session = "open" =>
    Cardinality(Bufs \ Owned) <= IF EnClearBuf THEN 0 ELSE kills * Cardinality(Readers)

\* Whoever is about to put finds room, and the worker finds the free buffer it
\* saw: the OSA_TIMEOUT_FOREVER loops, which spin inside the kernel, never do.
\* The exception is a worker that saw room just before a reset: it spins until
\* the reset has put the first buffer back.
PoolNeverSpins == ~clashed =>
  /\ wpc = "get" => emptyQue # <<>> \/ session = "resetFull" \/ (session = "refill" /\ refill = 0)
  /\ wpc = "commit" => Len(fullQue) < NumBuf
  /\ wpc = "undo" \/ Held # {} \/ (session = "refill" /\ refill < NumBuf)
       => Len(emptyQue) < NumBuf

\* A reader that saw a frame finds it.  Needs a single reader thread.
ReaderNeverSpins == \A r \in Readers : rpc[r] = "get" => fullQue # <<>>

\* What the buffers hold: a frame in whatever the readers can reach, the frame
\* picked up last in the worker's hand once the copy is complete.
ContentInv ==
  /\ \A i \in DOMAIN fullQue : content[fullQue[i]] # Partial
  /\ \A r \in Readers : Holding(r) => content[rbuf[r]] # Partial
  /\ wpc = "idle" \/ sent # 0
  /\ wpc = "commit" => content[wbuf] = sent

AbsQueue == [i \in 1 .. Len(fullQue) |-> content[fullQue[i]]]
AbsHand == [r \in Readers |-> IF Holding(r) THEN content[rbuf[r]] ELSE Partial]

\* Readers receive the accepted frames in order, each once and complete, and a
\* frame stays what it was while a reader copies it: the pool is a FrameQueue,
\* for as long as no reset has taken the queues from under the worker.
FQ == INSTANCE FrameQueue
        WITH arrived <- sent, pending <- wpc # "idle", queue <- AbsQueue, inHand <- AbsHand

FrameQueueSpec == FQ!Init /\ [][FQ!Next \/ clashed']_(FQ!fqVars)

\* An accepted frame does not stay in the FIFO for ever, even across kills.
FramesTaken ==
  \A f \in Frames : (\E b \in Range(fullQue) : content[b] = f)
                      ~> clashed \/ (\A b \in Range(fullQue) : content[b] # f)

\* The work handler serves data and commands one after the other: if it does
\* not come back from one FIFO the endpoint receives nothing any more.  It does
\* come back, unless killed applications took every buffer with them.  For a
\* start that does not clear: RESET_CMDQUE rebuilds the queue the worker sleeps
\* on and does not wake it.
WorkerFinishes == ~EnClearBuf => (wpc # "idle" ~> wpc = "idle" \/ Owned = {})
=============================================================================
