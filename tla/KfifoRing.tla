----------------------------- MODULE KfifoRing -----------------------------
(***************************************************************************)
(* The first version of the buffer queues, kernel_fifo/kfifo_buf.c, under  *)
(* its test module, whose two kernel threads pass numbered lines through   *)
(* them: thread_wr takes a free buffer, writes a line and queues it,       *)
(* thread_rd takes it, prints it and frees the buffer.                     *)
(*                                                                         *)
(* Here a queue is what it is: a ring of bytes between two free-running    *)
(* counters, without a lock, and a wait queue.  The threads interleave at  *)
(* every access to them.  KBufPool, for the driver the queues went into,   *)
(* takes a call for one step; what makes that right is shown here.         *)
(***************************************************************************)
EXTENDS Naturals, Sequences, FiniteSets

CONSTANTS Size,      \* buffers, and room of each ring: 8 in the test
          Wrap,      \* the counters are modulo this: 2^32
          MaxLines   \* bound: lines written

ASSUME RingAssumption ==
  /\ Size \in Nat \ {0} /\ Wrap \in Nat /\ MaxLines \in Nat
  /\ Wrap % Size = 0 /\ Wrap > Size

Threads == {"wr", "rd"}
Queues == {"empty", "full"}
Buffers == 0 .. Size - 1
Steps == {"top", "check", "prepare", "test", "sleep", "access", "move", "wake", "use", "ended"}

VARIABLES
  in, out, buf,     \* of each ring: the counters and the bytes
  wq,               \* the threads on each wait queue
  pc, op, id,       \* of each thread: place, call it is in, its bufid
  line, count,      \* the line in each buffer; lines written
  exiting, xpc      \* kthread_exit; place of test_exit

ringVars == <<in, out, buf>>
exitVars == <<exiting, xpc>>
vars == <<ringVars, wq, pc, op, id, line, count, exitVars>>

\* OSA_bufCreate has put all buffers into emptyQue.
Init ==
  /\ in = [q \in Queues |-> IF q = "empty" THEN Size ELSE 0]
  /\ out = [q \in Queues |-> 0]
  /\ buf = [q \in Queues |-> [i \in Buffers |-> IF q = "empty" THEN i ELSE 0]]
  /\ wq = [q \in Queues |-> {}]
  /\ pc = [t \in Threads |-> "top"] /\ op = [t \in Threads |-> "get"]
  /\ id = [t \in Threads |-> 0]
  /\ line = [b \in Buffers |-> 0] /\ count = 0
  /\ exiting = FALSE /\ xpc = "loaded"

At(t, step) == pc[t] = step
Goto(t, step) == pc' = [pc EXCEPT ![t] = step]

\* The ring a thread is at: buffers go from emptyQue to thread_wr to fullQue
\* to thread_rd and back.
Q(t) == IF (t = "wr") = (op[t] = "get") THEN "empty" ELSE "full"

Used(q) == (in[q] + Wrap - out[q]) % Wrap
Blocked(t) == IF op[t] = "get" THEN Used(Q(t)) = 0 ELSE Used(Q(t)) >= Size

-----------------------------------------------------------------------------
(* OSA_queGet and OSA_quePut, with OSA_TIMEOUT_FOREVER.                    *)

\* kfifo_is_empty or kfifo_is_full
Check(t) ==
  /\ At(t, "check")
  /\ Goto(t, IF Blocked(t) THEN "prepare" ELSE "access")
  /\ UNCHANGED <<ringVars, wq, op, id, line, count, exitVars>>

\* Mutant: on the wait queue without a second look at the ring.
PrepareOnly(t) ==
  /\ At(t, "prepare")
  /\ wq' = [wq EXCEPT ![Q(t)] = @ \cup {t}]
  /\ Goto(t, "sleep")
  /\ UNCHANGED <<ringVars, op, id, line, count, exitVars>>

\* wait_event_interruptible: onto the wait queue, then the condition, then sleep,
\* and after that from the start.
Prepare(t) ==
  /\ At(t, "prepare")
  /\ wq' = [wq EXCEPT ![Q(t)] = @ \cup {t}]
  /\ Goto(t, "test")
  /\ UNCHANGED <<ringVars, op, id, line, count, exitVars>>

Test(t) ==
  /\ At(t, "test")
  /\ \/ /\ Blocked(t)
        /\ Goto(t, "sleep")
        /\ UNCHANGED wq
     \/ /\ ~Blocked(t)
        /\ Goto(t, "check")
        /\ wq' = [wq EXCEPT ![Q(t)] = @ \ {t}]
  /\ UNCHANGED <<ringVars, op, id, line, count, exitVars>>

\* Mutant: who is woken takes what it was woken for.
ResumeAccess(t) ==
  /\ At(t, "sleep")
  /\ t \notin wq[Q(t)]
  /\ Goto(t, "access")
  /\ UNCHANGED <<ringVars, wq, op, id, line, count, exitVars>>

Resume(t) ==
  /\ At(t, "sleep")
  /\ t \notin wq[Q(t)]
  /\ Goto(t, "prepare")
  /\ UNCHANGED <<ringVars, wq, op, id, line, count, exitVars>>

\* Mutant: the byte goes one place too far.
AccessFar(t) ==
  /\ At(t, "access")
  /\ \/ /\ op[t] = "get"
        /\ id' = [id EXCEPT ![t] = buf[Q(t)][out[Q(t)] % Size]]
        /\ UNCHANGED buf
     \/ /\ op[t] = "put"
        /\ buf' = [buf EXCEPT ![Q(t)][(in[Q(t)] + 1) % Size] = id[t]]
        /\ UNCHANGED id
  /\ Goto(t, "move")
  /\ UNCHANGED <<in, out, wq, op, line, count, exitVars>>

\* kfifo_get, kfifo_put: the byte first, the counter after it.
Access(t) ==
  /\ At(t, "access")
  /\ \/ /\ op[t] = "get"
        /\ id' = [id EXCEPT ![t] = buf[Q(t)][out[Q(t)] % Size]]
        /\ UNCHANGED buf
     \/ /\ op[t] = "put"
        /\ buf' = [buf EXCEPT ![Q(t)][in[Q(t)] % Size] = id[t]]
        /\ UNCHANGED id
  /\ Goto(t, "move")
  /\ UNCHANGED <<in, out, wq, op, line, count, exitVars>>

\* Mutant: the index and not the counter is kept, full and empty look alike.
MoveIndex(t) ==
  /\ At(t, "move")
  /\ \/ /\ op[t] = "get" /\ out' = [out EXCEPT ![Q(t)] = (@ + 1) % Size] /\ UNCHANGED in
     \/ /\ op[t] = "put" /\ in' = [in EXCEPT ![Q(t)] = (@ + 1) % Size] /\ UNCHANGED out
  /\ Goto(t, "wake")
  /\ UNCHANGED <<buf, wq, op, id, line, count, exitVars>>

Move(t) ==
  /\ At(t, "move")
  /\ \/ /\ op[t] = "get" /\ out' = [out EXCEPT ![Q(t)] = (@ + 1) % Wrap] /\ UNCHANGED in
     \/ /\ op[t] = "put" /\ in' = [in EXCEPT ![Q(t)] = (@ + 1) % Wrap] /\ UNCHANGED out
  /\ Goto(t, "wake")
  /\ UNCHANGED <<buf, wq, op, id, line, count, exitVars>>

\* wake_up, and back to the thread, which ends its round with msleep.
Wake(t) ==
  /\ At(t, "wake")
  /\ wq' = [wq EXCEPT ![Q(t)] = {}]
  /\ Goto(t, IF op[t] = "get" THEN "use" ELSE "top")
  /\ UNCHANGED <<ringVars, op, id, line, count, exitVars>>

-----------------------------------------------------------------------------
(* thread_wr, thread_rd.                                                   *)

\* while(!kthread_exit)
Top(t) ==
  /\ At(t, "top")
  /\ Goto(t, IF exiting THEN "ended" ELSE "check")
  /\ op' = [op EXCEPT ![t] = "get"]
  /\ UNCHANGED <<ringVars, wq, id, line, count, exitVars>>

\* sprintf, then OSA_bufPutFull
Fill ==
  /\ At("wr", "use")
  /\ count < MaxLines
  /\ count' = count + 1
  /\ line' = [line EXCEPT ![id["wr"]] = count']
  /\ op' = [op EXCEPT !["wr"] = "put"]
  /\ Goto("wr", "check")
  /\ UNCHANGED <<ringVars, wq, id, exitVars>>

\* printk, then OSA_bufPutEmpty
Show ==
  /\ At("rd", "use")
  /\ op' = [op EXCEPT !["rd"] = "put"]
  /\ Goto("rd", "check")
  /\ UNCHANGED <<ringVars, wq, id, line, count, exitVars>>

Step(t) == Check(t) \/ Prepare(t) \/ Test(t) \/ Resume(t) \/ Access(t) \/ Move(t) \/ Wake(t) \/ Top(t)

-----------------------------------------------------------------------------
(* test_exit.                                                              *)

\* kthread_stop wakes the thread, which looks at its condition and sleeps again,
\* and waits for its end.  Of a thread that has ended nothing is left: the
\* call may find it ended, or break.
KthreadStop(t, waiting, after) ==
  /\ wq' = [q \in Queues |-> wq[q] \ {t}]
  /\ \/ ~At(t, "ended") /\ xpc' = waiting
     \/ At(t, "ended") /\ xpc' \in {after, "broken"}

SetExit ==
  /\ xpc = "loaded"
  /\ exiting' = TRUE
  /\ xpc' = "stopWr"
  /\ UNCHANGED <<ringVars, wq, pc, op, id, line, count>>

StopWr ==
  /\ xpc = "stopWr"
  /\ KthreadStop("wr", "waitWr", "stopRd")
  /\ UNCHANGED <<ringVars, pc, op, id, line, count, exiting>>

WrEnded ==
  /\ xpc = "waitWr" /\ At("wr", "ended")
  /\ xpc' = "stopRd"
  /\ UNCHANGED <<ringVars, wq, pc, op, id, line, count, exiting>>

StopRd ==
  /\ xpc = "stopRd"
  /\ KthreadStop("rd", "waitRd", "unloaded")
  /\ UNCHANGED <<ringVars, pc, op, id, line, count, exiting>>

RdEnded ==
  /\ xpc = "waitRd" /\ At("rd", "ended")
  /\ xpc' = "unloaded"
  /\ UNCHANGED <<ringVars, wq, pc, op, id, line, count, exiting>>

Exit == StopWr \/ WrEnded \/ StopRd \/ RdEnded

-----------------------------------------------------------------------------
Next == Fill \/ Show \/ SetExit \/ Exit \/ \E t \in Threads : Step(t)

Spec == Init /\ [][Next]_vars

\* Two kernel threads; the module need not be removed.
FairSpec == /\ Spec /\ WF_vars(Exit)
            /\ WF_vars(Fill \/ Step("wr")) /\ WF_vars(Show \/ Step("rd"))

-----------------------------------------------------------------------------
(* Properties.                                                             *)

TypeOK ==
  /\ in \in [Queues -> 0 .. Wrap - 1] /\ out \in [Queues -> 0 .. Wrap - 1]
  /\ buf \in [Queues -> [Buffers -> Buffers]]
  /\ wq \in [Queues -> SUBSET Threads]
  /\ pc \in [Threads -> Steps] /\ op \in [Threads -> {"get", "put"}]
  /\ id \in [Threads -> Buffers]
  /\ line \in [Buffers -> 0 .. MaxLines] /\ count \in 0 .. MaxLines
  /\ exiting \in BOOLEAN
  /\ xpc \in {"loaded", "stopWr", "waitWr", "stopRd", "waitRd", "unloaded", "broken"}

Content(q) == [k \in 1 .. Used(q) |-> buf[q][(out[q] + k - 1) % Size]]

\* A thread has its buffer from the step that takes it out of a ring to the one
\* that puts it into the other.
Holds(t) == \/ op[t] = "get" /\ pc[t] \in {"wake", "use"}
            \/ op[t] = "put" /\ pc[t] \notin {"wake", "top", "ended"}

\* A thread that has looked at a ring without a lock finds it as it saw it when
\* it uses it: kfifo_put and kfifo_get do not fail after the test.
StillRoom == \A t \in Threads : pc[t] \in {"access", "move"} => ~Blocked(t)

\* No buffer is lost and none is in two places, in the rings or in hands, and the
\* rings never hold more than they have room for, wherever the counters wrap.
Places(b) ==
  {p \in Queues \X (1 .. Size) : p[2] <= Used(p[1]) /\ Content(p[1])[p[2]] = b}
  \cup {<<t, 0>> : t \in {x \in Threads : Holds(x) /\ id[x] = b}}

EachOnce == /\ \A q \in Queues : Used(q) <= Size
            /\ \A b \in Buffers : Cardinality(Places(b)) = 1

AbsPending == op["wr"] = "put" /\ Holds("wr")
AbsQueue == [k \in 1 .. Used("full") |-> line[Content("full")[k]]]
AbsHand == [r \in {"rd"} |-> IF Holds("rd") THEN line[id["rd"]] ELSE 0]

\* The lines the reader gets are the lines written, in order and whole.
FQ == INSTANCE FrameQueue WITH
        Readers <- {"rd"}, MaxFrames <- MaxLines,
        arrived <- count, pending <- AbsPending, queue <- AbsQueue, inHand <- AbsHand

FrameQueueSpec == FQ!Spec

\* A thread sleeps only for a buffer that is not there, or the one that brought
\* it is about to wake it; a put never sleeps, since there are no more buffers
\* than a ring has room for; and never do both threads sleep.
Asleep(t) == At(t, "sleep") /\ t \in wq[Q(t)]
AwakeForBuffers ==
  /\ \A t \in Threads : Asleep(t) =>
       /\ op[t] = "get"
       /\ Used(Q(t)) = 0 \/ \E u \in Threads : At(u, "wake") /\ Q(u) = Q(t)
  /\ \E t \in Threads : ~Asleep(t)

\* No wake-up is lost: every line queued is taken by the reader unless the
\* module is being removed.
Queued(n) == \E k \in 1 .. Size : k <= Used("full") /\ line[Content("full")[k]] = n
LinesTaken == \A n \in 1 .. MaxLines :
  Queued(n) ~> exiting \/ (Holds("rd") /\ line[id["rd"]] = n)

\* A thread waits for a buffer, and the one that could give it one has ended.
Starved == \/ At("wr", "sleep") /\ At("rd", "ended") /\ Used("empty") = 0
           \/ At("rd", "sleep") /\ At("wr", "ended") /\ Used("full") = 0
           \/ At("wr", "use") /\ count = MaxLines

\* Removing the module ends, but for a thread left waiting for the other: then
\* kthread_stop waits with it for ever.
ExitEnds == exiting ~> xpc \in {"unloaded", "broken"} \/ Starved

\* Not so, and so not in a run: that removing the module always ends.
ExitReturns == exiting ~> xpc \in {"unloaded", "broken"} \/ (At("wr", "use") /\ count = MaxLines)
=============================================================================
