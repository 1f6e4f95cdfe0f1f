----------------------------- MODULE NetThreads -----------------------------
(***************************************************************************)
(* The throughput demo pcie_net_test: the RC receives batches of UDP       *)
(* packets and sends each over the link to the endpoints, either from one  *)
(* loop (rc_send_loop) or from one thread per endpoint                     *)
(* (rc_send_loop_multiPthread).  An endpoint counts what it gets between a *)
(* START_SEND_DATA message and an empty one (ep_recv_loop).                *)
(*                                                                         *)
(* The link is what PcieLink shows it to be for one caller at a time: what *)
(* arrives is whole and in order, and a call returns; but an endpoint      *)
(* whose FIFO is full throws the message away and acknowledges it          *)
(* (PcieLink.Drop), and a failed broadcast may have reached some of the    *)
(* endpoints.  A message is its size, 0 for nothing, and whether its first *)
(* byte is START_SEND_DATA.                                                *)
(* The batch is in gTest_params, which main writes and the threads read    *)
(* without a lock; each thread sends from a copy of the buffer made when   *)
(* it started, whose first byte it set to START_SEND_DATA with its first   *)
(* message.                                                                *)
(***************************************************************************)
EXTENDS Naturals, Sequences, FiniteSets

CONSTANTS EPs,       \* the endpoints; thread e sends to endpoint e
          Modes,     \* "threads" (-M), or -t: "each", "all", "one"
          Faults,    \* which of "senderr", "signal" may happen
          FifoSize,  \* buffers of an endpoint's receive FIFO
          MaxLoops   \* bound: batches, the terminator included

ASSUME NetAssumption ==
  /\ EPs \subseteq Nat \ {0} /\ EPs # {} /\ IsFiniteSet(EPs)
  /\ Modes \subseteq {"threads", "each", "all", "one"}
  /\ Faults \subseteq {"senderr", "signal"}
  /\ FifoSize \in Nat \ {0} /\ MaxLoops \in Nat \ {0}

VARIABLES
  mode,                   \* the options the program was started with
  pc,                     \* place of main (0) and of the threads (the EPs)
  dest, rest,             \* rc_send_data: destination, endpoints to come
  size,                   \* size_per_send of each one's parameters
  toWait, toPost,         \* main: semaphores still to wait for, to post
  semRecv, semSend,
  flagged,                \* startSend_flag; of EP_ID_ALL under 0
  mutex,                  \* gSend_mutex: its holder, if any
  testDone, stopping,     \* test_done; main has left its loop
  inbox,                  \* each endpoint's FIFO
  missed,                 \* history: endpoints that threw an empty message away
  epc, tests,             \* ep_recv_loop: place, tests it has finished
  batches, tried,         \* sizes of the batches, and those each thread sent
  skipped, failed         \* an endpoint ignored data; a send failed

semVars == <<toWait, toPost, semRecv, semSend>>
sendVars == <<dest, rest, flagged, mutex>>
epVars == <<epc, tests, skipped>>
doneVars == <<testDone, stopping>>
linkVars == <<inbox, missed>>
vars == <<mode, pc, sendVars, size, semVars, doneVars, linkVars, epVars, batches, tried, failed>>

Main == 0
Procs == EPs \cup {Main}
Sizes == {0, 1}
Messages == [start : BOOLEAN, size : Sizes]
First(S) == {e \in S : \A x \in S : e <= x}

\* memcpy of gTest_params, init_sem, and the threads waiting for their first batch.
Init ==
  /\ mode \in Modes
  /\ pc = [p \in Procs |-> IF p = Main THEN "top" ELSE "wait"]
  /\ dest = [p \in Procs |-> {}] /\ rest = [p \in Procs |-> {}]
  /\ size = [p \in Procs |-> 0]
  /\ toWait = {} /\ toPost = {}
  /\ semRecv = [e \in EPs |-> 0] /\ semSend = [e \in EPs |-> 1]
  /\ flagged = {} /\ mutex = {}
  /\ testDone = FALSE /\ stopping = FALSE
  /\ inbox = [e \in EPs |-> <<>>] /\ missed = {}
  /\ epc = [e \in EPs |-> "outer"] /\ tests = [e \in EPs |-> 0]
  /\ batches = <<>> /\ tried = [e \in EPs |-> <<>>]
  /\ skipped = FALSE /\ failed = FALSE

At(p, place) == pc[p] = place
Goto(p, place) == pc' = [pc EXCEPT ![p] = place]

-----------------------------------------------------------------------------
(* rc_send_data, of main and of the threads.                               *)

\* The first destination, and the ones after it, of to_id 0, of 4 (EP_ID_ALL)
\* and of an endpoint.
BeginSend(p, kind) ==
  /\ Goto(p, "flag")
  /\ \/ /\ kind = "each"
        /\ \E e \in First(EPs) : /\ dest' = [dest EXCEPT ![p] = {e}]
                                 /\ rest' = [rest EXCEPT ![p] = EPs \ {e}]
     \/ /\ kind = "all"
        /\ dest' = [dest EXCEPT ![p] = EPs] /\ UNCHANGED rest
     \/ /\ kind = "one"
        /\ \E e \in IF p = Main THEN First(EPs) ELSE {p} : dest' = [dest EXCEPT ![p] = {e}]
        /\ UNCHANGED rest

\* The index of startSend_flag, which is to_id.
FlagOf(p) == IF p = Main /\ mode \in {"all", "threads"} THEN {Main} ELSE dest[p]

\* Mutant: each message is preceded by START_SEND_DATA only for the first endpoint.
FlagOnce(p) ==
  /\ At(p, "flag")
  /\ flagged' = flagged \cup FlagOf(p)
  /\ Goto(p, IF flagged # {} THEN "lockData" ELSE "lockStart")
  /\ UNCHANGED <<mode, dest, rest, mutex, size, semVars, doneVars, linkVars, epVars, batches, tried, failed>>

\* The flag is set before START_SEND_DATA is sent.
Flag(p) ==
  /\ At(p, "flag")
  /\ flagged' = flagged \cup FlagOf(p)
  /\ Goto(p, IF FlagOf(p) \subseteq flagged THEN "lockData" ELSE "lockStart")
  /\ UNCHANGED <<mode, dest, rest, mutex, size, semVars, doneVars, linkVars, epVars, batches, tried, failed>>

\* OSA_pcieSendDataMutex.
Lock(p) ==
  /\ pc[p] \in {"lockStart", "lockData"}
  /\ mutex = {}
  /\ mutex' = {p}
  /\ Goto(p, IF At(p, "lockStart") THEN "callStart" ELSE "callData")
  /\ UNCHANGED <<mode, dest, rest, flagged, size, semVars, doneVars, linkVars, epVars, batches, tried, failed>>

\* put_dataBuf at the endpoints D: a full FIFO takes nothing, which the sender is
\* told like a success.
Full(e) == Len(inbox[e]) >= FifoSize
Deliver(D, msg) ==
  /\ inbox' = [e \in EPs |-> IF e \in D /\ ~Full(e) THEN Append(inbox[e], msg) ELSE inbox[e]]
  /\ missed' = missed \cup {e \in D : Full(e) /\ msg.size = 0}

\* What the call sends.  A thread's buffer still begins with START_SEND_DATA;
\* main's holds the new batch, which may begin with anything.
StartMsg == [start |-> TRUE, size |-> 1]
DataMsgs(p) ==
  {[start |-> first, size |-> size[p]] :
     first \in IF size[p] = 0 THEN {FALSE} ELSE IF p = Main THEN BOOLEAN ELSE {TRUE}}

\* The endpoints have acknowledged the message.  A call under way when the process
\* exits may still come to that: its request is in endpoint memory.
StartSent(p) ==
  /\ At(p, "callStart")
  /\ Deliver(dest[p], StartMsg)
  /\ mutex' = {}
  /\ Goto(p, "lockData")
  /\ UNCHANGED <<mode, dest, rest, flagged, size, semVars, doneVars, epVars, batches, tried, failed>>

DataSent(p) ==
  /\ At(p, "callData")
  /\ \E msg \in DataMsgs(p) : Deliver(dest[p], msg)
  /\ mutex' = {}
  /\ tried' = IF p = Main THEN tried ELSE [tried EXCEPT ![p] = Append(@, size[p])]
  /\ \/ /\ rest[p] = {}
        /\ Goto(p, "sent")
        /\ UNCHANGED <<dest, rest>>
     \/ \E e \in First(rest[p]) :
          /\ dest' = [dest EXCEPT ![p] = {e}]
          /\ rest' = [rest EXCEPT ![p] = @ \ {e}]
          /\ Goto(p, "flag")
  /\ UNCHANGED <<mode, flagged, size, semVars, doneVars, epVars, batches, failed>>

\* A send that fails may have reached some of its endpoints.  rc_send_data returns
\* -1; its callers print that and go on, main's last call excepted, after which it
\* ends in any case.
SendFails(p) ==
  /\ "senderr" \in Faults
  /\ \/ /\ At(p, "callStart")
        /\ \E D \in SUBSET dest[p] : D # dest[p] /\ Deliver(D, StartMsg)
     \/ /\ At(p, "callData")
        /\ \E D \in SUBSET dest[p], msg \in DataMsgs(p) : D # dest[p] /\ Deliver(D, msg)
  /\ mutex' = {}
  /\ rest' = [rest EXCEPT ![p] = {}]
  /\ Goto(p, "sent")
  /\ failed' = TRUE
  /\ tried' = IF p = Main THEN tried ELSE [tried EXCEPT ![p] = Append(@, size[p])]
  /\ UNCHANGED <<mode, dest, flagged, size, semVars, doneVars, epVars, batches>>

SendStep(p) == Flag(p) \/ Lock(p) \/ StartSent(p) \/ DataSent(p)

-----------------------------------------------------------------------------
(* main: rc_send_loop and rc_send_loop_multiPthread.                       *)

\* while (!params->test_done); after it the stop message, to all endpoints in
\* the version with threads.
Top ==
  /\ At(Main, "top")
  /\ \/ /\ ~testDone
        /\ IF mode = "threads" THEN Goto(Main, "wait") /\ toWait' = EPs
           ELSE Goto(Main, "clear") /\ UNCHANGED toWait
        /\ UNCHANGED <<dest, rest, size, stopping>>
     \/ /\ testDone
        /\ stopping' = TRUE
        /\ size' = [size EXCEPT ![Main] = 0]
        /\ BeginSend(Main, IF mode = "threads" THEN "all" ELSE mode)
        /\ UNCHANGED toWait
  /\ UNCHANGED <<mode, flagged, mutex, toPost, semRecv, semSend, testDone, linkVars, epVars, batches, tried, failed>>

\* Mutant: main waits for one of the threads only.
SemWaitFirst ==
  /\ At(Main, "wait")
  /\ \E e \in First(toWait) :
       /\ semSend[e] > 0
       /\ semSend' = [semSend EXCEPT ![e] = @ - 1]
  /\ toWait' = {}
  /\ Goto(Main, "clear")
  /\ UNCHANGED <<mode, sendVars, size, toPost, semRecv, doneVars, linkVars, epVars, batches, tried, failed>>

SemWait ==
  /\ At(Main, "wait")
  /\ \E e \in First(toWait) :
       /\ semSend[e] > 0
       /\ semSend' = [semSend EXCEPT ![e] = @ - 1]
       /\ toWait' = toWait \ {e}
  /\ Goto(Main, IF toWait' = {} THEN "clear" ELSE "wait")
  /\ UNCHANGED <<mode, sendVars, size, toPost, semRecv, doneVars, linkVars, epVars, batches, tried, failed>>

Clear ==
  /\ At(Main, "clear")
  /\ size' = [size EXCEPT ![Main] = 0]
  /\ Goto(Main, "fill")
  /\ UNCHANGED <<mode, sendVars, semVars, doneVars, linkVars, epVars, batches, tried, failed>>

\* num_udps packets, or fewer when one begins with 0xffffffff.
Fill ==
  /\ At(Main, "fill")
  /\ \E s \in Sizes, last \in BOOLEAN :
       /\ s = 0 => last
       /\ Len(batches) + 1 >= MaxLoops => last
       /\ size' = [size EXCEPT ![Main] = s]
       /\ batches' = Append(batches, s)
       /\ testDone' = (testDone \/ last)
  /\ IF mode = "threads" THEN /\ Goto(Main, "post") /\ toPost' = EPs
                              /\ UNCHANGED <<dest, rest>>
     ELSE BeginSend(Main, mode) /\ UNCHANGED toPost
  /\ UNCHANGED <<mode, flagged, mutex, toWait, semRecv, semSend, stopping, linkVars, epVars, tried, failed>>

SemPost ==
  /\ At(Main, "post")
  /\ \E e \in First(toPost) :
       /\ semRecv' = [semRecv EXCEPT ![e] = @ + 1]
       /\ toPost' = toPost \ {e}
  /\ Goto(Main, IF toPost' = {} THEN "top" ELSE "post")
  /\ UNCHANGED <<mode, sendVars, size, toWait, semSend, doneVars, linkVars, epVars, batches, tried, failed>>

\* After the stop message the threads are cancelled and the process exits.
MainSent ==
  /\ At(Main, "sent")
  /\ Goto(Main, IF stopping THEN "done" ELSE "top")
  /\ UNCHANGED <<mode, sendVars, size, semVars, doneVars, linkVars, epVars, batches, tried, failed>>

MainStep == Top \/ SemWait \/ Clear \/ SemPost \/ MainSent \/ SendStep(Main)

\* signal_handle: SIGQUIT.
Signal ==
  /\ "signal" \in Faults
  /\ ~testDone
  /\ testDone' = TRUE
  /\ UNCHANGED <<mode, pc, sendVars, size, semVars, stopping, linkVars, epVars, batches, tried, failed>>

-----------------------------------------------------------------------------
(* The threads: pthread0, pthread1, pthread2.                              *)

Alive == pc[Main] # "done"

ThreadWait(e) ==
  /\ Alive /\ mode = "threads"
  /\ At(e, "wait") /\ semRecv[e] > 0
  /\ semRecv' = [semRecv EXCEPT ![e] = @ - 1]
  /\ Goto(e, "read")
  /\ UNCHANGED <<mode, sendVars, size, toWait, toPost, semSend, doneVars, linkVars, epVars, batches, tried, failed>>

\* params.size_per_send = gTest_params.size_per_send
ThreadRead(e) ==
  /\ Alive /\ At(e, "read")
  /\ size' = [size EXCEPT ![e] = size[Main]]
  /\ BeginSend(e, "one")
  /\ UNCHANGED <<mode, flagged, mutex, semVars, doneVars, linkVars, epVars, batches, tried, failed>>

\* Mutant: an error ends the thread's turn without the post.
ThreadPostNot(e) ==
  /\ Alive /\ At(e, "sent")
  /\ semSend' = IF failed THEN semSend ELSE [semSend EXCEPT ![e] = @ + 1]
  /\ Goto(e, "wait")
  /\ UNCHANGED <<mode, sendVars, size, toWait, toPost, semRecv, doneVars, linkVars, epVars, batches, tried, failed>>

ThreadPost(e) ==
  /\ Alive /\ At(e, "sent")
  /\ semSend' = [semSend EXCEPT ![e] = @ + 1]
  /\ Goto(e, "wait")
  /\ UNCHANGED <<mode, sendVars, size, toWait, toPost, semRecv, doneVars, linkVars, epVars, batches, tried, failed>>

ThreadStep(e) == \/ ThreadWait(e) \/ ThreadRead(e) \/ ThreadPost(e)
                 \/ (Alive /\ (Flag(e) \/ Lock(e))) \/ StartSent(e) \/ DataSent(e)

-----------------------------------------------------------------------------
(* An endpoint: ep_recv_loop.                                              *)

\* Mutant: an endpoint that counts begins anew with START_SEND_DATA.
EpRecvRestarts(e) ==
  /\ inbox[e] # <<>>
  /\ inbox' = [inbox EXCEPT ![e] = Tail(@)]
  /\ LET msg == Head(inbox[e]) IN
     \/ /\ epc[e] = "outer"
        /\ epc' = [epc EXCEPT ![e] = IF msg.start THEN "count" ELSE "outer"]
        /\ skipped' = (skipped \/ (~msg.start /\ msg.size > 0))
        /\ UNCHANGED tests
     \/ /\ epc[e] = "count"
        /\ epc' = [epc EXCEPT ![e] = IF msg.size = 0 \/ msg.start THEN "outer" ELSE "count"]
        /\ tests' = [tests EXCEPT ![e] = IF msg.size = 0 THEN @ + 1 ELSE @]
        /\ UNCHANGED skipped
  /\ UNCHANGED <<mode, pc, sendVars, size, semVars, doneVars, missed, batches, tried, failed>>

\* Until START_SEND_DATA everything is ignored; after it everything counts, to
\* the first empty message.
EpRecv(e) ==
  /\ inbox[e] # <<>>
  /\ inbox' = [inbox EXCEPT ![e] = Tail(@)]
  /\ LET msg == Head(inbox[e]) IN
     \/ /\ epc[e] = "outer"
        /\ epc' = [epc EXCEPT ![e] = IF msg.start THEN "count" ELSE "outer"]
        /\ skipped' = (skipped \/ (~msg.start /\ msg.size > 0))
        /\ UNCHANGED tests
     \/ /\ epc[e] = "count"
        /\ epc' = [epc EXCEPT ![e] = IF msg.size = 0 THEN "outer" ELSE "count"]
        /\ tests' = [tests EXCEPT ![e] = IF msg.size = 0 THEN @ + 1 ELSE @]
        /\ UNCHANGED skipped
  /\ UNCHANGED <<mode, pc, sendVars, size, semVars, doneVars, missed, batches, tried, failed>>

-----------------------------------------------------------------------------
Next == \/ MainStep \/ Fill \/ Signal
        \/ \E e \in EPs : ThreadStep(e) \/ EpRecv(e)
        \/ \E p \in Procs : SendFails(p)

Spec == Init /\ [][Next]_vars

\* Threads of one process, and endpoints of their own; the network may be silent.
FairSpec == /\ Spec /\ WF_vars(MainStep)
            /\ \A e \in EPs : WF_vars(ThreadStep(e)) /\ WF_vars(EpRecv(e))

-----------------------------------------------------------------------------
(* Properties.                                                             *)

SendPlaces == {"flag", "lockStart", "lockData", "callStart", "callData", "sent"}
MainPlaces == SendPlaces \cup {"top", "wait", "clear", "fill", "post", "done"}
ThreadPlaces == SendPlaces \cup {"wait", "read"}

TypeOK ==
  /\ mode \in Modes
  /\ pc \in [Procs -> MainPlaces \cup ThreadPlaces]
  /\ pc[Main] \in MainPlaces /\ \A e \in EPs : pc[e] \in ThreadPlaces
  /\ dest \in [Procs -> SUBSET EPs] /\ rest \in [Procs -> SUBSET EPs]
  /\ size \in [Procs -> Sizes]
  /\ toWait \subseteq EPs /\ toPost \subseteq EPs
  /\ semRecv \in [EPs -> 0 .. 1] /\ semSend \in [EPs -> 0 .. 1]
  /\ flagged \subseteq Procs /\ mutex \subseteq Procs
  /\ testDone \in BOOLEAN /\ stopping \in BOOLEAN
  /\ inbox \in [EPs -> Seq(Messages)] /\ missed \subseteq EPs
  /\ epc \in [EPs -> {"outer", "count"}] /\ tests \in [EPs -> Nat]
  /\ batches \in Seq(Sizes) /\ tried \in [EPs -> Seq(Sizes)]
  /\ skipped \in BOOLEAN /\ failed \in BOOLEAN

\* The semaphores keep main and its threads in step: every thread has sent every
\* batch before the next is received into the shared parameters, each with the
\* size it had; only the size of the last may have become 0, since main, which
\* stops, does not wait for it.
Lockstep ==
  mode = "threads" => \A e \in EPs :
    /\ Len(tried[e]) \in {Len(batches), Len(batches) - 1}
    /\ pc[Main] \in {"clear", "fill"} => Len(tried[e]) = Len(batches)
    /\ \A k \in 1 .. Len(tried[e]) :
         \/ tried[e][k] = batches[k]
         \/ stopping /\ k = Len(batches) /\ tried[e][k] = 0

\* Without failing sends an endpoint never ignores a batch that got into its FIFO,
\* whichever threads send in whatever order and whatever full FIFOs throw away:
\* START_SEND_DATA comes before the first, and after the message that ends a test
\* comes nothing but an empty message or a batch that begins a new test itself.
NothingSkipped == ~failed => ~skipped

\* With one sending loop and no failing send, an endpoint that was sent to and has
\* read all it got either has finished one test and waits for the next, or has
\* thrown an empty message away because its FIFO was full, and still counts: the
\* stop message is acknowledged and lost, and nothing else leaves an endpoint so.
StopStops ==
  mode # "threads" /\ ~failed /\ pc[Main] = "done" =>
    \A e \in EPs : inbox[e] = <<>> /\ flagged \cap {e, Main} # {}
                     => \/ epc[e] = "outer" /\ tests[e] = 1
                        \/ e \in missed /\ epc[e] = "count" /\ tests[e] = 0

\* Not so, and so in no run: with threads, too, all endpoints end their test with
\* the run.  main cancels the threads that would send the stop flag.
StopStopsAll ==
  mode = "threads" /\ pc[Main] = "done" =>
    \A e \in EPs : inbox[e] = <<>> => epc[e] = "outer"

\* Nobody waits for ever for a semaphore or the mutex: told to stop, the program
\* returns, unless it waits for packets that do not come.
Returns == []<>(pc[Main] # "fill") => (testDone ~> pc[Main] = "done")
=============================================================================
