------------------------- MODULE NetThreads_proofs --------------------------
(***************************************************************************)
(* Proofs about the throughput demo, for every set of endpoints, every     *)
(* option of the program and every number of batches: the semaphores keep  *)
(* main and the threads in step, and what an endpoint's FIFO takes of      *)
(* START_SEND_DATA, the batches and the empty message comes in the order   *)
(* its counting loop relies on.                                            *)
(***************************************************************************)
EXTENDS NetThreads, SequenceTheorems, TLAPS

CallPlaces == {"flag", "lockStart", "lockData", "callStart", "callData"}

\* What a type is before the semaphores are known to be binary.
Types ==
  /\ mode \in Modes
  /\ pc \in [Procs -> MainPlaces \cup ThreadPlaces]
  /\ pc[Main] \in MainPlaces /\ \A e \in EPs : pc[e] \in ThreadPlaces
  /\ dest \in [Procs -> SUBSET EPs] /\ rest \in [Procs -> SUBSET EPs]
  /\ size \in [Procs -> Sizes]
  /\ toWait \subseteq EPs /\ toPost \subseteq EPs
  /\ semRecv \in [EPs -> Nat] /\ semSend \in [EPs -> Nat]
  /\ flagged \subseteq Procs /\ mutex \subseteq Procs
  /\ testDone \in BOOLEAN /\ stopping \in BOOLEAN
  /\ inbox \in [EPs -> Seq(Messages)] /\ missed \subseteq EPs
  /\ epc \in [EPs -> {"outer", "count"}] /\ tests \in [EPs -> Nat]
  /\ batches \in Seq(Sizes) /\ tried \in [EPs -> Seq(Sizes)]
  /\ skipped \in BOOLEAN /\ failed \in BOOLEAN

(* One token per thread: main has it, or a semaphore, or the thread.       *)
MainHas(e) == \/ At(Main, "wait") /\ e \notin toWait
              \/ pc[Main] \in {"clear", "fill"}
              \/ At(Main, "post") /\ e \in toPost
One(b) == IF b THEN 1 ELSE 0
Token(e) == semSend[e] + semRecv[e] + One(pc[e] # "wait") + One(MainHas(e)) = 1

\* The thread has still to send the batch that was received last.
Behind(e) == \/ At(Main, "post") /\ e \in toPost
             \/ semRecv[e] = 1
             \/ pc[e] \in CallPlaces \cup {"read"}

\* A size that stands for the last batch.
ForLast(s) == s = batches[Len(batches)] \/ (stopping /\ s = 0)

ThreadInv(e) ==
  /\ rest[e] = {}
  /\ Token(e)
  /\ Len(tried[e]) = IF Behind(e) THEN Len(batches) - 1 ELSE Len(batches)
  /\ pc[e] \in CallPlaces => ForLast(size[e])
  /\ \A k \in 1 .. Len(tried[e]) :
       tried[e][k] = batches[k] \/ (stopping /\ k = Len(batches) /\ tried[e][k] = 0)

StepInv ==
  /\ stopping <=> pc[Main] \in SendPlaces \cup {"done"}
  /\ stopping => size[Main] = 0
  /\ pc[Main] \in {"top", "wait", "post"} /\ batches # <<>> => size[Main] = batches[Len(batches)]
  /\ \A e \in EPs : ThreadInv(e)

\* With one loop the threads and their semaphores are not used.
LoopInv ==
  /\ pc[Main] \notin {"wait", "post"}
  /\ \A e \in EPs : pc[e] = "wait" /\ semRecv[e] = 0 /\ semSend[e] = 1

LockInv == IF mode = "threads" THEN StepInv ELSE LoopInv

-----------------------------------------------------------------------------
LEMMA MainApart == Main \notin EPs /\ Main \in Procs /\ EPs \subseteq Procs
BY NetAssumption DEF Main, Procs

LEMMA DeliverType ==
  ASSUME Types, NEW D \in SUBSET EPs, NEW msg \in Messages, Deliver(D, msg)
  PROVE  inbox' \in [EPs -> Seq(Messages)] /\ missed' \subseteq EPs
BY DEF Types, Deliver

\* What a call sends is a message; a thread's data bring their own start flag.
LEMMA SentMessages ==
  ASSUME Types, NEW p \in Procs
  PROVE  /\ StartMsg \in Messages /\ StartMsg.start /\ StartMsg.size = 1
         /\ \A msg \in DataMsgs(p) : /\ msg \in Messages /\ msg.size = size[p]
                                     /\ msg.start => msg.size = 1
                                     /\ p # Main /\ msg.size > 0 => msg.start
<1>1. size[p] \in {0, 1}
  BY DEF Types, Sizes
<1>2. StartMsg \in Messages /\ StartMsg.start /\ StartMsg.size = 1
  BY DEF StartMsg, Messages, Sizes
<1>3. ASSUME NEW msg \in DataMsgs(p)
      PROVE  /\ msg \in Messages /\ msg.size = size[p]
             /\ msg.start => msg.size = 1
             /\ p # Main /\ msg.size > 0 => msg.start
  <2>1. PICK first \in IF size[p] = 0 THEN {FALSE} ELSE IF p = Main THEN BOOLEAN ELSE {TRUE} :
               msg = [start |-> first, size |-> size[p]]
    BY DEF DataMsgs
  <2>2. /\ first \in BOOLEAN
        /\ size[p] = 0 => ~first
        /\ p # Main /\ size[p] # 0 => first
    BY <2>1, Zenon
  <2>3. msg \in Messages /\ msg.start = first /\ msg.size = size[p]
    BY <1>1, <2>1, <2>2 DEF Messages, Sizes
  <2> QED
    BY <1>1, <2>2, <2>3
<1> QED
  BY <1>2, <1>3

\* A call that fails has reached only some of its endpoints, if any.
LEMMA FailsDeliver ==
  ASSUME Types, NEW p \in Procs, SendFails(p)
  PROVE  \E D \in SUBSET EPs, msg \in {StartMsg} \cup DataMsgs(p) : Deliver(D, msg)
<1>1. dest[p] \subseteq EPs
  BY DEF Types
<1> QED
  BY <1>1 DEF SendFails

LEMMA GotoType ==
  ASSUME Types, NEW p \in Procs, NEW place \in SendPlaces, Goto(p, place)
  PROVE  /\ pc' \in [Procs -> MainPlaces \cup ThreadPlaces]
         /\ pc'[Main] \in MainPlaces /\ \A e \in EPs : pc'[e] \in ThreadPlaces
BY MainApart DEF Types, Goto, MainPlaces, ThreadPlaces

LEMMA TriedType ==
  ASSUME Types, NEW p \in Procs,
         tried' = IF p = Main THEN tried ELSE [tried EXCEPT ![p] = Append(@, size[p])]
  PROVE  tried' \in [EPs -> Seq(Sizes)]
<1>1. CASE p = Main
  BY <1>1 DEF Types
<1>2. CASE p # Main
  <2>1. p \in EPs
    BY <1>2 DEF Procs
  <2>2. Append(tried[p], size[p]) \in Seq(Sizes)
    BY <2>1 DEF Types
  <2> QED
    BY <1>2, <2>1, <2>2 DEF Types
<1> QED
  BY <1>1, <1>2

LEMMA SendTypes ==
  ASSUME Types, NEW p \in Procs, SendStep(p) \/ SendFails(p)
  PROVE  Types'
<1> USE MainApart DEF Types, Goto, At, semVars, linkVars, sendVars, epVars, doneVars, MainPlaces, ThreadPlaces, SendPlaces
<1>1. CASE Flag(p)
  <2>1. FlagOf(p) \subseteq Procs
    BY DEF FlagOf
  <2> QED
    BY <1>1, <2>1 DEF Flag
<1>2. CASE Lock(p)
  BY <1>2 DEF Lock
<1>3. CASE StartSent(p)
  <2>1. dest[p] \in SUBSET EPs /\ Deliver(dest[p], StartMsg)
    BY <1>3 DEF StartSent
  <2>2. inbox' \in [EPs -> Seq(Messages)] /\ missed' \subseteq EPs
    BY <2>1, SentMessages, DeliverType
  <2> QED
    BY <1>3, <2>2 DEF StartSent
<1>4. CASE DataSent(p)
  <2>1. size[p] \in Sizes
    OBVIOUS
  <2>2. PICK msg \in DataMsgs(p) : Deliver(dest[p], msg)
    BY <1>4 DEF DataSent
  <2>3. msg \in Messages /\ dest[p] \in SUBSET EPs
    BY SentMessages
  <2>4. inbox' \in [EPs -> Seq(Messages)] /\ missed' \subseteq EPs
    BY <2>2, <2>3, DeliverType
  <2>5. tried' \in [EPs -> Seq(Sizes)]
    BY <1>4, <2>1, TriedType DEF DataSent
  <2>6. /\ dest' \in [Procs -> SUBSET EPs] /\ rest' \in [Procs -> SUBSET EPs]
        /\ Goto(p, "sent") \/ Goto(p, "flag")
    <3>1. CASE rest[p] = {} /\ Goto(p, "sent") /\ UNCHANGED <<dest, rest>>
      BY <3>1
    <3>2. CASE \E e \in First(rest[p]) : /\ dest' = [dest EXCEPT ![p] = {e}]
                                         /\ rest' = [rest EXCEPT ![p] = @ \ {e}]
                                         /\ Goto(p, "flag")
      <4>1. First(rest[p]) \subseteq EPs
        BY DEF First
      <4> QED
        BY <3>2, <4>1
    <3> QED
      BY <1>4, <3>1, <3>2, Zenon DEF DataSent
  <2>7. mutex' = {} /\ UNCHANGED <<mode, flagged, size, semVars, doneVars, epVars, batches, failed>>
    BY <1>4 DEF DataSent
  <2>8. /\ pc' \in [Procs -> MainPlaces \cup ThreadPlaces]
        /\ pc'[Main] \in MainPlaces /\ \A e \in EPs : pc'[e] \in ThreadPlaces
    BY <2>6, GotoType
  <2> QED
    BY <2>4, <2>5, <2>6, <2>7, <2>8
<1>5. CASE SendFails(p)
  <2>1. tried' \in [EPs -> Seq(Sizes)]
    BY <1>5, TriedType DEF SendFails
  <2>2. inbox' \in [EPs -> Seq(Messages)] /\ missed' \subseteq EPs
    <3>1. PICK D \in SUBSET EPs, msg \in {StartMsg} \cup DataMsgs(p) : Deliver(D, msg)
      BY <1>5, FailsDeliver
    <3>2. msg \in Messages
      BY SentMessages
    <3> QED
      BY <3>1, <3>2, DeliverType
  <2>3. /\ mutex' = {} /\ rest' = [rest EXCEPT ![p] = {}] /\ pc' = [pc EXCEPT ![p] = "sent"]
        /\ failed' = TRUE /\ UNCHANGED <<mode, dest, flagged, size, semVars, doneVars, epVars, batches>>
    BY <1>5 DEF SendFails
  <2> QED
    BY <2>1, <2>2, <2>3
<1> QED
  BY <1>1, <1>2, <1>3, <1>4, <1>5 DEF SendStep

LEMMA BeginTypes ==
  ASSUME Types, NEW p \in Procs, NEW kind, BeginSend(p, kind), p \in EPs => kind = "one"
  PROVE  /\ pc' = [pc EXCEPT ![p] = "flag"]
         /\ dest' \in [Procs -> SUBSET EPs] /\ rest' \in [Procs -> SUBSET EPs]
<1>1. First(EPs) \subseteq EPs
  BY DEF First
<1>2. p # Main => p \in EPs
  BY DEF Procs
<1>. /\ dest \in [Procs -> SUBSET EPs] /\ rest \in [Procs -> SUBSET EPs]
     /\ pc' = [pc EXCEPT ![p] = "flag"]
  BY DEF BeginSend, Goto, Types
<1>3. CASE kind = "each"
  BY <1>1, <1>3 DEF BeginSend
<1>4. CASE kind = "all"
  BY <1>4 DEF BeginSend
<1>5. CASE kind = "one"
  <2>1. \A e \in IF p = Main THEN First(EPs) ELSE {p} : {e} \in SUBSET EPs
    BY <1>1, <1>2
  <2> QED
    BY <1>5, <2>1 DEF BeginSend
<1> QED
  BY <1>3, <1>4, <1>5 DEF BeginSend

LEMMA MainTypes ==
  ASSUME Types, Top \/ SemWait \/ Clear \/ Fill \/ SemPost \/ MainSent \/ Signal
  PROVE  Types'
<1> USE MainApart DEF Types, Goto, At, semVars, linkVars, sendVars, epVars, doneVars, MainPlaces, ThreadPlaces, SendPlaces, Sizes
<1>1. CASE Top
  <2>1. CASE ~testDone
    BY <1>1, <2>1 DEF Top
  <2>2. CASE testDone
    <3>1. BeginSend(Main, IF mode = "threads" THEN "all" ELSE mode)
      BY <1>1, <2>2 DEF Top
    <3>2. /\ pc' = [pc EXCEPT ![Main] = "flag"]
          /\ dest' \in [Procs -> SUBSET EPs] /\ rest' \in [Procs -> SUBSET EPs]
      BY <3>1, BeginTypes
    <3> QED
      BY <1>1, <2>2, <3>2 DEF Top
  <2> QED
    BY <2>1, <2>2
<1>2. CASE SemWait
  <2>1. PICK e \in First(toWait) : /\ semSend[e] > 0
                                   /\ semSend' = [semSend EXCEPT ![e] = @ - 1]
                                   /\ toWait' = toWait \ {e}
    BY <1>2 DEF SemWait
  <2>2. e \in EPs /\ semSend[e] - 1 \in Nat
    BY <2>1 DEF First
  <2>3. semSend' \in [EPs -> Nat] /\ toWait' \subseteq EPs
    BY <2>1, <2>2
  <2> QED
    BY <1>2, <2>3 DEF SemWait
<1>3. CASE Clear
  BY <1>3 DEF Clear
<1>4. CASE Fill
  <2>1. PICK s \in Sizes : size' = [size EXCEPT ![Main] = s] /\ batches' = Append(batches, s)
    BY <1>4 DEF Fill
  <2>2. testDone' \in BOOLEAN
    BY <1>4 DEF Fill
  <2>3. CASE mode = "threads"
    <3>1. /\ size' \in [Procs -> Sizes] /\ batches' \in Seq(Sizes)
          /\ Goto(Main, "post") /\ toPost' = EPs /\ UNCHANGED <<dest, rest>>
      BY <1>4, <2>1, <2>3 DEF Fill
    <3> QED
      BY <1>4, <2>2, <3>1 DEF Fill
  <2>4. CASE mode # "threads"
    <3>1. BeginSend(Main, mode)
      BY <1>4, <2>4 DEF Fill
    <3>2. /\ pc' = [pc EXCEPT ![Main] = "flag"]
          /\ dest' \in [Procs -> SUBSET EPs] /\ rest' \in [Procs -> SUBSET EPs]
      BY <3>1, BeginTypes
    <3> QED
      BY <1>4, <2>1, <2>2, <2>4, <3>2 DEF Fill
  <2> QED
    BY <2>3, <2>4
<1>5. CASE SemPost
  <2>1. PICK e \in First(toPost) : /\ semRecv' = [semRecv EXCEPT ![e] = @ + 1]
                                   /\ toPost' = toPost \ {e}
    BY <1>5 DEF SemPost
  <2>2. semRecv' \in [EPs -> Nat] /\ toPost' \subseteq EPs
    BY <2>1 DEF First
  <2> QED
    BY <1>5, <2>2 DEF SemPost
<1>6. CASE MainSent
  BY <1>6 DEF MainSent
<1>7. CASE Signal
  BY <1>7 DEF Signal
<1> QED
  BY <1>1, <1>2, <1>3, <1>4, <1>5, <1>6, <1>7

LEMMA ThreadTypes ==
  ASSUME Types, NEW e \in EPs, ThreadWait(e) \/ ThreadRead(e) \/ ThreadPost(e) \/ EpRecv(e)
  PROVE  Types'
<1> USE MainApart DEF Types, Goto, At, semVars, linkVars, sendVars, epVars, doneVars, MainPlaces, ThreadPlaces, SendPlaces
<1>1. CASE ThreadWait(e)
  BY <1>1 DEF ThreadWait
<1>2. CASE ThreadRead(e)
  <2>1. /\ pc' = [pc EXCEPT ![e] = "flag"]
        /\ dest' \in [Procs -> SUBSET EPs] /\ rest' \in [Procs -> SUBSET EPs]
    BY <1>2, BeginTypes DEF ThreadRead
  <2>2. size' = [size EXCEPT ![e] = size[Main]]
    BY <1>2 DEF ThreadRead
  <2> QED
    BY <1>2, <2>1, <2>2 DEF ThreadRead
<1>3. CASE ThreadPost(e)
  BY <1>3 DEF ThreadPost
<1>4. CASE EpRecv(e)
  <2>1. Tail(inbox[e]) \in Seq(Messages) /\ inbox' = [inbox EXCEPT ![e] = Tail(@)]
    BY <1>4 DEF EpRecv
  <2>2. epc' \in [EPs -> {"outer", "count"}] /\ tests' \in [EPs -> Nat] /\ skipped' \in BOOLEAN
    <3>1. CASE epc[e] = "outer"
      BY <1>4, <3>1 DEF EpRecv
    <3>2. CASE epc[e] = "count"
      <4>1. /\ tests' = [tests EXCEPT ![e] = IF Head(inbox[e]).size = 0 THEN @ + 1 ELSE @]
            /\ epc' = [epc EXCEPT ![e] = IF Head(inbox[e]).size = 0 THEN "outer" ELSE "count"]
            /\ skipped' = skipped
        BY <1>4, <3>2 DEF EpRecv
      <4> QED
        BY <4>1
    <3> QED
      BY <3>1, <3>2
  <2> QED
    BY <1>4, <2>1, <2>2 DEF EpRecv
<1> QED
  BY <1>1, <1>2, <1>3, <1>4

LEMMA InitTypes == Init => Types
<1> SUFFICES ASSUME Init PROVE Types
  OBVIOUS
<1>1. /\ pc \in [Procs -> MainPlaces \cup ThreadPlaces]
      /\ pc[Main] \in MainPlaces /\ \A e \in EPs : pc[e] \in ThreadPlaces
  BY MainApart DEF Init, MainPlaces, ThreadPlaces
<1>2. /\ size \in [Procs -> Sizes] /\ batches \in Seq(Sizes) /\ tried \in [EPs -> Seq(Sizes)]
      /\ inbox \in [EPs -> Seq(Messages)]
  BY DEF Init, Sizes
<1> QED
  BY <1>1, <1>2 DEF Init, Types

LEMMA StepTypes == Types /\ [Next]_vars => Types'
<1> SUFFICES ASSUME Types, [Next]_vars PROVE Types'
  OBVIOUS
<1>1. CASE MainStep \/ Fill \/ Signal
  BY <1>1, SendTypes, MainTypes, MainApart DEF MainStep
<1>2. CASE \E e \in EPs : ThreadStep(e) \/ EpRecv(e)
  BY <1>2, SendTypes, ThreadTypes, MainApart DEF ThreadStep, SendStep
<1>3. CASE \E p \in Procs : SendFails(p)
  BY <1>3, SendTypes
<1>4. CASE UNCHANGED vars
  BY <1>4 DEF vars, semVars, linkVars, sendVars, epVars, doneVars, Types
<1> QED
  BY <1>1, <1>2, <1>3, <1>4 DEF Next

-----------------------------------------------------------------------------
(* The semaphores.                                                         *)

LEMMA LockInit == Init => LockInv
<1> SUFFICES ASSUME Init PROVE LockInv
  OBVIOUS
<1>1. /\ pc[Main] = "top" /\ batches = <<>> /\ ~stopping
      /\ \A e \in EPs : /\ pc[e] = "wait" /\ semRecv[e] = 0 /\ semSend[e] = 1
                        /\ tried[e] = <<>> /\ rest[e] = {}
  BY MainApart DEF Init, At
<1>2. ASSUME NEW e \in EPs PROVE ThreadInv(e)
  <2>1. Token(e)
    BY <1>1 DEF Token, MainHas, At, One
  <2>2. ~Behind(e)
    BY <1>1 DEF Behind, At, CallPlaces
  <2> QED
    BY <1>1, <2>1, <2>2 DEF ThreadInv, CallPlaces
<1> QED
  BY <1>1, <1>2 DEF LockInv, StepInv, LoopInv, SendPlaces

\* What a thread may see of a step that is not its own.
PostOwed(e) == At(Main, "post") /\ e \in toPost
LEMMA ThreadKept ==
  ASSUME NEW e \in EPs, ThreadInv(e), batches' = batches, stopping => stopping',
         MainHas(e)' <=> MainHas(e), PostOwed(e)' <=> PostOwed(e),
         pc'[e] = pc[e], rest'[e] = rest[e], size'[e] = size[e], tried'[e] = tried[e],
         semSend'[e] = semSend[e], semRecv'[e] = semRecv[e]
  PROVE  ThreadInv(e)'
<1>1. Token(e)'
  BY DEF ThreadInv, Token, One
<1>2. Behind(e)' <=> Behind(e)
  BY DEF Behind, PostOwed
<1> QED
  BY <1>1, <1>2 DEF ThreadInv, ForLast

\* Where the token is not with the thread, the thread waits and owes nothing.
LEMMA TokenElsewhere ==
  ASSUME Types, NEW e \in EPs, Token(e), MainHas(e) \/ semSend[e] > 0 \/ semRecv[e] > 0
  PROVE  /\ pc[e] = "wait" /\ pc[e] \notin CallPlaces /\ pc[e] # "read"
         /\ MainHas(e) => semSend[e] = 0 /\ semRecv[e] = 0
         /\ semSend[e] > 0 => semSend[e] = 1 /\ semRecv[e] = 0 /\ ~MainHas(e)
         /\ semRecv[e] > 0 => semRecv[e] = 1 /\ semSend[e] = 0 /\ ~MainHas(e)
<1>1. semSend[e] \in Nat /\ semRecv[e] \in Nat
  BY DEF Types
<1>2. pc[e] = "wait"
  BY <1>1 DEF Token, One
<1> QED
  BY <1>1, <1>2 DEF Token, One, CallPlaces

\* Main sends in its own name: the threads do not notice, nor what it is about.
LEMMA MainSends ==
  ASSUME Types, StepInv, mode = "threads", SendStep(Main) \/ SendFails(Main) \/ MainSent
  PROVE  StepInv'
<1> USE MainApart DEF Types, Goto, At
<1>1. /\ stopping /\ stopping' = stopping /\ batches' = batches /\ size' = size /\ tried' = tried
      /\ semSend' = semSend /\ semRecv' = semRecv /\ size[Main] = 0
  BY DEF StepInv, SendStep, Flag, Lock, StartSent, DataSent, SendFails, MainSent, SendPlaces,
         semVars, linkVars, doneVars, sendVars, epVars
<1>2. pc'[Main] \in SendPlaces \cup {"done"} /\ \A e \in EPs : pc'[e] = pc[e]
  BY DEF StepInv, SendStep, Flag, Lock, StartSent, DataSent, SendFails, MainSent, SendPlaces
<1>3. \A e \in EPs : rest'[e] = rest[e]
  BY DEF SendStep, Flag, Lock, StartSent, DataSent, SendFails, MainSent, sendVars, linkVars
<1>4. ASSUME NEW e \in EPs PROVE ThreadInv(e)'
  <2>1. ~MainHas(e) /\ ~MainHas(e)' /\ ~PostOwed(e) /\ ~PostOwed(e)'
    BY <1>1, <1>2 DEF MainHas, PostOwed, StepInv, SendPlaces
  <2>2. ThreadInv(e)
    BY DEF StepInv
  <2> QED
    BY <1>1, <1>2, <1>3, <2>1, <2>2, ThreadKept
<1> QED
  BY <1>1, <1>2, <1>4 DEF StepInv, SendPlaces

LEMMA MainTurns ==
  ASSUME Types, StepInv, mode = "threads", Top \/ Clear \/ Signal
  PROVE  StepInv'
<1> USE MainApart DEF Types, Goto, At
<1>1. CASE Top /\ ~testDone
  <2>1. /\ pc[Main] = "top" /\ pc' = [pc EXCEPT ![Main] = "wait"] /\ toWait' = EPs
        /\ UNCHANGED <<batches, stopping, rest, size, tried, semSend, semRecv, toPost>>
    BY <1>1 DEF Top
  <2>2. ASSUME NEW e \in EPs PROVE ThreadInv(e)'
    <3>1. ~MainHas(e) /\ ~MainHas(e)' /\ ~PostOwed(e) /\ ~PostOwed(e)'
      BY <2>1 DEF MainHas, PostOwed
    <3> QED
      BY <2>1, <3>1, ThreadKept DEF StepInv
  <2> QED
    BY <2>1, <2>2 DEF StepInv, SendPlaces
<1>2. CASE Top /\ testDone
  <2>1. /\ pc[Main] = "top" /\ stopping' = TRUE /\ size' = [size EXCEPT ![Main] = 0]
        /\ UNCHANGED <<batches, tried, semSend, semRecv, toPost>> /\ BeginSend(Main, "all")
    BY <1>2 DEF Top
  <2>2. pc' = [pc EXCEPT ![Main] = "flag"] /\ UNCHANGED rest
    BY <2>1 DEF BeginSend
  <2>3. ASSUME NEW e \in EPs PROVE ThreadInv(e)'
    <3>1. ~MainHas(e) /\ ~MainHas(e)' /\ ~PostOwed(e) /\ ~PostOwed(e)'
      BY <2>1, <2>2 DEF MainHas, PostOwed
    <3> QED
      BY <2>1, <2>2, <3>1, ThreadKept DEF StepInv
  <2> QED
    BY <2>1, <2>2, <2>3 DEF StepInv, SendPlaces
<1>3. CASE Clear
  <2>1. /\ pc[Main] = "clear" /\ pc' = [pc EXCEPT ![Main] = "fill"] /\ size' = [size EXCEPT ![Main] = 0]
        /\ UNCHANGED <<batches, stopping, rest, tried, semSend, semRecv, toPost, toWait>>
    BY <1>3 DEF Clear, semVars, linkVars, sendVars, doneVars
  <2>2. ASSUME NEW e \in EPs PROVE ThreadInv(e)'
    <3>1. MainHas(e) /\ MainHas(e)' /\ ~PostOwed(e) /\ ~PostOwed(e)'
      BY <2>1 DEF MainHas, PostOwed
    <3> QED
      BY <2>1, <3>1, ThreadKept DEF StepInv
  <2> QED
    BY <2>1, <2>2 DEF StepInv, SendPlaces
<1>4. CASE Signal
  <2>1. UNCHANGED <<batches, stopping, rest, size, tried, semSend, semRecv, toPost, toWait, pc>>
    BY <1>4 DEF Signal, semVars, linkVars, sendVars
  <2>2. ASSUME NEW e \in EPs PROVE ThreadInv(e)'
    <3>1. (MainHas(e)' <=> MainHas(e)) /\ (PostOwed(e)' <=> PostOwed(e))
      BY <2>1 DEF MainHas, PostOwed
    <3> QED
      BY <2>1, <3>1, ThreadKept DEF StepInv
  <2> QED
    BY <2>1, <2>2 DEF StepInv
<1> QED
  BY <1>1, <1>2, <1>3, <1>4 DEF Top

LEMMA MainWaits ==
  ASSUME Types, StepInv, mode = "threads", SemWait
  PROVE  StepInv'
<1> USE MainApart DEF Types, Goto, At
<1>1. PICK t \in First(toWait) : /\ semSend[t] > 0
                                 /\ semSend' = [semSend EXCEPT ![t] = @ - 1]
                                 /\ toWait' = toWait \ {t}
  BY DEF SemWait
<1>2. /\ pc[Main] = "wait" /\ t \in EPs /\ t \in toWait
      /\ pc' = [pc EXCEPT ![Main] = IF toWait' = {} THEN "clear" ELSE "wait"]
      /\ UNCHANGED <<batches, stopping, rest, size, tried, semRecv, toPost>>
  BY <1>1 DEF SemWait, First, sendVars, linkVars, doneVars
<1>3. ASSUME NEW e \in EPs, e # t PROVE ThreadInv(e)'
  <2>1. (MainHas(e)' <=> MainHas(e)) /\ ~PostOwed(e) /\ ~PostOwed(e)'
    BY <1>1, <1>2, <1>3 DEF MainHas, PostOwed
  <2> QED
    BY <1>1, <1>2, <1>3, <2>1, ThreadKept DEF StepInv
<1>4. ThreadInv(t)'
  <2>1. ThreadInv(t)
    BY <1>2 DEF StepInv
  <2>2. /\ pc[t] = "wait" /\ semSend[t] = 1 /\ semRecv[t] = 0 /\ ~MainHas(t)
    BY <1>1, <1>2, <2>1, TokenElsewhere DEF ThreadInv
  <2>3. MainHas(t)' /\ semSend'[t] = 0 /\ semRecv'[t] = 0 /\ pc'[t] = "wait"
    BY <1>1, <1>2, <2>2 DEF MainHas
  <2>4. ~Behind(t) /\ ~Behind(t)'
    BY <1>2, <2>2, <2>3 DEF Behind, CallPlaces
  <2>5. Token(t)'
    BY <2>3 DEF Token, One
  <2> QED
    BY <1>2, <2>1, <2>3, <2>4, <2>5 DEF ThreadInv, CallPlaces
<1> QED
  BY <1>2, <1>3, <1>4 DEF StepInv, SendPlaces

LEMMA MainPosts ==
  ASSUME Types, StepInv, mode = "threads", SemPost
  PROVE  StepInv'
<1> USE MainApart DEF Types, Goto, At
<1>1. PICK t \in First(toPost) : /\ semRecv' = [semRecv EXCEPT ![t] = @ + 1]
                                 /\ toPost' = toPost \ {t}
  BY DEF SemPost
<1>2. /\ pc[Main] = "post" /\ t \in EPs /\ t \in toPost
      /\ pc' = [pc EXCEPT ![Main] = IF toPost' = {} THEN "top" ELSE "post"]
      /\ UNCHANGED <<batches, stopping, rest, size, tried, semSend, toWait>>
  BY <1>1 DEF SemPost, First, sendVars, linkVars, doneVars
<1>3. ASSUME NEW e \in EPs, e # t PROVE ThreadInv(e)'
  <2>1. (MainHas(e)' <=> MainHas(e)) /\ (PostOwed(e)' <=> PostOwed(e))
    BY <1>1, <1>2, <1>3 DEF MainHas, PostOwed
  <2> QED
    BY <1>1, <1>2, <1>3, <2>1, ThreadKept DEF StepInv
<1>4. ThreadInv(t)'
  <2>1. ThreadInv(t) /\ MainHas(t)
    BY <1>2 DEF StepInv, MainHas
  <2>2. /\ pc[t] = "wait" /\ semSend[t] = 0 /\ semRecv[t] = 0
    BY <1>1, <1>2, <2>1, TokenElsewhere DEF ThreadInv
  <2>3. ~MainHas(t)' /\ semSend'[t] = 0 /\ semRecv'[t] = 1 /\ pc'[t] = "wait"
    BY <1>1, <1>2, <2>2 DEF MainHas
  <2>4. Behind(t) /\ Behind(t)'
    BY <1>2, <2>3 DEF Behind
  <2>5. Token(t)'
    BY <2>3 DEF Token, One
  <2> QED
    BY <1>2, <2>1, <2>3, <2>4, <2>5 DEF ThreadInv, CallPlaces
<1> QED
  BY <1>2, <1>3, <1>4 DEF StepInv, SendPlaces

\* Nobody sends while the next batch is received; then everybody is one behind.
LEMMA MainFills ==
  ASSUME Types, StepInv, mode = "threads", Fill
  PROVE  StepInv'
<1> USE MainApart DEF Types, Goto, At
<1>1. PICK s \in Sizes : size' = [size EXCEPT ![Main] = s] /\ batches' = Append(batches, s)
  BY DEF Fill
<1>2. /\ pc[Main] = "fill" /\ pc' = [pc EXCEPT ![Main] = "post"] /\ toPost' = EPs
      /\ UNCHANGED <<stopping, rest, tried, semSend, semRecv, toWait>>
  BY DEF Fill
<1>3. ~stopping /\ ~stopping'
  BY <1>2 DEF StepInv, SendPlaces
<1>4. Len(batches') = Len(batches) + 1 /\ batches'[Len(batches')] = s
  <2>1. batches \in Seq(Sizes) /\ batches' = Append(batches, s)
    BY <1>1
  <2> QED
    BY <2>1, AppendProperties
<1>5. ASSUME NEW e \in EPs PROVE ThreadInv(e)'
  <2>1. ThreadInv(e) /\ MainHas(e)
    BY <1>2 DEF StepInv, MainHas
  <2>2. /\ pc[e] = "wait" /\ semSend[e] = 0 /\ semRecv[e] = 0
    BY <2>1, TokenElsewhere DEF ThreadInv
  <2>3. MainHas(e)' /\ semSend'[e] = 0 /\ semRecv'[e] = 0 /\ pc'[e] = "wait"
    BY <1>2, <2>2 DEF MainHas
  <2>4. ~Behind(e) /\ Behind(e)'
    BY <1>2, <2>2 DEF Behind, CallPlaces
  <2>5. Token(e)'
    BY <2>3 DEF Token, One
  <2>6. Len(tried[e]) = Len(batches) /\ Len(tried'[e]) = Len(batches') - 1
    BY <1>2, <1>4, <2>1, <2>4 DEF ThreadInv
  <2>7. \A k \in 1 .. Len(tried'[e]) : tried'[e][k] = batches'[k]
    BY <1>1, <1>2, <1>3, <2>1, <2>6 DEF ThreadInv
  <2> QED
    BY <1>2, <2>1, <2>3, <2>4, <2>5, <2>6, <2>7 DEF ThreadInv, CallPlaces
<1>6. size'[Main] = s
  BY <1>1
<1> QED
  BY <1>2, <1>3, <1>4, <1>5, <1>6 DEF StepInv, SendPlaces

-----------------------------------------------------------------------------
\* What is left to show of a step of a thread: its own part.
LEMMA ThreadAlone ==
  ASSUME Types, StepInv, NEW t \in EPs, ThreadInv(t)',
         batches' = batches, stopping' = stopping, toWait' = toWait, toPost' = toPost,
         \A p \in Procs \ {t} : pc'[p] = pc[p] /\ rest'[p] = rest[p] /\ size'[p] = size[p],
         \A e \in EPs \ {t} : /\ tried'[e] = tried[e] /\ semSend'[e] = semSend[e]
                              /\ semRecv'[e] = semRecv[e]
  PROVE  StepInv'
<1> USE MainApart DEF Types, At
<1>1. pc'[Main] = pc[Main] /\ size'[Main] = size[Main]
  OBVIOUS
<1>2. ASSUME NEW e \in EPs, e # t PROVE ThreadInv(e)'
  <2>1. (MainHas(e)' <=> MainHas(e)) /\ (PostOwed(e)' <=> PostOwed(e))
    BY <1>1 DEF MainHas, PostOwed
  <2> QED
    BY <1>2, <2>1, ThreadKept DEF StepInv
<1> QED
  BY <1>1, <1>2 DEF StepInv

LEMMA ThreadTurns ==
  ASSUME Types, StepInv, mode = "threads", NEW t \in EPs,
         ThreadWait(t) \/ ThreadRead(t) \/ ThreadPost(t)
  PROVE  StepInv'
<1> USE MainApart DEF Types, Goto, At
<1>1. ThreadInv(t) /\ Token(t)
  BY DEF StepInv, ThreadInv
<1>2. CASE ThreadWait(t)
  <2>1. /\ pc[t] = "wait" /\ semRecv[t] > 0 /\ semRecv' = [semRecv EXCEPT ![t] = @ - 1]
        /\ pc' = [pc EXCEPT ![t] = "read"]
        /\ UNCHANGED <<batches, stopping, rest, size, tried, semSend, toWait, toPost>>
    BY <1>2 DEF ThreadWait, sendVars, linkVars, doneVars
  <2>2. semRecv[t] = 1 /\ semSend[t] = 0 /\ ~MainHas(t)
    BY <1>1, <2>1, TokenElsewhere
  <2>3. Token(t)'
    BY <2>1, <2>2 DEF Token, One, MainHas
  <2>4. Behind(t) /\ Behind(t)'
    BY <2>1, <2>2 DEF Behind
  <2>5. ThreadInv(t)'
    BY <1>1, <2>1, <2>3, <2>4 DEF ThreadInv, CallPlaces
  <2> QED
    BY <2>1, <2>5, ThreadAlone
<1>3. CASE ThreadRead(t)
  <2>1. /\ pc[t] = "read" /\ BeginSend(t, "one") /\ size' = [size EXCEPT ![t] = size[Main]]
        /\ UNCHANGED <<batches, stopping, tried, semSend, semRecv, toWait, toPost>>
    BY <1>3 DEF ThreadRead, semVars, linkVars, doneVars
  <2>2. pc' = [pc EXCEPT ![t] = "flag"] /\ UNCHANGED rest
    BY <2>1 DEF BeginSend
  <2>3. Token(t)'
    BY <1>1, <2>1, <2>2 DEF Token, One, MainHas
  <2>4. Behind(t) /\ Behind(t)'
    BY <2>1, <2>2 DEF Behind, CallPlaces
  <2>5. ForLast(size[t])'
    <3>1. ~MainHas(t)
      BY <1>1, <2>1 DEF Token, One
    <3>2. pc[Main] \in {"top", "wait", "post"} \/ stopping
      BY <3>1 DEF MainHas, StepInv, MainPlaces
    <3>3. batches # <<>>
      BY <1>1, <2>4 DEF ThreadInv
    <3> QED
      BY <2>1, <3>2, <3>3 DEF StepInv, ForLast
  <2>6. ThreadInv(t)'
    BY <1>1, <2>1, <2>2, <2>3, <2>4, <2>5 DEF ThreadInv, ForLast
  <2> QED
    BY <2>1, <2>2, <2>6, ThreadAlone
<1>4. CASE ThreadPost(t)
  <2>1. /\ pc[t] = "sent" /\ semSend' = [semSend EXCEPT ![t] = @ + 1]
        /\ pc' = [pc EXCEPT ![t] = "wait"]
        /\ UNCHANGED <<batches, stopping, rest, size, tried, semRecv, toWait, toPost>>
    BY <1>4 DEF ThreadPost, sendVars, linkVars, doneVars
  <2>2. semRecv[t] = 0 /\ semSend[t] = 0 /\ ~MainHas(t)
    BY <1>1, <2>1 DEF Token, One
  <2>3. Token(t)'
    BY <2>1, <2>2 DEF Token, One, MainHas
  <2>4. ~Behind(t) /\ ~Behind(t)'
    BY <2>1, <2>2 DEF Behind, CallPlaces, MainHas
  <2>5. ThreadInv(t)'
    BY <1>1, <2>1, <2>3, <2>4 DEF ThreadInv, CallPlaces
  <2> QED
    BY <2>1, <2>5, ThreadAlone
<1> QED
  BY <1>2, <1>3, <1>4

LEMMA ThreadSends ==
  ASSUME Types, StepInv, mode = "threads", NEW t \in EPs, SendStep(t) \/ SendFails(t)
  PROVE  StepInv'
<1> USE MainApart DEF Types, Goto, At
<1>1. ThreadInv(t) /\ Token(t) /\ rest[t] = {} /\ t # Main
  BY DEF StepInv, ThreadInv
<1>2. /\ UNCHANGED <<batches, stopping, size, semSend, semRecv, toWait, toPost>>
      /\ pc[t] \in CallPlaces
  BY DEF SendStep, Flag, Lock, StartSent, DataSent, SendFails, semVars, linkVars, doneVars, sendVars, CallPlaces
<1>3. ~PostOwed(t) /\ semRecv[t] = 0 /\ ~MainHas(t)
  BY <1>1, <1>2, TokenElsewhere DEF CallPlaces, PostOwed, MainHas
<1>4. CASE Flag(t) \/ Lock(t) \/ StartSent(t)
  <2>1. UNCHANGED <<rest, tried>>
    BY <1>4 DEF Flag, Lock, StartSent
  <2>2. PICK place \in CallPlaces : pc' = [pc EXCEPT ![t] = place]
    BY <1>4 DEF Flag, Lock, StartSent, CallPlaces
  <2>3. Token(t)'
    BY <1>1, <1>2, <1>3, <2>2 DEF Token, One, MainHas, CallPlaces
  <2>4. Behind(t) /\ Behind(t)'
    BY <1>2, <2>2 DEF Behind
  <2>5. ThreadInv(t)'
    BY <1>1, <1>2, <2>1, <2>3, <2>4 DEF ThreadInv, ForLast
  <2> QED
    BY <1>2, <2>1, <2>2, <2>5, ThreadAlone
<1>5. CASE DataSent(t) \/ SendFails(t)
  <2>1. pc' = [pc EXCEPT ![t] = "sent"] /\ tried' = [tried EXCEPT ![t] = Append(@, size[t])]
    BY <1>1, <1>5 DEF DataSent, SendFails, First
  <2>2. rest' = rest \/ rest' = [rest EXCEPT ![t] = {}]
    BY <1>1, <1>5 DEF DataSent, SendFails, First
  <2>3. Token(t)'
    BY <1>1, <1>2, <1>3, <2>1 DEF Token, One, MainHas, CallPlaces
  <2>4. Behind(t) /\ ~Behind(t)'
    BY <1>2, <1>3, <2>1 DEF Behind, PostOwed, CallPlaces
  <2>5. ForLast(size[t]) /\ Len(tried[t]) = Len(batches) - 1 /\ Len(tried'[t]) = Len(batches)
    BY <1>1, <1>2, <2>1, <2>4 DEF ThreadInv
  <2>6. \A k \in 1 .. Len(tried'[t]) :
          \/ tried'[t][k] = batches[k]
          \/ stopping /\ k = Len(batches) /\ tried'[t][k] = 0
    <3>1. tried'[t] = Append(tried[t], size[t]) /\ tried[t] \in Seq(Sizes)
      BY <2>1
    <3>2. \A k \in 1 .. Len(tried[t]) :
            /\ tried'[t][k] = tried[t][k]
            /\ tried[t][k] = batches[k] \/ (stopping /\ k = Len(batches) /\ tried[t][k] = 0)
      BY <1>1, <3>1 DEF ThreadInv
    <3>3. tried'[t][Len(batches)] = size[t]
      BY <2>5, <3>1
    <3>4. ASSUME NEW k \in 1 .. Len(tried'[t])
          PROVE  k \in 1 .. Len(tried[t]) \/ k = Len(batches)
      BY <2>5
    <3> QED
      BY <2>5, <3>2, <3>3, <3>4 DEF ForLast
  <2>7. ThreadInv(t)'
    BY <1>1, <1>2, <2>1, <2>2, <2>3, <2>4, <2>5, <2>6 DEF ThreadInv, CallPlaces
  <2> QED
    BY <1>2, <2>1, <2>2, <2>7, ThreadAlone
<1> QED
  BY <1>4, <1>5 DEF SendStep

\* With one loop the threads stay where they began.
LEMMA LoopSteps ==
  ASSUME Types, LoopInv, mode # "threads", Next
  PROVE  LoopInv'
<1> USE MainApart DEF Types, Goto, At, LoopInv
<1>1. CASE Top \/ Fill
  <2>1. /\ pc'[Main] \notin {"wait", "post"}
        /\ \A e \in EPs : pc'[e] = pc[e]
        /\ UNCHANGED <<semRecv, semSend>>
    BY <1>1 DEF Top, Fill, BeginSend
  <2> QED
    BY <2>1
<1>2. CASE SemWait \/ SemPost
  BY <1>2 DEF SemWait, SemPost
<1>3. CASE Clear \/ MainSent \/ Signal
  BY <1>3 DEF Clear, MainSent, Signal, semVars, linkVars
<1>4. CASE SendStep(Main) \/ SendFails(Main)
  <2>1. /\ pc'[Main] \in SendPlaces
        /\ \A e \in EPs : pc'[e] = pc[e]
        /\ UNCHANGED <<semRecv, semSend>>
    BY <1>4 DEF SendStep, Flag, Lock, StartSent, DataSent, SendFails, SendPlaces, semVars, linkVars
  <2> QED
    BY <2>1 DEF SendPlaces
<1>5. ASSUME NEW e \in EPs PROVE ~ThreadStep(e) /\ ~SendFails(e)
  BY <1>5 DEF ThreadStep, ThreadWait, ThreadRead, ThreadPost, Flag, Lock, StartSent, DataSent, SendFails
<1>6. CASE \E e \in EPs : EpRecv(e)
  BY <1>6 DEF EpRecv, semVars, linkVars
<1> QED
  BY <1>1, <1>2, <1>3, <1>4, <1>5, <1>6 DEF Next, MainStep, Procs

LEMMA ModeKept == Next => mode' = mode
BY DEF Next, MainStep, SendStep, ThreadStep, Top, SemWait, Clear, Fill, SemPost, MainSent, Signal,
       Flag, Lock, StartSent, DataSent, SendFails, ThreadWait, ThreadRead, ThreadPost, EpRecv

LEMMA StepSteps ==
  ASSUME Types, StepInv, mode = "threads", Next
  PROVE  StepInv'
<1>1. CASE MainStep \/ Fill \/ Signal
  BY <1>1, MainSends, MainTurns, MainWaits, MainPosts, MainFills DEF MainStep
<1>2. CASE \E e \in EPs : ThreadStep(e)
  BY <1>2, ThreadTurns, ThreadSends DEF ThreadStep, SendStep
<1>3. CASE \E p \in Procs : SendFails(p)
  BY <1>3, MainSends, ThreadSends DEF Procs
<1>4. CASE \E e \in EPs : EpRecv(e)
  <2>1. UNCHANGED <<batches, stopping, rest, size, tried, semSend, semRecv, toPost, toWait, pc>>
    BY <1>4 DEF EpRecv, semVars, linkVars, sendVars, doneVars
  <2>2. ASSUME NEW e \in EPs PROVE ThreadInv(e)'
    <3>1. (MainHas(e)' <=> MainHas(e)) /\ (PostOwed(e)' <=> PostOwed(e))
      BY <2>1 DEF MainHas, PostOwed, At
    <3> QED
      BY <2>1, <3>1, ThreadKept DEF StepInv
  <2> QED
    BY <2>1, <2>2 DEF StepInv
<1> QED
  BY <1>1, <1>2, <1>3, <1>4 DEF Next

LEMMA LockSteps == Types /\ LockInv /\ [Next]_vars => LockInv'
<1> SUFFICES ASSUME Types, LockInv, [Next]_vars PROVE LockInv'
  OBVIOUS
<1>1. CASE Next
  BY <1>1, ModeKept, StepSteps, LoopSteps DEF LockInv
<1>2. CASE UNCHANGED vars
  <2>1. UNCHANGED <<mode, batches, stopping, rest, size, tried, semSend, semRecv, toPost, toWait, pc>>
    BY <1>2 DEF vars, semVars, linkVars, sendVars, doneVars
  <2>2. \A e \in EPs : ThreadInv(e) => ThreadInv(e)'
    BY <2>1, ThreadKept DEF MainHas, PostOwed, At
  <2> QED
    BY <2>1, <2>2 DEF LockInv, StepInv, LoopInv
<1> QED
  BY <1>1, <1>2

LEMMA ThreadsInvariant == Spec => [](Types /\ LockInv)
BY InitTypes, StepTypes, LockInit, LockSteps, PTL DEF Spec

\* The variables keep their types; the semaphores, counters in the code, are
\* binary: nobody posts to one that has been posted to.
THEOREM NetTypeCorrect == Spec => []TypeOK
<1>1. Types /\ LockInv => TypeOK
  <2> SUFFICES ASSUME Types, LockInv PROVE TypeOK
    OBVIOUS
  <2>1. ASSUME NEW e \in EPs PROVE semRecv[e] \in 0 .. 1 /\ semSend[e] \in 0 .. 1
    <3>1. Token(e) \/ (semRecv[e] = 0 /\ semSend[e] = 1)
      BY DEF LockInv, StepInv, ThreadInv, LoopInv
    <3>2. semRecv[e] \in Nat /\ semSend[e] \in Nat
      BY DEF Types
    <3> QED
      BY <3>1, <3>2 DEF Token, One
  <2>2. semRecv \in [EPs -> 0 .. 1] /\ semSend \in [EPs -> 0 .. 1]
    BY <2>1 DEF Types
  <2> QED
    BY <2>2 DEF Types, TypeOK
<1> QED
  BY <1>1, ThreadsInvariant, PTL

\* No batch is overtaken: for any number of threads, when main receives into the
\* shared parameters every thread has sent everything before, with its size.
THEOREM NetLockstep == Spec => []Lockstep
<1>1. Types /\ LockInv => Lockstep
  <2> SUFFICES ASSUME Types, LockInv, mode = "threads", NEW e \in EPs
               PROVE  /\ Len(tried[e]) \in {Len(batches), Len(batches) - 1}
                      /\ pc[Main] \in {"clear", "fill"} => Len(tried[e]) = Len(batches)
                      /\ \A k \in 1 .. Len(tried[e]) :
                           \/ tried[e][k] = batches[k]
                           \/ stopping /\ k = Len(batches) /\ tried[e][k] = 0
    BY DEF Lockstep
  <2>1. ThreadInv(e)
    BY DEF LockInv, StepInv
  <2>2. ASSUME pc[Main] \in {"clear", "fill"} PROVE ~Behind(e)
    <3>1. MainHas(e)
      BY <2>2 DEF MainHas
    <3> QED
      BY <2>1, <2>2, <3>1, TokenElsewhere DEF ThreadInv, Behind, At
  <2> QED
    BY <2>1, <2>2 DEF ThreadInv
<1> QED
  BY <1>1, ThreadsInvariant, PTL

-----------------------------------------------------------------------------
(* What an endpoint hears, as long as no send fails.                       *)

HasFlag(e) == flagged \cap {e, Main} # {}
Starting(e) == pc[Main] \in {"lockStart", "callStart"} /\ e \in dest[Main]
Started(e) == HasFlag(e) /\ ~Starting(e)
Pending(e) == pc[Main] \in CallPlaces /\ e \in dest[Main] \cup rest[Main]
EndSent(e) == tests[e] = 1 \/ \E i \in 1 .. Len(inbox[e]) : inbox[e][i].size = 0
EndGone(e) == EndSent(e) \/ e \in missed

\* Empty messages only after data, and START_SEND_DATA before it.
InboxInv(e) ==
  /\ \A i \in 1 .. Len(inbox[e]) : inbox[e][i].start => inbox[e][i].size = 1
  /\ \A i, j \in 1 .. Len(inbox[e]) : i < j /\ inbox[e][i].size = 0 => inbox[e][j].size = 0
  /\ tests[e] \in {0, 1}
  /\ tests[e] = 1 => epc[e] = "outer" /\ \A i \in 1 .. Len(inbox[e]) : inbox[e][i].size = 0

StreamInv(e) ==
  /\ InboxInv(e)
  /\ ~Started(e) => inbox[e] = <<>> /\ epc[e] = "outer" /\ tests[e] = 0
  /\ Started(e) /\ tests[e] = 0 /\ epc[e] = "outer" => inbox[e] # <<>> /\ inbox[e][1].start
  /\ EndSent(e) => testDone /\ size[Main] = 0 /\ pc[Main] \notin {"clear", "fill"}
  /\ stopping /\ HasFlag(e) => EndGone(e) \/ Pending(e)

\* The flag a send looks at is the one of the endpoints it sends to.
DestInv ==
  /\ pc[Main] \in CallPlaces \ {"flag"} => FlagOf(Main) \subseteq flagged
  /\ mode # "each" => rest[Main] = {}
  /\ mode = "all" => flagged \subseteq {Main} /\ (pc[Main] \in CallPlaces => dest[Main] = EPs)
  /\ mode = "each" => flagged \subseteq EPs
  /\ mode = "one" => flagged \subseteq First(EPs)
  /\ mode \in {"each", "one"} /\ pc[Main] \in CallPlaces => \E e \in EPs : dest[Main] = {e}
  /\ mode = "one" /\ pc[Main] \in CallPlaces => dest[Main] \subseteq First(EPs)

StopInv ==
  /\ pc[Main] \in CallPlaces /\ size[Main] = 0 => testDone
  /\ stopping => testDone /\ size[Main] = 0 /\ pc[Main] \in SendPlaces \cup {"done"}
  /\ pc[Main] = "done" => stopping

\* Threads send no data but with START_SEND_DATA before it.
AllStart(e) == \A i \in 1 .. Len(inbox[e]) : inbox[e][i].size > 0 => inbox[e][i].start

HearInv ==
  ~failed => /\ ~skipped
             /\ IF mode = "threads" THEN \A e \in EPs : AllStart(e)
                ELSE DestInv /\ StopInv /\ \A e \in EPs : StreamInv(e)

LEMMA FirstOne ==
  ASSUME NEW x \in First(EPs), NEW y \in First(EPs)
  PROVE  x = y /\ x \in EPs
BY NetAssumption DEF First

LEMMA Received ==
  ASSUME NEW S, NEW s \in Seq(S), s # <<>>
  PROVE  /\ Head(s) = s[1] /\ Head(s) \in S /\ 1 \in 1 .. Len(s)
         /\ Tail(s) \in Seq(S) /\ Len(Tail(s)) = Len(s) - 1
         /\ \A i \in 1 .. Len(Tail(s)) : i + 1 \in 1 .. Len(s) /\ Tail(s)[i] = s[i + 1]
BY HeadTailProperties, LenProperties

LEMMA Appended ==
  ASSUME NEW S, NEW s \in Seq(S), NEW x \in S
  PROVE  /\ Append(s, x) \in Seq(S) /\ Append(s, x) # <<>>
         /\ Len(Append(s, x)) = Len(s) + 1 /\ Append(s, x)[Len(s) + 1] = x
         /\ \A i \in 1 .. Len(s) : Append(s, x)[i] = s[i]
         /\ \A i \in 1 .. Len(Append(s, x)) : i \in 1 .. Len(s) \/ i = Len(s) + 1
BY AppendProperties, LenProperties

LEMMA InboxGrows ==
  ASSUME Types, NEW e \in EPs, InboxInv(e), NEW msg \in Messages,
         inbox'[e] = Append(inbox[e], msg), epc'[e] = epc[e], tests'[e] = tests[e],
         msg.start => msg.size = 1, EndSent(e) => msg.size = 0
  PROVE  /\ InboxInv(e)'
         /\ EndSent(e)' <=> EndSent(e) \/ msg.size = 0
         /\ inbox[e] # <<>> => inbox'[e][1] = inbox[e][1]
         /\ inbox[e] = <<>> => inbox'[e][1] = msg
         /\ inbox'[e] # <<>>
<1>1. inbox[e] \in Seq(Messages) /\ Len(inbox[e]) \in Nat
  BY DEF Types
<1>2. /\ inbox'[e] # <<>>
      /\ Len(inbox'[e]) = Len(inbox[e]) + 1 /\ inbox'[e][Len(inbox[e]) + 1] = msg
      /\ \A i \in 1 .. Len(inbox[e]) : inbox'[e][i] = inbox[e][i]
      /\ \A i \in 1 .. Len(inbox'[e]) : i \in 1 .. Len(inbox[e]) \/ i = Len(inbox[e]) + 1
  BY <1>1, Appended
<1>3. EndSent(e)' <=> EndSent(e) \/ msg.size = 0
  BY <1>1, <1>2 DEF EndSent
<1>4. InboxInv(e)'
  <2>1. \A i \in 1 .. Len(inbox'[e]) : inbox'[e][i].start => inbox'[e][i].size = 1
    BY <1>1, <1>2 DEF InboxInv
  <2>2. ASSUME NEW i \in 1 .. Len(inbox'[e]), NEW j \in 1 .. Len(inbox'[e]),
               i < j, inbox'[e][i].size = 0
        PROVE  inbox'[e][j].size = 0
    <3>1. i \in 1 .. Len(inbox[e])
      BY <1>1, <1>2, <2>2
    <3>2. EndSent(e)
      BY <1>2, <2>2, <3>1 DEF EndSent
    <3> QED
      BY <1>1, <1>2, <2>2, <3>1, <3>2 DEF InboxInv
  <2>3. tests[e] = 1 => \A i \in 1 .. Len(inbox'[e]) : inbox'[e][i].size = 0
    BY <1>1, <1>2 DEF InboxInv, EndSent
  <2> QED
    BY <2>1, <2>2, <2>3 DEF InboxInv
<1>5. inbox[e] # <<>> => inbox'[e][1] = inbox[e][1]
  BY <1>1, <1>2, Received
<1>6. inbox[e] = <<>> => inbox'[e][1] = msg
  BY <1>1, <1>2
<1> QED
  BY <1>2, <1>3, <1>4, <1>5, <1>6

\* A step that delivers and fetches nothing.
LEMMA StreamKept ==
  ASSUME NEW e \in EPs, StreamInv(e),
         inbox'[e] = inbox[e], epc'[e] = epc[e], tests'[e] = tests[e],
         Started(e)' <=> Started(e),
         EndSent(e) => testDone' /\ size'[Main] = 0 /\ pc'[Main] \notin {"clear", "fill"},
         e \in missed => e \in missed',
         stopping' /\ HasFlag(e)' => EndGone(e) \/ e \in missed' \/ Pending(e)'
  PROVE  StreamInv(e)'
<1>1. EndSent(e)' <=> EndSent(e)
  BY DEF EndSent
<1>2. InboxInv(e)'
  BY DEF StreamInv, InboxInv
<1> QED
  BY <1>1, <1>2 DEF StreamInv, EndGone

LEMMA FetchKeeps ==
  ASSUME Types, NEW e \in EPs, StreamInv(e), EpRecv(e)
  PROVE  StreamInv(e)' /\ skipped' = skipped
<1> DEFINE msg == Head(inbox[e])
<1>1. inbox[e] \in Seq(Messages) /\ inbox[e] # <<>> /\ inbox'[e] = Tail(inbox[e])
  BY DEF EpRecv, Types
<1>2. /\ msg = inbox[e][1] /\ msg \in Messages /\ 1 \in 1 .. Len(inbox[e])
      /\ Len(inbox'[e]) = Len(inbox[e]) - 1 /\ Len(inbox[e]) \in Nat
      /\ \A i \in 1 .. Len(inbox'[e]) : i + 1 \in 1 .. Len(inbox[e]) /\ inbox'[e][i] = inbox[e][i + 1]
  BY <1>1, Received
<1>3. msg.start \in BOOLEAN /\ msg.size \in {0, 1}
  BY <1>2 DEF Messages, Sizes
<1>4. /\ HasFlag(e)' <=> HasFlag(e) 
      /\ Starting(e)' <=> Starting(e) 
      /\ Pending(e)' <=> Pending(e)
      /\ UNCHANGED <<testDone, size, pc, stopping, missed>>
  BY DEF EpRecv, HasFlag, Starting, Pending, sendVars, linkVars, doneVars
<1>5. Started(e) /\ Started(e)'
  BY <1>1, <1>4 DEF StreamInv, Started
<1>6. /\ \A i \in 1 .. Len(inbox'[e]) : inbox'[e][i].start => inbox'[e][i].size = 1
      /\ \A i, j \in 1 .. Len(inbox'[e]) : i < j /\ inbox'[e][i].size = 0 => inbox'[e][j].size = 0
      /\ msg.start => msg.size = 1
      /\ msg.size = 0 => \A i \in 1 .. Len(inbox'[e]) : inbox'[e][i].size = 0
      /\ (\E i \in 1 .. Len(inbox[e]) : inbox[e][i].size = 0)
           <=> msg.size = 0 \/ \E i \in 1 .. Len(inbox'[e]) : inbox'[e][i].size = 0
  <2> HIDE DEF msg
  <2>1. InboxInv(e)
    BY DEF StreamInv
  <2>2. \A i \in 1 .. Len(inbox[e]) : i = 1 \/ (i - 1 \in 1 .. Len(inbox'[e]) /\ (i - 1) + 1 = i)
    BY <1>2
  <2>3. /\ \A i \in 1 .. Len(inbox'[e]) : inbox'[e][i].start => inbox'[e][i].size = 1
        /\ msg.start => msg.size = 1
    BY <1>2, <2>1 DEF InboxInv
  <2>4. \A i, j \in 1 .. Len(inbox'[e]) : i < j /\ inbox'[e][i].size = 0 => inbox'[e][j].size = 0
    BY <1>2, <2>1, SMTT(30) DEF InboxInv
  <2>5. msg.size = 0 => \A i \in 1 .. Len(inbox'[e]) : inbox'[e][i].size = 0
    <3>1. \A i \in 1 .. Len(inbox'[e]) : 1 < i + 1
      OBVIOUS
    <3> QED
      BY <1>2, <2>1, <3>1 DEF InboxInv
  <2>6. (\E i \in 1 .. Len(inbox[e]) : inbox[e][i].size = 0)
           <=> msg.size = 0 \/ \E i \in 1 .. Len(inbox'[e]) : inbox'[e][i].size = 0
    <3>1. ASSUME NEW i \in 1 .. Len(inbox[e]), inbox[e][i].size = 0, i # 1
          PROVE  \E k \in 1 .. Len(inbox'[e]) : inbox'[e][k].size = 0
      <4>1. i - 1 \in 1 .. Len(inbox'[e]) /\ inbox'[e][i - 1] = inbox[e][i]
        BY <1>2, <2>2, <3>1
      <4> QED
        BY <3>1, <4>1
    <3>2. ASSUME NEW i \in 1 .. Len(inbox'[e]), inbox'[e][i].size = 0
          PROVE  \E k \in 1 .. Len(inbox[e]) : inbox[e][k].size = 0
      BY <1>2, <3>2
    <3> QED
      BY <1>2, <3>1, <3>2
  <2> QED
    BY <2>3, <2>4, <2>5, <2>6
<1> HIDE DEF msg
<1>7. tests[e] \in {0, 1} /\ epc[e] \in {"outer", "count"}
  BY DEF StreamInv, InboxInv, Types
<1>8. CASE epc[e] = "outer"
  <2>1. /\ epc'[e] = IF msg.start THEN "count" ELSE "outer"
        /\ tests'[e] = tests[e] /\ skipped' = (skipped \/ (~msg.start /\ msg.size > 0))
    BY <1>8 DEF EpRecv, Types, msg
  <2>2. CASE tests[e] = 0
    <3>1. msg.start
      BY <1>2, <1>5, <1>8, <2>2 DEF StreamInv
    <3>2. (EndSent(e)' <=> EndSent(e)) /\ epc'[e] = "count" /\ tests'[e] = 0 /\ skipped' = skipped
      BY <1>3, <1>6, <2>1, <2>2, <3>1 DEF EndSent, Types
    <3>3. InboxInv(e)'
      BY <1>6, <3>2 DEF InboxInv
    <3> QED
      BY <1>4, <1>5, <3>2, <3>3 DEF StreamInv, EndGone
  <2>3. CASE tests[e] = 1
    <3>1. msg.size = 0 /\ ~msg.start
      BY <1>2, <1>6, <2>3 DEF StreamInv, InboxInv
    <3>2. EndSent(e)' /\ EndSent(e) /\ epc'[e] = "outer" /\ tests'[e] = 1 /\ skipped' = skipped
      BY <1>3, <1>6, <2>1, <2>3, <3>1 DEF EndSent, Types
    <3>3. InboxInv(e)'
      BY <1>6, <3>1, <3>2 DEF InboxInv
    <3> QED
      BY <1>4, <1>5, <3>2, <3>3 DEF StreamInv, EndGone
  <2> QED
    BY <1>7, <2>2, <2>3
<1>9. CASE epc[e] = "count"
  <2>1. /\ epc'[e] = IF msg.size = 0 THEN "outer" ELSE "count"
        /\ tests'[e] = IF msg.size = 0 THEN tests[e] + 1 ELSE tests[e]
        /\ skipped' = skipped
    BY <1>9 DEF EpRecv, Types, msg
  <2>2. tests[e] = 0
    BY <1>7, <1>9 DEF StreamInv, InboxInv
  <2>3. EndSent(e)' <=> EndSent(e)
    BY <1>6, <2>1, <2>2 DEF EndSent
  <2>4. InboxInv(e)'
    BY <1>6, <2>1, <2>2 DEF InboxInv
  <2> QED
    BY <1>4, <1>5, <2>1, <2>2, <2>3, <2>4 DEF StreamInv, EndGone
<1> QED
  BY <1>7, <1>8, <1>9

-----------------------------------------------------------------------------
(* Main as the only sender.                                                *)

OneLoop == /\ mode # "threads" /\ mode \in {"each", "all", "one"} /\ ~failed /\ ~skipped
           /\ LoopInv /\ DestInv /\ StopInv /\ \A e \in EPs : StreamInv(e)

\* In every option the flag of an endpoint is the one its messages look at.
LEMMA FlagShared ==
  ASSUME Types, OneLoop, pc[Main] \in CallPlaces, NEW e \in dest[Main]
  PROVE  HasFlag(e) <=> FlagOf(Main) \subseteq flagged
<1>1. e \in EPs /\ Main \notin EPs
  BY MainApart DEF Types
<1>2. CASE mode = "all"
  BY <1>1, <1>2 DEF OneLoop, DestInv, FlagOf, HasFlag
<1>3. CASE mode # "all"
  <2>1. Main \notin flagged
    BY <1>1, <1>3, FirstOne DEF OneLoop, DestInv
  <2>2. dest[Main] = {e} /\ FlagOf(Main) = {e}
    BY <1>3 DEF OneLoop, DestInv, FlagOf
  <2> QED
    BY <2>1, <2>2 DEF HasFlag
<1> QED
  BY <1>2, <1>3

\* What a send begins with covers every endpoint that has been sent to.
LEMMA BeginDest ==
  ASSUME Types, OneLoop, BeginSend(Main, mode)
  PROVE  /\ pc' = [pc EXCEPT ![Main] = "flag"]
         /\ mode # "each" => rest'[Main] = {}
         /\ mode = "all" => dest'[Main] = EPs
         /\ mode \in {"each", "one"} => \E e \in EPs : dest'[Main] = {e}
         /\ mode = "one" => dest'[Main] \subseteq First(EPs)
         /\ \A e \in EPs : HasFlag(e) => e \in dest'[Main] \cup rest'[Main]
<1> USE MainApart DEF Goto
<1>0. dest \in [Procs -> SUBSET EPs] /\ rest \in [Procs -> SUBSET EPs] /\ pc' = [pc EXCEPT ![Main] = "flag"]
  BY DEF Types, BeginSend
<1>1. CASE mode = "each"
  BY <1>0, <1>1, FirstOne DEF BeginSend
<1>2. CASE mode = "all"
  BY <1>0, <1>2 DEF BeginSend, OneLoop, DestInv
<1>3. CASE mode = "one"
  <2>1. PICK f \in First(EPs) : dest' = [dest EXCEPT ![Main] = {f}]
    BY <1>3 DEF BeginSend
  <2>2. dest'[Main] = {f} /\ rest' = rest /\ f \in EPs
    BY <1>0, <1>3, <2>1, FirstOne DEF BeginSend
  <2>3. flagged \subseteq {f} /\ Main \notin flagged
    BY <1>3, <2>1, FirstOne DEF OneLoop, DestInv
  <2> QED
    BY <1>0, <1>3, <2>1, <2>2, <2>3 DEF HasFlag, OneLoop, DestInv
<1> QED
  BY <1>1, <1>2, <1>3 DEF OneLoop

LEMMA LoopTurns ==
  ASSUME Types, OneLoop, Top \/ Clear \/ Fill \/ MainSent \/ Signal
  PROVE  DestInv' /\ StopInv' /\ (\A e \in EPs : StreamInv(e)') /\ skipped' = skipped
<1> USE MainApart DEF Types, Goto, At
<1>1. UNCHANGED <<mode, flagged, inbox, missed, epc, tests, skipped>>
  BY DEF Top, Clear, Fill, MainSent, Signal, sendVars, linkVars, epVars
<1>2. /\ pc[Main] \notin CallPlaces \/ Signal
      /\ \A e \in EPs : EndSent(e) => testDone /\ size[Main] = 0 /\ pc[Main] \notin {"clear", "fill"}
  BY DEF Top, Clear, Fill, MainSent, CallPlaces, OneLoop, StreamInv
<1>3. \A e \in EPs : HasFlag(e)' <=> HasFlag(e)
  BY <1>1 DEF HasFlag
<1>4. CASE Top /\ ~testDone
  <2>1. /\ pc'[Main] = "clear" /\ pc[Main] = "top" /\ UNCHANGED <<dest, rest, stopping, size, testDone>>
    BY <1>4 DEF Top, OneLoop
  <2>2. DestInv' /\ StopInv'
    BY <1>1, <1>4, <2>1 DEF OneLoop, DestInv, StopInv, CallPlaces
  <2>3. ASSUME NEW e \in EPs PROVE StreamInv(e)'
    BY <1>1, <1>2, <1>3, <1>4, <2>1, StreamKept DEF OneLoop, StopInv, Started, Starting
  <2> QED
    BY <1>1, <2>2, <2>3
<1>5. CASE Top /\ testDone
  <2>1. /\ pc[Main] = "top" /\ stopping' = TRUE /\ size'[Main] = 0 /\ testDone' = testDone
        /\ BeginSend(Main, mode)
    BY <1>5 DEF Top, OneLoop
  <2>2. /\ pc'[Main] = "flag"
        /\ \A e \in EPs : HasFlag(e) => Pending(e)'
    BY <2>1, BeginDest DEF Pending, CallPlaces
  <2>3. DestInv'
    <3>1. /\ mode # "each" => rest'[Main] = {}
          /\ mode = "all" => dest'[Main] = EPs
          /\ mode \in {"each", "one"} => \E e \in EPs : dest'[Main] = {e}
          /\ mode = "one" => dest'[Main] \subseteq First(EPs)
      BY <2>1, BeginDest
    <3> QED
      BY <1>1, <2>2, <3>1 DEF OneLoop, DestInv, CallPlaces
  <2>4. StopInv'
    BY <1>5, <2>1, <2>2 DEF StopInv, SendPlaces
  <2>5. ASSUME NEW e \in EPs PROVE StreamInv(e)'
    BY <1>1, <1>2, <1>3, <1>5, <2>1, <2>2, StreamKept DEF OneLoop, Started, Starting
  <2> QED
    BY <1>1, <2>3, <2>4, <2>5
<1>6. CASE Clear
  <2>1. /\ pc[Main] = "clear" /\ pc'[Main] = "fill" /\ UNCHANGED <<dest, rest, stopping, testDone>>
    BY <1>6 DEF Clear, sendVars, linkVars, doneVars
  <2>2. ~stopping
    BY <2>1 DEF OneLoop, StopInv, SendPlaces
  <2>3. DestInv' /\ StopInv'
    BY <1>1, <2>1, <2>2 DEF OneLoop, DestInv, StopInv, CallPlaces
  <2>4. ASSUME NEW e \in EPs PROVE StreamInv(e)'
    BY <1>1, <1>2, <1>3, <2>1, <2>2, StreamKept DEF OneLoop, Started, Starting
  <2> QED
    BY <1>1, <2>3, <2>4
<1>7. CASE Fill
  <2>1. PICK s \in Sizes, last \in BOOLEAN : /\ s = 0 => last
                                            /\ size' = [size EXCEPT ![Main] = s]
                                            /\ testDone' = (testDone \/ last)
    BY <1>7 DEF Fill
  <2>2. pc[Main] = "fill" /\ BeginSend(Main, mode) /\ stopping' = stopping /\ size'[Main] = s
    BY <1>7, <2>1 DEF Fill, OneLoop
  <2>3. ~stopping /\ pc'[Main] = "flag"
    BY <2>2, BeginDest DEF OneLoop, StopInv, SendPlaces
  <2>4. DestInv'
    <3>1. /\ mode # "each" => rest'[Main] = {}
          /\ mode = "all" => dest'[Main] = EPs
          /\ mode \in {"each", "one"} => \E e \in EPs : dest'[Main] = {e}
          /\ mode = "one" => dest'[Main] \subseteq First(EPs)
      BY <2>2, BeginDest
    <3> QED
      BY <1>1, <2>3, <3>1 DEF OneLoop, DestInv, CallPlaces
  <2>5. StopInv'
    BY <2>1, <2>2, <2>3 DEF StopInv
  <2>6. ASSUME NEW e \in EPs PROVE StreamInv(e)'
    BY <1>1, <1>2, <1>3, <2>2, <2>3, StreamKept DEF OneLoop, Started, Starting
  <2> QED
    BY <1>1, <2>4, <2>5, <2>6
<1>8. CASE MainSent
  <2>1. /\ pc[Main] = "sent" /\ pc'[Main] = IF stopping THEN "done" ELSE "top"
        /\ UNCHANGED <<dest, rest, stopping, testDone, size>>
    BY <1>8 DEF MainSent, sendVars, linkVars, doneVars
  <2>2. DestInv' /\ StopInv'
    BY <1>1, <2>1 DEF OneLoop, DestInv, StopInv, CallPlaces, SendPlaces
  <2>3. \A e \in EPs : stopping' /\ HasFlag(e)' => EndGone(e)
    BY <1>3, <2>1 DEF OneLoop, StreamInv, Pending, CallPlaces
  <2>4. ASSUME NEW e \in EPs PROVE StreamInv(e)'
    BY <1>1, <1>2, <1>3, <2>1, <2>3, StreamKept DEF OneLoop, Started, Starting
  <2> QED
    BY <1>1, <2>2, <2>4
<1>9. CASE Signal
  <2>1. UNCHANGED <<dest, rest, stopping, size, pc>> /\ testDone' = TRUE
    BY <1>9 DEF Signal, sendVars, linkVars
  <2>2. DestInv' /\ StopInv'
    BY <1>1, <2>1 DEF OneLoop, DestInv, StopInv, FlagOf
  <2>3. ASSUME NEW e \in EPs PROVE StreamInv(e)'
    <3>1. /\ Started(e)' <=> Started(e)
          /\ Pending(e)' <=> Pending(e)
      BY <1>3, <2>1 DEF Started, Starting, Pending
    <3> QED
      BY <1>1, <1>2, <1>3, <2>1, <3>1, StreamKept DEF OneLoop, StreamInv
  <2> QED
    BY <1>1, <2>2, <2>3
<1> QED
  BY <1>4, <1>5, <1>6, <1>7, <1>8, <1>9

LEMMA LoopSends ==
  ASSUME Types, OneLoop, SendStep(Main)
  PROVE  DestInv' /\ StopInv' /\ (\A e \in EPs : StreamInv(e)') /\ skipped' = skipped
<1> USE MainApart DEF Types, Goto, At
<1>1. /\ UNCHANGED <<mode, testDone, stopping, size, epc, tests, skipped>>
      /\ pc[Main] \in CallPlaces /\ missed \subseteq missed'
  BY DEF SendStep, Flag, Lock, StartSent, DataSent, Deliver, doneVars, linkVars, epVars, CallPlaces
<1>2. \A e \in EPs : EndSent(e) => testDone /\ size[Main] = 0
  BY DEF OneLoop, StreamInv
<1>3. dest[Main] \subseteq EPs /\ rest[Main] \subseteq EPs
  OBVIOUS
<1>4. CASE Flag(Main)
  <2>1. /\ pc[Main] = "flag" /\ flagged' = flagged \cup FlagOf(Main)
        /\ pc'[Main] = IF FlagOf(Main) \subseteq flagged THEN "lockData" ELSE "lockStart"
        /\ UNCHANGED <<dest, rest, inbox>>
    BY <1>4 DEF Flag, linkVars
  <2>2. DestInv'
    <3>1. FlagOf(Main)' = FlagOf(Main)
      BY <1>1, <2>1 DEF FlagOf
    <3>2. /\ mode = "all" => FlagOf(Main) = {Main}
          /\ mode = "each" => FlagOf(Main) \subseteq EPs
          /\ mode = "one" => FlagOf(Main) \subseteq First(EPs)
      BY <1>1, <1>3 DEF FlagOf, OneLoop, DestInv
    <3> QED
      BY <1>1, <2>1, <3>1, <3>2 DEF OneLoop, DestInv, CallPlaces
  <2>3. StopInv'
    BY <1>1, <2>1 DEF OneLoop, StopInv, CallPlaces, SendPlaces
  <2>4. ASSUME NEW e \in EPs PROVE StreamInv(e)'
    <3>1. /\ e \in dest[Main] => (HasFlag(e) <=> FlagOf(Main) \subseteq flagged) /\ HasFlag(e)'
          /\ e \notin dest[Main] => (HasFlag(e)' <=> HasFlag(e))
      <4>1. CASE e \in dest[Main]
        <5>1. FlagOf(Main) \cap {e, Main} # {}
          BY <1>1, <4>1 DEF FlagOf
        <5> QED
          BY <1>1, <2>1, <4>1, <5>1, FlagShared DEF HasFlag
      <4>2. CASE e \notin dest[Main]
        <5>1. FlagOf(Main) = dest[Main]
          BY <1>1, <4>2 DEF FlagOf, OneLoop, DestInv
        <5> QED
          BY <1>3, <2>1, <4>2, <5>1 DEF HasFlag
      <4> QED
        BY <4>1, <4>2
    <3>2. Started(e)' <=> Started(e)
      BY <2>1, <3>1 DEF Started, Starting
    <3>3. Pending(e)' <=> Pending(e)
      BY <2>1 DEF Pending, CallPlaces
    <3>4. stopping' /\ HasFlag(e)' => EndGone(e) \/ Pending(e)'
      BY <1>1, <2>1, <3>1, <3>3 DEF OneLoop, StreamInv, Pending, CallPlaces
    <3> QED
      BY <1>1, <1>2, <2>1, <3>2, <3>4, StreamKept DEF OneLoop
  <2> QED
    BY <1>1, <2>2, <2>3, <2>4
<1>5. CASE Lock(Main)
  <2>1. /\ pc[Main] \in {"lockStart", "lockData"} /\ UNCHANGED <<dest, rest, inbox, flagged>>
        /\ pc'[Main] = IF pc[Main] = "lockStart" THEN "callStart" ELSE "callData"
    BY <1>5 DEF Lock, linkVars
  <2>2. DestInv'
    BY <1>1, <2>1 DEF OneLoop, DestInv, CallPlaces, FlagOf
  <2>3. StopInv'
    BY <1>1, <2>1 DEF OneLoop, StopInv, CallPlaces, SendPlaces
  <2>4. ASSUME NEW e \in EPs PROVE StreamInv(e)'
    <3>1. HasFlag(e)' <=> HasFlag(e)
      BY <2>1 DEF HasFlag
    <3>2. (Started(e)' <=> Started(e)) /\ (Pending(e)' <=> Pending(e))
      BY <2>1, <3>1 DEF Started, Starting, Pending, CallPlaces
    <3>3. stopping' /\ HasFlag(e)' => EndGone(e) \/ Pending(e)'
      BY <1>1, <3>1, <3>2 DEF OneLoop, StreamInv
    <3> QED
      BY <1>1, <1>2, <2>1, <3>2, <3>3, StreamKept DEF OneLoop
  <2> QED
    BY <1>1, <2>2, <2>3, <2>4
<1>6. CASE StartSent(Main)
  <2>1. /\ pc[Main] = "callStart" /\ pc'[Main] = "lockData" /\ UNCHANGED <<dest, rest, flagged>>
        /\ inbox' = [e \in EPs |-> IF e \in dest[Main] /\ ~Full(e) THEN Append(inbox[e], StartMsg)
                                                                   ELSE inbox[e]]
    BY <1>6 DEF StartSent, Deliver
  <2>2. StartMsg \in Messages /\ StartMsg.start /\ StartMsg.size = 1
    BY SentMessages
  <2>3. DestInv'
    BY <1>1, <2>1 DEF OneLoop, DestInv, CallPlaces, FlagOf
  <2>4. StopInv'
    BY <1>1, <2>1 DEF OneLoop, StopInv, CallPlaces, SendPlaces
  <2>5. ASSUME NEW e \in EPs PROVE StreamInv(e)'
    <3>1. /\ HasFlag(e)' <=> HasFlag(e)
          /\ Pending(e)' <=> Pending(e)
      BY <2>1 DEF HasFlag, Pending, CallPlaces
    <3>2. StreamInv(e)
      BY DEF OneLoop
    <3>3. CASE e \in dest[Main]
      <4>1. HasFlag(e) /\ Starting(e) /\ Started(e)'
        BY <1>1, <2>1, <3>1, <3>3, FlagShared DEF Started, Starting, OneLoop, DestInv, CallPlaces
      <4>2. inbox[e] = <<>> /\ epc[e] = "outer" /\ tests[e] = 0 /\ ~EndSent(e)
        BY <3>2, <4>1 DEF StreamInv, Started, EndSent
      <4>4. ~Full(e)
        BY <4>2, NetAssumption DEF Full
      <4>3. InboxInv(e)' /\ ~EndSent(e)' /\ inbox'[e] # <<>> /\ inbox'[e][1] = StartMsg
        BY <1>1, <2>1, <2>2, <3>2, <3>3, <4>2, <4>4, InboxGrows DEF StreamInv
      <4>5. Pending(e)'
        BY <1>1, <3>1, <3>3 DEF Pending
      <4> QED
        BY <1>1, <2>1, <2>2, <3>1, <3>2, <4>1, <4>2, <4>3, <4>5 DEF StreamInv
    <3>4. CASE e \notin dest[Main]
      <4>1. Started(e)' <=> Started(e)
        BY <2>1, <3>1, <3>4 DEF Started, Starting
      <4>2. stopping' /\ HasFlag(e)' => EndGone(e) \/ Pending(e)'
        BY <1>1, <3>1, <3>2 DEF StreamInv
      <4> QED
        BY <1>1, <1>2, <2>1, <3>2, <3>4, <4>1, <4>2, StreamKept
    <3> QED
      BY <3>3, <3>4
  <2> QED
    BY <1>1, <2>3, <2>4, <2>5
<1>7. CASE DataSent(Main)
  <2>1. PICK msg \in DataMsgs(Main) : Deliver(dest[Main], msg)
    BY <1>7 DEF DataSent
  <2>2. /\ pc[Main] = "callData" /\ flagged' = flagged
        /\ inbox' = [e \in EPs |-> IF e \in dest[Main] /\ ~Full(e) THEN Append(inbox[e], msg)
                                                                   ELSE inbox[e]]
        /\ missed' = missed \cup {e \in dest[Main] : Full(e) /\ msg.size = 0}
    BY <1>7, <2>1 DEF DataSent, Deliver
  <2>3. msg \in Messages /\ (msg.start => msg.size = 1) /\ msg.size = size[Main]
    BY SentMessages
  <2>4. \/ /\ rest[Main] = {} /\ pc'[Main] = "sent" /\ UNCHANGED <<dest, rest>>
        \/ \E f \in EPs : /\ f \in rest[Main] /\ dest'[Main] = {f} /\ rest'[Main] = rest[Main] \ {f}
                          /\ pc'[Main] = "flag" /\ mode = "each"
    <3>1. CASE /\ rest[Main] = {}
               /\ Goto(Main, "sent")
               /\ UNCHANGED <<dest, rest>>
      BY <3>1
    <3>2. CASE \E f \in First(rest[Main]) : /\ dest' = [dest EXCEPT ![Main] = {f}]
                                           /\ rest' = [rest EXCEPT ![Main] = @ \ {f}]
                                           /\ Goto(Main, "flag")
      <4>1. PICK f \in First(rest[Main]) : /\ dest' = [dest EXCEPT ![Main] = {f}]
                                           /\ rest' = [rest EXCEPT ![Main] = @ \ {f}]
                                           /\ Goto(Main, "flag")
        BY <3>2
      <4>2. f \in rest[Main] /\ f \in EPs
        BY <1>3 DEF First
      <4>3. mode = "each"
        BY <4>2 DEF OneLoop, DestInv
      <4> QED
        BY <4>1, <4>2, <4>3
    <3> QED
      BY <1>7, <3>1, <3>2, Zenon DEF DataSent
  <2>5. DestInv'
    <3>1. CASE rest[Main] = {} /\ pc'[Main] = "sent" /\ UNCHANGED <<dest, rest>>
      BY <1>1, <2>2, <3>1 DEF OneLoop, DestInv, CallPlaces
    <3>2. CASE \E f \in EPs : /\ f \in rest[Main] /\ dest'[Main] = {f} /\ rest'[Main] = rest[Main] \ {f}
                              /\ pc'[Main] = "flag" /\ mode = "each"
      BY <1>1, <2>2, <3>2 DEF OneLoop, DestInv, CallPlaces
    <3> QED
      BY <2>4, <3>1, <3>2
  <2>6. StopInv'
    BY <1>1, <2>4 DEF OneLoop, StopInv, CallPlaces, SendPlaces
  <2>7. ASSUME NEW e \in EPs PROVE StreamInv(e)'
    <3>1. (HasFlag(e)' <=> HasFlag(e)) /\ StreamInv(e)
      BY <2>2 DEF HasFlag, OneLoop
    <3>2. (Started(e) <=> HasFlag(e)) /\ (Started(e)' <=> HasFlag(e))
      BY <2>2, <2>4, <3>1 DEF Started, Starting
    <3>3. CASE e \in dest[Main] /\ ~Full(e)
      <4>1. Started(e) /\ Started(e)'
        BY <1>1, <2>2, <3>2, <3>3, FlagShared DEF OneLoop, DestInv, CallPlaces
      <4>2. EndSent(e) => msg.size = 0
        BY <1>2, <2>3
      <4>3. /\ InboxInv(e)' /\ (EndSent(e)' <=> EndSent(e) \/ msg.size = 0)
            /\ inbox'[e] # <<>>
            /\ inbox[e] # <<>> => inbox'[e][1] = inbox[e][1]
        BY <1>1, <2>2, <2>3, <3>1, <3>3, <4>2, InboxGrows DEF StreamInv
      <4>4. EndSent(e)' => testDone' /\ size'[Main] = 0 /\ pc'[Main] \notin {"clear", "fill"}
        BY <1>1, <1>2, <2>3, <2>4, <4>3 DEF OneLoop, StopInv
      <4>5. stopping' => EndSent(e)'
        BY <1>1, <2>3, <4>3 DEF OneLoop, StopInv
      <4> QED
        BY <1>1, <3>1, <4>1, <4>3, <4>4, <4>5 DEF StreamInv, EndGone
    <3>4. CASE e \notin dest[Main]
      <4>1. stopping' /\ HasFlag(e)' => EndGone(e) \/ Pending(e)'
        BY <1>1, <2>4, <3>1, <3>4 DEF StreamInv, Pending, CallPlaces
      <4>2. EndSent(e) => testDone' /\ size'[Main] = 0 /\ pc'[Main] \notin {"clear", "fill"}
        BY <1>1, <1>2, <2>4
      <4>3. inbox'[e] = inbox[e]
        BY <2>2, <3>4
      <4> QED
        BY <1>1, <3>1, <3>2, <4>1, <4>2, <4>3, StreamKept
    <3>5. CASE e \in dest[Main] /\ Full(e)
      <4>1. stopping' => e \in missed'
        BY <1>1, <2>2, <2>3, <3>5 DEF OneLoop, StopInv
      <4>2. EndSent(e) => testDone' /\ size'[Main] = 0 /\ pc'[Main] \notin {"clear", "fill"}
        BY <1>1, <1>2, <2>4
      <4>3. inbox'[e] = inbox[e]
        BY <2>2, <3>5
      <4> QED
        BY <1>1, <3>1, <3>2, <4>1, <4>2, <4>3, StreamKept
    <3> QED
      BY <3>3, <3>4, <3>5
  <2> QED
    BY <1>1, <2>5, <2>6, <2>7
<1> QED
  BY <1>4, <1>5, <1>6, <1>7 DEF SendStep

-----------------------------------------------------------------------------
(* Threads: nothing but an empty message comes without START_SEND_DATA.    *)

LEMMA ThreadsHear ==
  ASSUME Types, StepInv, mode = "threads", \A e \in EPs : AllStart(e), Next, ~failed'
  PROVE  (\A e \in EPs : AllStart(e)') /\ skipped' = skipped
<1> USE MainApart DEF Types, At
<1>1. CASE \E p \in Procs, D \in SUBSET EPs, msg \in Messages :
             Deliver(D, msg) /\ (msg.size > 0 => msg.start) /\ skipped' = skipped
  <2>1. PICK D \in SUBSET EPs, msg \in Messages :
               Deliver(D, msg) /\ (msg.size > 0 => msg.start) /\ skipped' = skipped
    BY <1>1
  <2>2. ASSUME NEW e \in EPs PROVE AllStart(e)'
    <3>1. inbox[e] \in Seq(Messages) /\ AllStart(e)
      OBVIOUS
    <3>2. inbox'[e] = IF e \in D /\ ~Full(e) THEN Append(inbox[e], msg) ELSE inbox[e]
      BY <2>1 DEF Deliver
    <3>3. CASE e \in D /\ ~Full(e)
      <4>1. /\ inbox'[e][Len(inbox[e]) + 1] = msg
            /\ \A i \in 1 .. Len(inbox[e]) : inbox'[e][i] = inbox[e][i]
            /\ \A i \in 1 .. Len(inbox'[e]) : i \in 1 .. Len(inbox[e]) \/ i = Len(inbox[e]) + 1
        BY <3>1, <3>2, <3>3, Appended
      <4> QED
        BY <2>1, <3>1, <4>1 DEF AllStart
    <3>4. CASE ~(e \in D /\ ~Full(e))
      BY <3>1, <3>2, <3>4 DEF AllStart
    <3> QED
      BY <3>3, <3>4
  <2> QED
    BY <2>1, <2>2
<1>2. CASE \E p \in Procs : StartSent(p)
  <2>1. PICK p \in Procs : StartSent(p)
    BY <1>2
  <2>2. Deliver(dest[p], StartMsg) /\ skipped' = skipped /\ dest[p] \in SUBSET EPs
    BY <2>1 DEF StartSent, epVars, linkVars
  <2> QED
    BY <1>1, <2>2, SentMessages
<1>3. CASE \E p \in Procs : DataSent(p)
  <2>1. PICK p \in Procs : DataSent(p)
    BY <1>3
  <2>2. PICK msg \in DataMsgs(p) : Deliver(dest[p], msg)
    BY <2>1 DEF DataSent
  <2>3. p = Main => size[p] = 0
    BY <2>1 DEF DataSent, StepInv, SendPlaces
  <2>4. msg \in Messages /\ (msg.size > 0 => msg.start)
    BY <2>3, SentMessages
  <2>5. skipped' = skipped /\ dest[p] \in SUBSET EPs
    BY <2>1 DEF DataSent, epVars, linkVars
  <2> QED
    BY <1>1, <2>2, <2>4, <2>5
<1>4. CASE \E e \in EPs : EpRecv(e)
  <2>1. PICK t \in EPs : EpRecv(t)
    BY <1>4
  <2>2. /\ inbox[t] \in Seq(Messages) /\ inbox[t] # <<>> /\ inbox' = [inbox EXCEPT ![t] = Tail(@)]
    BY <2>1 DEF EpRecv
  <2>3. /\ Head(inbox[t]) = inbox[t][1] /\ Head(inbox[t]) \in Messages /\ 1 \in 1 .. Len(inbox[t])
        /\ \A i \in 1 .. Len(inbox'[t]) : i + 1 \in 1 .. Len(inbox[t]) /\ inbox'[t][i] = inbox[t][i + 1]
    BY <2>2, Received
  <2>4. AllStart(t)'
    BY <2>3 DEF AllStart
  <2>5. ~(~Head(inbox[t]).start /\ Head(inbox[t]).size > 0)
    BY <2>3 DEF AllStart
  <2>6. skipped' = skipped
    BY <2>1, <2>5 DEF EpRecv
  <2> QED
    BY <2>2, <2>4, <2>6 DEF AllStart
<1>5. CASE inbox' = inbox /\ skipped' = skipped
  BY <1>5 DEF AllStart
<1>6. Top \/ SemWait \/ Clear \/ Fill \/ SemPost \/ MainSent \/ Signal => inbox' = inbox /\ skipped' = skipped
  BY DEF Top, SemWait, Clear, Fill, SemPost, MainSent, Signal, epVars, linkVars
<1>7. \A p \in Procs : Flag(p) \/ Lock(p) => inbox' = inbox /\ skipped' = skipped
  BY DEF Flag, Lock, epVars, linkVars
<1>8. \A e \in EPs : ThreadWait(e) \/ ThreadRead(e) \/ ThreadPost(e) => inbox' = inbox /\ skipped' = skipped
  BY DEF ThreadWait, ThreadRead, ThreadPost, epVars, linkVars
<1>9. \A p \in Procs : ~SendFails(p)
  BY DEF SendFails
<1> QED
  BY <1>2, <1>3, <1>4, <1>5, <1>6, <1>7, <1>8, <1>9 DEF Next, MainStep, ThreadStep, SendStep

LEMMA LoopHears ==
  ASSUME Types, OneLoop, Next, ~failed'
  PROVE  DestInv' /\ StopInv' /\ (\A e \in EPs : StreamInv(e)') /\ ~skipped'
<1> USE MainApart DEF At
<1>1. CASE Top \/ Clear \/ Fill \/ MainSent \/ Signal
  BY <1>1, LoopTurns DEF OneLoop
<1>2. CASE SendStep(Main)
  BY <1>2, LoopSends DEF OneLoop
<1>3. CASE \E e \in EPs : EpRecv(e)
  <2>1. PICK t \in EPs : EpRecv(t)
    BY <1>3
  <2>2. /\ UNCHANGED <<mode, pc, dest, rest, flagged, testDone, stopping, size, missed>>
        /\ \A e \in EPs : e # t => inbox'[e] = inbox[e] /\ epc'[e] = epc[e] /\ tests'[e] = tests[e]
    BY <2>1 DEF EpRecv, sendVars, linkVars, doneVars, Types
  <2>3. DestInv' /\ StopInv'
    BY <2>2 DEF OneLoop, DestInv, StopInv, FlagOf
  <2>4. ASSUME NEW e \in EPs, e # t PROVE StreamInv(e)'
    <3>1. /\ Started(e)' <=> Started(e)
          /\ HasFlag(e)' <=> HasFlag(e)
          /\ Pending(e)' <=> Pending(e)
      BY <2>2 DEF Started, Starting, HasFlag, Pending
    <3>2. StreamInv(e)
      BY DEF OneLoop
    <3> QED
      BY <2>2, <2>4, <3>1, <3>2, StreamKept DEF StreamInv
  <2>5. StreamInv(t)' /\ skipped' = skipped
    BY <2>1, FetchKeeps DEF OneLoop
  <2> QED
    BY <2>3, <2>4, <2>5 DEF OneLoop
<1>4. ~SemWait /\ ~SemPost
  BY DEF SemWait, SemPost, OneLoop, LoopInv
<1>5. \A p \in Procs : ~SendFails(p)
  BY DEF SendFails
<1>6. ASSUME NEW e \in EPs PROVE ~ThreadStep(e)
  BY DEF OneLoop, LoopInv, ThreadStep, ThreadWait, ThreadRead, ThreadPost, Flag, Lock, StartSent, DataSent
<1> QED
  BY <1>1, <1>2, <1>3, <1>4, <1>5, <1>6 DEF Next, MainStep

LEMMA HearInit == Init => HearInv
<1> SUFFICES ASSUME Init PROVE HearInv
  OBVIOUS
<1>1. /\ pc[Main] = "top" /\ flagged = {} /\ ~stopping /\ ~skipped /\ rest[Main] = {}
      /\ \A e \in EPs : inbox[e] = <<>> /\ epc[e] = "outer" /\ tests[e] = 0
  BY MainApart DEF Init
<1>2. DestInv /\ StopInv
  BY <1>1 DEF DestInv, StopInv, CallPlaces
<1>3. ASSUME NEW e \in EPs PROVE StreamInv(e) /\ AllStart(e)
  <2>1. ~Started(e) /\ Len(inbox[e]) = 0 /\ ~EndSent(e) /\ ~HasFlag(e)
    BY <1>1 DEF Started, HasFlag, EndSent
  <2> QED
    BY <1>1, <2>1 DEF StreamInv, InboxInv, AllStart
<1> QED
  BY <1>1, <1>2, <1>3 DEF HearInv

LEMMA FailedStays == Types /\ Next /\ failed => failed'
BY DEF Next, MainStep, SendStep, ThreadStep, Top, SemWait, Clear, Fill, SemPost, MainSent, Signal,
       Flag, Lock, StartSent, DataSent, SendFails, ThreadWait, ThreadRead, ThreadPost, EpRecv

LEMMA HearSteps == Types /\ LockInv /\ HearInv /\ [Next]_vars => HearInv'
<1> SUFFICES ASSUME Types, LockInv, HearInv, [Next]_vars, ~failed' PROVE HearInv'
  BY DEF HearInv
<1>1. CASE Next
  <2>1. ~failed /\ ~skipped /\ mode' = mode
    BY <1>1, FailedStays, ModeKept DEF HearInv
  <2>2. CASE mode = "threads"
    <3>1. StepInv /\ \A e \in EPs : AllStart(e)
      BY <2>1, <2>2 DEF LockInv, HearInv
    <3>2. (\A e \in EPs : AllStart(e)') /\ skipped' = skipped
      BY <1>1, <2>2, <3>1, ThreadsHear
    <3> QED
      BY <2>1, <2>2, <3>2 DEF HearInv
  <2>3. CASE mode # "threads"
    <3>1. mode \in {"each", "all", "one"}
      BY <2>3, NetAssumption DEF Types
    <3>2. OneLoop
      BY <2>1, <2>3, <3>1 DEF OneLoop, LockInv, HearInv
    <3>3. DestInv' /\ StopInv' /\ (\A e \in EPs : StreamInv(e)') /\ ~skipped'
      BY <1>1, <3>2, LoopHears
    <3> QED
      BY <2>1, <2>3, <3>3 DEF HearInv
  <2> QED
    BY <2>2, <2>3
<1>2. CASE UNCHANGED vars
  BY <1>2 DEF vars, semVars, linkVars, sendVars, epVars, doneVars, HearInv, DestInv, StopInv,
     StreamInv, InboxInv, EndGone, AllStart, Started, Starting, HasFlag, Pending, EndSent, FlagOf
<1> QED
  BY <1>1, <1>2

LEMMA HearInvariant == Spec => [](Types /\ LockInv /\ HearInv)
BY InitTypes, StepTypes, LockInit, LockSteps, HearInit, HearSteps, PTL DEF Spec

\* Whatever the number of endpoints, the option and the interleaving, as long as
\* no send fails no endpoint ever throws a batch away for want of the start flag.
THEOREM NetNothingSkipped == Spec => []NothingSkipped
<1>1. HearInv => NothingSkipped
  BY DEF HearInv, NothingSkipped
<1> QED
  BY <1>1, HearInvariant, PTL

\* For every number of endpoints and every depth of their FIFOs: when a program
\* with one sending loop returns and no send has failed, an endpoint it ever sent
\* to that has read all it got has ended its test, exactly once, or has thrown an
\* empty message away out of a full FIFO and counts on.
THEOREM NetStopStops == Spec => []StopStops
<1>1. Types /\ HearInv => StopStops
  <2> SUFFICES ASSUME Types, HearInv, mode # "threads", ~failed, pc[Main] = "done",
                      NEW e \in EPs, inbox[e] = <<>>, flagged \cap {e, Main} # {}
               PROVE  \/ epc[e] = "outer" /\ tests[e] = 1
                      \/ e \in missed /\ epc[e] = "count" /\ tests[e] = 0
    BY DEF StopStops
  <2>1. stopping /\ StreamInv(e) /\ HasFlag(e) /\ ~Starting(e) /\ ~Pending(e)
    BY DEF HearInv, StopInv, HasFlag, Starting, Pending, CallPlaces
  <2>2. tests[e] \in {0, 1} /\ epc[e] \in {"outer", "count"} /\ Len(inbox[e]) = 0
    BY <2>1 DEF StreamInv, InboxInv, Types
  <2>3. CASE tests[e] = 1
    BY <2>1, <2>3 DEF StreamInv, InboxInv
  <2>4. CASE tests[e] = 0
    <3>1. ~EndSent(e)
      BY <2>2, <2>4 DEF EndSent
    <3>2. e \in missed
      BY <2>1, <3>1 DEF StreamInv, EndGone
    <3>3. epc[e] = "count"
      BY <2>1, <2>2, <2>4 DEF StreamInv, Started
    <3> QED
      BY <2>4, <3>2, <3>3
  <2> QED
    BY <2>2, <2>3, <2>4
<1> QED
  BY <1>1, HearInvariant, PTL
=============================================================================
