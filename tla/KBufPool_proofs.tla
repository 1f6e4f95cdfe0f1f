--------------------------- MODULE KBufPool_proofs ---------------------------
(***************************************************************************)
(* Proofs about the receive FIFO, for every number of buffers, every set   *)
(* of reader threads, both kinds of FIFO and both ways of starting.        *)
(***************************************************************************)
EXTENDS KBufPool, FiniteSetTheorems, TLAPS

LEMMA WorkerType ==
  ASSUME PoolAssumption, TypeOK, WorkerBegin \/ Worker \/ WorkerDmaError
  PROVE  TypeOK'
<1> USE PoolAssumption DEF TypeOK, Bufs
<1>1. CASE WorkerBegin
  BY <1>1 DEF WorkerBegin, readerVars, sessionVars
<1>2. CASE WorkerSeesRoom
  BY <1>2 DEF WorkerSeesRoom, readerVars, sessionVars
<1>3. CASE WorkerDrop
  BY <1>3 DEF WorkerDrop, WakeReaders, sessionVars
<1>4. CASE WorkerSleep
  BY <1>4 DEF WorkerSleep, readerVars, sessionVars
<1>5. CASE WorkerGetEmpty
  <2>1. wbuf' \in Bufs /\ emptyQue' \in Seq(Bufs)
    BY <1>5 DEF WorkerGetEmpty, Get
  <2> QED
    BY <1>5, <2>1 DEF WorkerGetEmpty, Partial, readerVars, sessionVars
<1>6. CASE WorkerCopied
  BY <1>6 DEF WorkerCopied, readerVars, sessionVars
<1>7. CASE WorkerDmaError
  BY <1>7 DEF WorkerDmaError, readerVars, sessionVars
<1>8. CASE WorkerSetFull
  BY <1>8 DEF WorkerSetFull, Put, WakeReaders, sessionVars
<1>9. CASE WorkerUndo
  BY <1>9 DEF WorkerUndo, Put, WakeReaders, sessionVars
<1> QED
  BY <1>1, <1>2, <1>3, <1>4, <1>5, <1>6, <1>7, <1>8, <1>9 DEF Worker

LEMMA ReaderType ==
  ASSUME PoolAssumption, TypeOK, NEW r \in Readers, Reader(r) \/ DequeSignal(r)
  PROVE  TypeOK'
<1> USE PoolAssumption DEF TypeOK, Bufs, workerVars, sessionVars
<1>1. CASE DequeCall(r)
  BY <1>1 DEF DequeCall, Goto
<1>2. CASE DequeSleep(r)
  BY <1>2 DEF DequeSleep, Goto
<1>3. CASE DequeSeesFrame(r)
  BY <1>3 DEF DequeSeesFrame, Goto
<1>4. CASE DequeSignal(r)
  BY <1>4 DEF DequeSignal, Goto
<1>5. CASE DequeRecheck(r)
  BY <1>5 DEF DequeRecheck, Goto
<1>6. CASE DequeGetFull(r)
  <2>1. Head(fullQue) \in Bufs /\ fullQue' \in Seq(Bufs)
    BY <1>6, SMTT(30) DEF DequeGetFull
  <2> QED
    BY <1>6, <2>1 DEF DequeGetFull, Goto
<1>7. CASE QueBuf(r)
  BY <1>7 DEF QueBuf, Put
<1> QED
  BY <1>1, <1>2, <1>3, <1>4, <1>5, <1>6, <1>7 DEF Reader

LEMMA SessionType ==
  ASSUME PoolAssumption, TypeOK, Application \/ Kill
  PROVE  TypeOK'
<1> USE PoolAssumption DEF TypeOK, Bufs, Resetting, workerVars, readerVars
<1>1. CASE Open
  BY <1>1 DEF Open
<1>2. CASE ResetEmptyQue
  BY <1>2 DEF ResetEmptyQue
<1>3. CASE ResetFullQue
  BY <1>3 DEF ResetFullQue
<1>4. CASE RefillPut
  BY <1>4 DEF RefillPut, Put
<1>5. CASE RefillDone
  BY <1>5 DEF RefillDone
<1>6. CASE Kill
  BY <1>6 DEF Kill
<1> QED
  BY <1>1, <1>2, <1>3, <1>4, <1>5, <1>6 DEF Application

LEMMA InitType == PoolAssumption /\ Init => TypeOK
<1> SUFFICES ASSUME PoolAssumption, Init PROVE TypeOK
  OBVIOUS
<1>1. emptyQue \in Seq(Bufs) /\ fullQue \in Seq(Bufs)
  BY DEF Init, Bufs, PoolAssumption
<1>2. content \in [Bufs -> 0 .. MaxFrames] /\ sent \in 0 .. MaxFrames /\ wbuf \in Bufs
  BY DEF Init, Bufs, Partial, PoolAssumption
<1>3. /\ rpc \in [Readers -> {"user", "wait", "asleep", "recheck", "get", "hold"}]
      /\ rbuf \in [Readers -> Bufs]
  BY DEF Init, Bufs, PoolAssumption
<1>4. refill \in 0 .. NumBuf /\ kills \in 0 .. MaxKills /\ clashed \in BOOLEAN
  <2>1. refill \in 0 .. NumBuf /\ kills \in 0 .. MaxKills
    BY PoolAssumption DEF Init
  <2>2. clashed \in BOOLEAN
    BY Zenon DEF Init
  <2> QED  BY <2>1, <2>2
<1> QED
  BY <1>1, <1>2, <1>3, <1>4 DEF Init, TypeOK

\* Every variable of the pool stays within its type: in particular only valid
\* indices ever travel through the two queues.
THEOREM PoolType == Spec => []TypeOK
<1>1. Init => TypeOK
  BY PoolAssumption, InitType
<1>2. TypeOK /\ [Next]_vars => TypeOK'
  <2> SUFFICES ASSUME TypeOK, [Next]_vars PROVE TypeOK'
    OBVIOUS
  <2>1. CASE Next
    BY <2>1, PoolAssumption, WorkerType, ReaderType, SessionType DEF Next
  <2>2. CASE UNCHANGED vars
    BY <2>2 DEF vars, workerVars, readerVars, sessionVars, TypeOK
  <2> QED
    BY <2>1, <2>2
<1> QED
  BY <1>1, <1>2, PTL DEF Spec

-----------------------------------------------------------------------------
(* One place per buffer.  The two queues are injective and disjoint, so a  *)
(* put of a buffer that is in neither and a get keep them so.              *)

LEMMA PutInjective ==
  ASSUME NEW S, NEW s \in Seq(S), NEW b \in S, IsInjective(s), b \notin Range(s)
  PROVE  /\ IsInjective(Append(s, b))
         /\ Range(Append(s, b)) = Range(s) \cup {b}
<1> DEFINE t == Append(s, b)
<1>1. /\ Len(s) \in Nat
      /\ DOMAIN s = 1 .. Len(s)
      /\ DOMAIN t = 1 .. Len(s) + 1
      /\ \A i \in 1 .. Len(s) : t[i] = s[i]
      /\ t[Len(s) + 1] = b
  OBVIOUS
<1> HIDE DEF t
<1>2. IsInjective(t)
  BY <1>1 DEF IsInjective, Range
<1>3. Range(t) = Range(s) \cup {b}
  BY <1>1 DEF Range
<1> QED
  BY <1>2, <1>3 DEF t

LEMMA GetInjective ==
  ASSUME NEW S, NEW s \in Seq(S), s # <<>>, IsInjective(s)
  PROVE  /\ IsInjective(Tail(s))
         /\ Range(Tail(s)) = Range(s) \ {Head(s)}
         /\ Head(s) \in Range(s)
<1> DEFINE t == Tail(s)
<1>1. /\ Len(s) \in Nat /\ Len(s) > 0
      /\ DOMAIN s = 1 .. Len(s)
      /\ DOMAIN t = 1 .. Len(s) - 1
      /\ \A i \in 1 .. Len(s) - 1 : t[i] = s[i + 1]
      /\ Head(s) = s[1]
  OBVIOUS
<1> HIDE DEF t
<1>2. IsInjective(t)
  BY <1>1, SMTT(30) DEF IsInjective
<1>3. Head(s) \in Range(s)
  BY <1>1 DEF Range
<1>4. ASSUME NEW x \in Range(t) PROVE x \in Range(s) \ {Head(s)}
  <2>1. PICK i \in 1 .. Len(s) - 1 : x = t[i]
    BY <1>1 DEF Range
  <2>2. i + 1 \in 1 .. Len(s) /\ i + 1 # 1 /\ x = s[i + 1]
    BY <2>1, <1>1
  <2> QED
    BY <2>2, <1>1 DEF Range, IsInjective
<1>5. ASSUME NEW x \in Range(s) \ {Head(s)} PROVE x \in Range(t)
  <2>1. PICK i \in 1 .. Len(s) : x = s[i]
    BY <1>1 DEF Range
  <2>2. i # 1 /\ i - 1 \in 1 .. Len(s) - 1 /\ i = (i - 1) + 1
    BY <2>1, <1>1, <1>5
  <2>3. t[i - 1] = x
    BY <2>1, <2>2, <1>1
  <2> QED
    BY <2>2, <2>3, <1>1 DEF Range
<1> QED
  BY <1>2, <1>3, <1>4, <1>5 DEF t

LEMMA EmptyInjective == IsInjective(<<>>) /\ Range(<<>>) = {}
  BY DEF IsInjective, Range

\* Nothing is read from a clash but the fact that there was one.
LEMMA ClashStays ==
  ASSUME TypeOK, [Next]_vars, clashed
  PROVE  clashed'
<1>1. CASE WorkerBegin \/ Worker \/ WorkerDmaError
  BY <1>1 DEF WorkerBegin, Worker, WorkerSeesRoom, WorkerDrop, WorkerSleep, WorkerGetEmpty, WorkerCopied,
     WorkerSetFull, WorkerUndo, WorkerDmaError, sessionVars
<1>2. ASSUME NEW r \in Readers, Reader(r) \/ DequeSignal(r)
      PROVE  clashed'
  BY <1>2 DEF Reader, DequeCall, DequeSleep, DequeSeesFrame, DequeRecheck, DequeGetFull, DequeSignal,
     QueBuf, sessionVars
<1>3. CASE Application \/ Kill
  BY <1>3 DEF Application, Open, ResetEmptyQue, ResetFullQue, RefillPut, RefillDone, Kill
<1>4. CASE UNCHANGED vars
  BY <1>4 DEF vars, sessionVars
<1> QED
  BY <1>1, <1>2, <1>3, <1>4 DEF Next

LEMMA WorkerOwner ==
  ASSUME PoolAssumption, PoolInv, WorkerBegin \/ Worker \/ WorkerDmaError, ~clashed
  PROVE  Exclusive' /\ ResetInv'
<1> USE PoolAssumption DEF PoolInv, TypeOK, Resetting, OneOwner
<1>1. ASSUME UNCHANGED <<emptyQue, fullQue, readerVars, wbuf>>, HasBuf' => HasBuf
      PROVE  Exclusive' /\ Owned' \subseteq Owned
  BY <1>1 DEF Exclusive, Owned, Queued, Held, Holding, HasBuf, readerVars
<1>2. CASE WorkerBegin \/ WorkerSeesRoom \/ WorkerSleep \/ WorkerCopied \/ WorkerDmaError
  <2>1. /\ UNCHANGED <<emptyQue, fullQue, readerVars, wbuf, sessionVars>>
        /\ HasBuf' => HasBuf
    BY <1>2 DEF WorkerBegin, WorkerSeesRoom, WorkerSleep, WorkerCopied, WorkerDmaError, HasBuf
  <2> QED
    BY <1>1, <2>1 DEF ResetInv, readerVars, sessionVars
<1>4. CASE WorkerDrop
  <2>1. Owned' \subseteq Owned
    BY <1>4 DEF WorkerDrop, WakeReaders, Owned, Queued, Held, Holding, HasBuf
  <2> QED
    BY <1>4, <2>1 DEF WorkerDrop, WakeReaders, Exclusive, Queued, Holding, HasBuf, ResetInv, sessionVars
<1>6. CASE WorkerGetEmpty
  <2>1. /\ IsInjective(emptyQue')
        /\ Range(emptyQue') = Range(emptyQue) \ {wbuf'}
        /\ wbuf' \in Range(emptyQue)
    BY <1>6, GetInjective DEF WorkerGetEmpty, Get, Exclusive
  <2>2. Exclusive'
    BY <1>6, <2>1 DEF WorkerGetEmpty, Exclusive, Queued, Holding, HasBuf, readerVars
  <2>3. Owned' \subseteq Owned
    BY <1>6, <2>1 DEF WorkerGetEmpty, Owned, Queued, Held, Holding, HasBuf, readerVars
  <2>4. session # "resetFull"
    BY <1>6 DEF WorkerGetEmpty, Get, ResetInv
  <2>5. ResetInv'
    BY <1>6, <2>3, <2>4 DEF WorkerGetEmpty, ResetInv, readerVars, sessionVars
  <2> QED  BY <2>2, <2>5
<1>9. CASE WorkerSetFull
  <2>1. /\ IsInjective(fullQue')
        /\ Range(fullQue') = Range(fullQue) \cup {wbuf}
    BY <1>9, PutInjective DEF WorkerSetFull, Put, Exclusive, Queued, HasBuf
  <2>2. Exclusive'
    BY <1>9, <2>1 DEF WorkerSetFull, WakeReaders, Exclusive, Queued, Holding, HasBuf
  <2>3. Owned' \subseteq Owned
    BY <1>9, <2>1 DEF WorkerSetFull, WakeReaders, Owned, Queued, Held, Holding, HasBuf
  <2>4. ResetInv'
    BY <1>9, <2>3 DEF WorkerSetFull, WakeReaders, ResetInv, HasBuf, sessionVars
  <2> QED  BY <2>2, <2>4
<1>10. CASE WorkerUndo
  <2>1. /\ IsInjective(emptyQue')
        /\ Range(emptyQue') = Range(emptyQue) \cup {wbuf}
    BY <1>10, PutInjective DEF WorkerUndo, Put, Exclusive, Queued, HasBuf
  <2>2. Exclusive'
    BY <1>10, <2>1 DEF WorkerUndo, WakeReaders, Exclusive, Queued, Holding, HasBuf
  <2>3. Owned' \subseteq Owned
    BY <1>10, <2>1 DEF WorkerUndo, WakeReaders, Owned, Queued, Held, Holding, HasBuf
  <2>4. ResetInv'
    BY <1>10, <2>3 DEF WorkerUndo, WakeReaders, ResetInv, HasBuf, sessionVars
  <2> QED  BY <2>2, <2>4
<1> QED
  BY <1>2, <1>4, <1>6, <1>9, <1>10 DEF Worker

LEMMA ReaderOwner ==
  ASSUME PoolAssumption, PoolInv, NEW r \in Readers, Reader(r) \/ DequeSignal(r), ~clashed
  PROVE  Exclusive' /\ ResetInv'
<1> USE PoolAssumption DEF PoolInv, TypeOK, OneOwner
<1>1. session = "open" /\ session' = session
  BY DEF Reader, DequeSignal, DequeCall, DequeSleep, DequeSeesFrame, DequeRecheck, DequeGetFull,
         QueBuf, Goto, Holding, ResetInv, sessionVars
<1>2. ResetInv'
  BY <1>1 DEF ResetInv, Resetting
<1>3. ASSUME UNCHANGED <<emptyQue, fullQue, workerVars, rbuf>>,
             \A t \in Readers : Holding(t)' => Holding(t)
      PROVE  Exclusive'
  BY <1>3 DEF Exclusive, Queued, HasBuf, workerVars
<1>4. CASE \/ DequeCall(r) \/ DequeSleep(r) \/ DequeSeesFrame(r) \/ DequeRecheck(r)
           \/ DequeSignal(r)
  BY <1>2, <1>3, <1>4
  DEF DequeCall, DequeSleep, DequeSeesFrame, DequeRecheck, DequeSignal, Goto, Holding, workerVars
<1>9. CASE DequeGetFull(r)
  <2>1. /\ IsInjective(fullQue')
        /\ Range(fullQue') = Range(fullQue) \ {rbuf'[r]}
        /\ rbuf'[r] \in Range(fullQue)
    BY <1>9, GetInjective DEF DequeGetFull, Exclusive
  <2> QED
    BY <1>2, <1>9, <2>1 DEF DequeGetFull, Goto, Exclusive, Queued, Holding, HasBuf, workerVars
<1>10. CASE QueBuf(r)
  <2>1. /\ IsInjective(emptyQue')
        /\ Range(emptyQue') = Range(emptyQue) \cup {rbuf[r]}
    BY <1>10, PutInjective DEF QueBuf, Put, Exclusive, Queued
  <2> QED
    BY <1>2, <1>10, <2>1 DEF QueBuf, Exclusive, Queued, Holding, HasBuf
<1> QED
  BY <1>2, <1>4, <1>9, <1>10 DEF Reader

LEMMA SessionOwner ==
  ASSUME PoolAssumption, PoolInv, Application \/ Kill, ~clashed, ~clashed'
  PROVE  Exclusive' /\ ResetInv'
<1> USE PoolAssumption DEF PoolInv, TypeOK, Resetting, OneOwner
<1>1. ASSUME UNCHANGED <<emptyQue, fullQue, workerVars, readerVars>>
      PROVE  Exclusive'
  BY <1>1 DEF Exclusive, Queued, Holding, HasBuf, workerVars, readerVars
<1>2. CASE Open \/ RefillDone
  BY <1>1, <1>2 DEF Open, RefillDone, ResetInv, workerVars, readerVars
<1>3. CASE ResetEmptyQue
  <2>1. ~HasBuf
    BY <1>3 DEF ResetEmptyQue
  <2> QED
    BY <1>3, <2>1, EmptyInjective
    DEF ResetEmptyQue, Exclusive, Queued, Holding, HasBuf, ResetInv, workerVars, readerVars
<1>4. CASE ResetFullQue
  <2>1. Exclusive'
    BY <1>4, EmptyInjective
    DEF ResetFullQue, Exclusive, Queued, Holding, HasBuf, ResetInv, workerVars, readerVars
  <2>2. Owned' = {}
    BY <1>4, EmptyInjective
    DEF ResetFullQue, ResetInv, Owned, Queued, Held, Holding, HasBuf, workerVars, readerVars
  <2> QED
    BY <1>4, <2>1, <2>2 DEF ResetFullQue, ResetInv, workerVars, readerVars
<1>5. CASE RefillPut
  <2>0. Held = {} /\ Held' = {}
    BY <1>5 DEF RefillPut, ResetInv, Held, Holding, readerVars
  <2>1. refill \in Bufs /\ refill \notin Owned
    BY <1>5 DEF RefillPut, ResetInv, Bufs
  <2>2. /\ IsInjective(emptyQue')
        /\ Range(emptyQue') = Range(emptyQue) \cup {refill}
    BY <1>5, <2>1, PutInjective DEF RefillPut, Put, Exclusive, Owned, Queued
  <2>3. Exclusive'
    BY <1>5, <2>0, <2>1, <2>2
    DEF RefillPut, Exclusive, Owned, Queued, Held, Holding, HasBuf, workerVars, readerVars
  <2>4. Owned' = Owned \cup {refill}
    BY <1>5, <2>2 DEF RefillPut, Owned, Queued, Held, Holding, HasBuf, workerVars, readerVars
  <2>5. Owned \subseteq Nat
    BY <2>0 DEF Owned, Queued, Range, Bufs
  <2>6. ResetInv'
    BY <1>5, <2>4, <2>5 DEF RefillPut, ResetInv, workerVars, readerVars
  <2> QED  BY <2>3, <2>6
<1>7. CASE Kill
  BY <1>7 DEF Kill, Exclusive, Queued, Holding, HasBuf, ResetInv, workerVars
<1> QED
  BY <1>2, <1>3, <1>4, <1>5, <1>7 DEF Application

\* The part that does not depend on the history: no reader before the start is over.
NoReader == session # "open" => \A r \in Readers : rpc[r] = "user"

LEMMA NoReaderStep ==
  ASSUME TypeOK, NoReader, [Next]_vars
  PROVE  NoReader'
<1> USE DEF TypeOK, NoReader
<1>1. CASE WorkerBegin \/ Worker \/ WorkerDmaError
  BY <1>1 DEF WorkerBegin, Worker, WorkerSeesRoom, WorkerDrop, WorkerSleep, WorkerGetEmpty, WorkerCopied,
     WorkerSetFull, WorkerUndo, WorkerDmaError, WakeReaders, readerVars, sessionVars
<1>2. ASSUME NEW r \in Readers, Reader(r) \/ DequeSignal(r)
      PROVE  NoReader'
  BY <1>2 DEF Reader, DequeCall, DequeSleep, DequeSeesFrame, DequeRecheck, DequeGetFull, DequeSignal,
     QueBuf, Goto, Holding, sessionVars
<1>3. CASE Application \/ Kill
  BY <1>3 DEF Application, Open, ResetEmptyQue, ResetFullQue, RefillPut, RefillDone, Kill, readerVars
<1>4. CASE UNCHANGED vars
  BY <1>4 DEF vars, readerVars, sessionVars
<1> QED
  BY <1>1, <1>2, <1>3, <1>4 DEF Next

LEMMA PoolInvariant == Spec => []PoolInv
<1>1. Init => PoolInv
  <2> SUFFICES ASSUME Init PROVE PoolInv
    OBVIOUS
  <2>1. TypeOK
    BY PoolAssumption, InitType
  <2>2. OneOwner
    BY PoolAssumption DEF Init, OneOwner, Exclusive, Queued, Holding, HasBuf, IsInjective, Range
  <2>3. ResetInv
    BY DEF Init, ResetInv, Resetting
  <2> QED  BY <2>1, <2>2, <2>3 DEF PoolInv
<1>2. PoolInv /\ [Next]_vars => PoolInv'
  <2> SUFFICES ASSUME PoolInv, [Next]_vars PROVE PoolInv'
    OBVIOUS
  <2>1. TypeOK'
    <3>1. CASE Next
      BY <3>1, PoolAssumption, WorkerType, ReaderType, SessionType DEF Next, PoolInv
    <3>2. CASE UNCHANGED vars
      BY <3>2 DEF vars, workerVars, readerVars, sessionVars, PoolInv, TypeOK
    <3> QED  BY <3>1, <3>2
  <2>2. CASE clashed'
    <3>1. NoReader'
      BY NoReaderStep DEF PoolInv, ResetInv, NoReader
    <3> QED
      BY <2>1, <2>2, <3>1 DEF PoolInv, OneOwner, ResetInv, NoReader
  <2>3. CASE Next /\ ~clashed'
    <3>1. ~clashed
      BY <2>3, ClashStays DEF PoolInv
    <3>2. Exclusive' /\ ResetInv'
      BY <2>3, <3>1, PoolAssumption, WorkerOwner, ReaderOwner, SessionOwner DEF Next
    <3> QED  BY <2>1, <3>2 DEF PoolInv, OneOwner
  <2>4. CASE UNCHANGED vars
    BY <2>4 DEF vars, workerVars, readerVars, sessionVars, PoolInv, TypeOK, OneOwner, Exclusive, ResetInv,
                Owned, Held, Queued, Holding, HasBuf
  <2> QED
    BY <2>2, <2>3, <2>4
<1> QED
  BY <1>1, <1>2, PTL DEF Spec

\* The only thing that ever gives a buffer two places is the reset of emptyQue
\* while the worker has a buffer in hand.  At any other moment of a start the RC
\* may send: neither the worker nor a second reader can overwrite or return a
\* buffer somebody else is using, lock or no lock.
THEOREM PoolOneOwner == Spec => []OneOwner
<1>1. PoolInv => OneOwner
  BY DEF PoolInv
<1> QED
  BY <1>1, PoolInvariant, PTL

\* Applications that start without clearing the queues never meet that moment:
\* then a buffer has one place whatever the RC does and whenever.
THEOREM PoolExclusive ==
  ASSUME ~EnClearBuf
  PROVE  Spec => []Exclusive
<1> DEFINE Quiet == session \notin Resetting /\ ~clashed
<1>1. Init => Quiet
  BY DEF Init, Resetting
<1>2. Quiet /\ [Next]_vars => Quiet'
  <2> SUFFICES ASSUME Quiet, [Next]_vars PROVE Quiet'
    OBVIOUS
  <2>1. CASE WorkerBegin \/ Worker \/ WorkerDmaError
    BY <2>1 DEF WorkerBegin, Worker, WorkerSeesRoom, WorkerDrop, WorkerSleep, WorkerGetEmpty,
       WorkerCopied, WorkerSetFull, WorkerUndo, WorkerDmaError, sessionVars
  <2>2. ASSUME NEW r \in Readers, Reader(r) \/ DequeSignal(r)
        PROVE  Quiet'
    BY <2>2 DEF Reader, DequeCall, DequeSleep, DequeSeesFrame, DequeRecheck, DequeGetFull, DequeSignal,
       QueBuf, sessionVars
  <2>3. CASE Application \/ Kill
    BY <2>3, ~EnClearBuf DEF Application, Open, ResetEmptyQue, ResetFullQue, RefillPut, RefillDone, Kill,
       Resetting
  <2>4. CASE UNCHANGED vars
    BY <2>4 DEF vars, sessionVars
  <2> QED
    BY <2>1, <2>2, <2>3, <2>4 DEF Next
<1>3. PoolInv /\ Quiet => Exclusive
  BY DEF PoolInv, OneOwner
<1> QED
  BY <1>1, <1>2, <1>3, PoolInvariant, PTL DEF Spec

-----------------------------------------------------------------------------
(* No spinning.  A queue that lacks a buffer has room: an injective        *)
(* sequence is no longer than the set its elements are from.               *)

LEMMA SeqIsFunction ==
  ASSUME NEW S, NEW s \in Seq(S)
  PROVE  s \in [1 .. Len(s) -> S]
OBVIOUS

LEMMA Room ==
  ASSUME PoolAssumption, NEW s \in Seq(Bufs), NEW b \in Bufs, IsInjective(s), b \notin Range(s)
  PROVE  Len(s) < NumBuf
<1> DEFINE t == Append(s, b)
           n == Len(s) + 1
<1>1. n \in Nat /\ t \in [1 .. n -> Bufs]
  <2>1. t \in Seq(Bufs) /\ Len(t) = n /\ n \in Nat
    OBVIOUS
  <2> HIDE DEF t, n
  <2> QED
    BY <2>1, SeqIsFunction
<1>2. IsInjective(t)
  BY PutInjective
<1>3. t \in Injection(1 .. n, Bufs)
  BY <1>1, <1>2 DEF Injection
<1> HIDE DEF t, n
<1>4. IsFiniteSet(Bufs) /\ Cardinality(Bufs) = NumBuf
  BY PoolAssumption, FS_Interval DEF Bufs
<1>5. Cardinality(1 .. n) = n
  BY <1>1, FS_Interval DEF n
<1>6. Cardinality(1 .. n) <= Cardinality(Bufs)
  BY <1>3, <1>4, FS_Injection
<1> QED
  BY <1>4, <1>5, <1>6, PoolAssumption DEF n

\* The worker is the only one who takes free buffers once the queues are built.
SeenInv ==
  wpc = "get" => emptyQue # <<>> \/ session = "resetFull" \/ (session = "refill" /\ refill = 0)

LEMMA SeenStep ==
  ASSUME PoolAssumption, PoolInv, SeenInv, [Next]_vars
  PROVE  SeenInv'
<1> USE DEF SeenInv, PoolInv, TypeOK
<1>1. CASE WorkerBegin \/ Worker \/ WorkerDmaError
  BY <1>1 DEF WorkerBegin, Worker, WorkerSeesRoom, WorkerDrop, WorkerSleep, WorkerGetEmpty, WorkerCopied,
     WorkerSetFull, WorkerUndo, WorkerDmaError, sessionVars
<1>2. ASSUME NEW r \in Readers, Reader(r) \/ DequeSignal(r)
      PROVE  SeenInv'
  <2>1. CASE QueBuf(r)
    <3>1. emptyQue' # <<>> /\ (wpc' = wpc \/ wpc' = "check")
      <4>1. emptyQue' = Append(emptyQue, rbuf[r]) /\ rbuf[r] \in Bufs
        BY <2>1 DEF QueBuf, Put
      <4>2. Len(emptyQue') = Len(emptyQue) + 1
        BY <4>1
      <4>3. emptyQue' # <<>>
        BY <4>2
      <4> QED
        BY <2>1, <4>3 DEF QueBuf
    <3> QED
      BY <3>1
  <2>2. CASE DequeCall(r) \/ DequeSleep(r) \/ DequeSeesFrame(r) \/ DequeRecheck(r) \/ DequeGetFull(r)
             \/ DequeSignal(r)
    BY <2>2 DEF DequeCall, DequeSleep, DequeSeesFrame, DequeRecheck, DequeGetFull, DequeSignal, workerVars,
           sessionVars
  <2> QED
    BY <1>2, <2>1, <2>2 DEF Reader
<1>3. CASE Application \/ Kill
  <2>1. CASE RefillPut
    <3>1. Len(emptyQue') = Len(emptyQue) + 1
      BY <2>1, PoolAssumption DEF RefillPut, Put, Bufs
    <3>2. emptyQue' # <<>>
      BY <3>1
    <3> QED
      BY <3>2
  <2>2. CASE Open \/ ResetEmptyQue \/ ResetFullQue \/ RefillDone \/ Kill
    BY <2>2, PoolAssumption DEF Open, ResetEmptyQue, ResetFullQue, RefillDone, Kill, workerVars
  <2> QED
    BY <1>3, <2>1, <2>2 DEF Application
<1>4. CASE UNCHANGED vars
  BY <1>4 DEF vars, workerVars, sessionVars
<1> QED
  BY <1>1, <1>2, <1>3, <1>4 DEF Next

\* OSA_quePut and OSA_queGet, called without a timeout from code that looked
\* before or counts on the pool's bookkeeping, never spin in the kernel, for
\* every number of buffers; but for a worker that saw room just before a reset.
THEOREM PoolSpinFree == Spec => []PoolNeverSpins
<1>1. PoolInv /\ SeenInv => PoolNeverSpins
  <2> SUFFICES ASSUME PoolInv, SeenInv, ~clashed PROVE PoolNeverSpins
    BY DEF PoolNeverSpins
  <2> USE PoolAssumption DEF PoolInv, TypeOK, OneOwner, Exclusive, Queued
  <2>1. wpc = "commit" => Len(fullQue) < NumBuf
    BY Room DEF HasBuf
  <2>2. wpc = "undo" => Len(emptyQue) < NumBuf
    BY Room DEF HasBuf
  <2>3. Held # {} => Len(emptyQue) < NumBuf
    <3> SUFFICES ASSUME NEW r \in Readers, Holding(r) PROVE Len(emptyQue) < NumBuf
      BY DEF Held
    <3> QED
      BY Room
  <2>4. session = "refill" /\ refill < NumBuf => Len(emptyQue) < NumBuf
    BY Room DEF ResetInv, Owned, Bufs
  <2> QED
    BY <2>1, <2>2, <2>3, <2>4 DEF PoolNeverSpins, SeenInv
<1>2. Init => SeenInv
  BY DEF Init, SeenInv
<1>3. PoolInv /\ SeenInv /\ [Next]_vars => SeenInv'
  BY PoolAssumption, SeenStep
<1> QED
  BY <1>1, <1>2, <1>3, PoolInvariant, PTL DEF Spec

\* A single reader finds the frame it saw: nobody else takes from fullQue, and
\* the queues are not reset while it is in the driver.
THEOREM PoolReaderSpinFree ==
  ASSUME \A r, t \in Readers : r = t
  PROVE  Spec => []ReaderNeverSpins
<1>1. Init => ReaderNeverSpins
  BY DEF Init, ReaderNeverSpins
<1>2. PoolInv /\ ReaderNeverSpins /\ [Next]_vars => ReaderNeverSpins'
  <2> SUFFICES ASSUME PoolInv, ReaderNeverSpins, [Next]_vars PROVE ReaderNeverSpins'
    OBVIOUS
  <2> USE DEF ReaderNeverSpins, PoolInv, TypeOK
  <2>1. CASE WorkerBegin \/ Worker \/ WorkerDmaError
    <3>1. fullQue # <<>> => fullQue' # <<>>
      BY <2>1 DEF WorkerBegin, Worker, WorkerSeesRoom, WorkerDrop, WorkerSleep, WorkerGetEmpty, WorkerCopied,
         WorkerSetFull, WorkerUndo, WorkerDmaError, Put
    <3>2. \A r \in Readers : rpc'[r] = "get" => rpc[r] = "get"
      BY <2>1 DEF WorkerBegin, Worker, WorkerSeesRoom, WorkerDrop, WorkerSleep, WorkerGetEmpty, WorkerCopied,
         WorkerSetFull, WorkerUndo, WorkerDmaError, WakeReaders, readerVars
    <3> QED
      BY <3>1, <3>2
  <2>2. ASSUME NEW r \in Readers, Reader(r) \/ DequeSignal(r)
        PROVE  rpc'[r] = "get" => fullQue' # <<>>
    BY <2>2 DEF Reader, DequeCall, DequeSleep, DequeSeesFrame, DequeRecheck, DequeGetFull, DequeSignal, QueBuf,
       Goto
  <2>3. CASE Application \/ Kill
    <3>1. \A r \in Readers : rpc'[r] = "get" => rpc[r] = "get"
      BY <2>3 DEF Application, Open, ResetEmptyQue, ResetFullQue, RefillPut, RefillDone, Kill, readerVars
    <3>2. fullQue' = fullQue \/ session = "resetFull"
      BY <2>3 DEF Application, Open, ResetEmptyQue, ResetFullQue, RefillPut, RefillDone, Kill
    <3> QED
      BY <3>1, <3>2 DEF ResetInv
  <2>4. CASE UNCHANGED vars
    BY <2>4 DEF vars, readerVars
  <2> QED
    BY <2>1, <2>2, <2>3, <2>4 DEF Next
<1> QED
  BY <1>1, <1>2, PoolInvariant, PTL DEF Spec

-----------------------------------------------------------------------------
(* No leak after a start that clears: what the queues, the worker and the  *)
(* readers have is the whole pool, except between a kill and the end of    *)
(* the next reset.                                                         *)

WholeInv == ~clashed =>
  /\ session = "open" => Bufs \subseteq Owned
  /\ session = "refill" => \A b \in Bufs : b < refill => b \in Owned

\* A step that moves a buffer, or none, between two places.
LEMMA OwnedKept ==
  ASSUME WholeInv, UNCHANGED sessionVars, Owned \subseteq Owned'
  PROVE  WholeInv'
BY DEF WholeInv, sessionVars

LEMMA WorkerWhole ==
  ASSUME PoolAssumption, PoolInv, WholeInv, WorkerBegin \/ Worker \/ WorkerDmaError, ~clashed
  PROVE  WholeInv'
<1> USE DEF PoolInv, TypeOK, OneOwner
<1>1. UNCHANGED sessionVars
  BY DEF Worker, WorkerBegin, WorkerSeesRoom, WorkerDrop, WorkerSleep, WorkerGetEmpty, WorkerCopied,
     WorkerSetFull, WorkerUndo, WorkerDmaError
<1> SUFFICES Owned \subseteq Owned'
  BY <1>1, OwnedKept
<1>2. CASE WorkerBegin \/ WorkerSeesRoom \/ WorkerDrop \/ WorkerSleep \/ WorkerCopied \/ WorkerDmaError
  BY <1>2 DEF WorkerBegin, WorkerSeesRoom, WorkerDrop, WorkerSleep, WorkerCopied, WorkerDmaError,
     WakeReaders, readerVars, Owned, Queued, Held, Holding, HasBuf
<1>3. CASE WorkerGetEmpty
  <2>1. Range(emptyQue') = Range(emptyQue) \ {wbuf'}
    BY <1>3, GetInjective DEF WorkerGetEmpty, Get, Exclusive
  <2> QED
    BY <1>3, <2>1 DEF WorkerGetEmpty, readerVars, Owned, Queued, Held, Holding, HasBuf
<1>4. CASE WorkerSetFull
  <2>1. Range(fullQue') = Range(fullQue) \cup {wbuf}
    BY <1>4, PutInjective DEF WorkerSetFull, Put, Exclusive, Queued, HasBuf
  <2> QED
    BY <1>4, <2>1 DEF WorkerSetFull, WakeReaders, Owned, Queued, Held, Holding, HasBuf
<1>5. CASE WorkerUndo
  <2>1. Range(emptyQue') = Range(emptyQue) \cup {wbuf}
    BY <1>5, PutInjective DEF WorkerUndo, Put, Exclusive, Queued, HasBuf
  <2> QED
    BY <1>5, <2>1 DEF WorkerUndo, WakeReaders, Owned, Queued, Held, Holding, HasBuf
<1> QED
  BY <1>2, <1>3, <1>4, <1>5 DEF Worker

LEMMA ReaderWhole ==
  ASSUME PoolAssumption, PoolInv, WholeInv, NEW r \in Readers, Reader(r) \/ DequeSignal(r), ~clashed
  PROVE  WholeInv'
<1> USE DEF PoolInv, TypeOK, Resetting, OneOwner
<1>1. UNCHANGED sessionVars
  BY DEF Reader, DequeSignal, DequeCall, DequeSleep, DequeSeesFrame, DequeRecheck, DequeGetFull, QueBuf
<1> SUFFICES Owned \subseteq Owned'
  BY <1>1, OwnedKept
<1>2. CASE \/ DequeCall(r) \/ DequeSleep(r) \/ DequeSeesFrame(r) \/ DequeRecheck(r)
           \/ DequeSignal(r)
  BY <1>2 DEF DequeCall, DequeSleep, DequeSeesFrame, DequeRecheck, DequeSignal, Goto, workerVars,
     Owned, Queued, Held, Holding, HasBuf
<1>3. CASE DequeGetFull(r)
  <2>1. Range(fullQue') = Range(fullQue) \ {rbuf'[r]}
    BY <1>3, GetInjective DEF DequeGetFull, Exclusive
  <2>2. rbuf'[r] \in Held'
    BY <1>3 DEF DequeGetFull, Goto, Held, Holding
  <2>3. Held \subseteq Held'
    BY <1>3 DEF DequeGetFull, Goto, Held, Holding
  <2> QED
    BY <1>3, <2>1, <2>2, <2>3 DEF DequeGetFull, workerVars, Owned, Queued, HasBuf
<1>4. CASE QueBuf(r)
  <2>1. Range(emptyQue') = Range(emptyQue) \cup {rbuf[r]}
    BY <1>4, PutInjective DEF QueBuf, Put, Exclusive, Queued
  <2>2. Held \subseteq Held' \cup {rbuf[r]}
    BY <1>4 DEF QueBuf, Held, Holding
  <2> QED
    BY <1>4, <2>1, <2>2 DEF QueBuf, Owned, Queued, HasBuf
<1> QED
  BY <1>2, <1>3, <1>4 DEF Reader

LEMMA SessionWhole ==
  ASSUME PoolAssumption, EnClearBuf, PoolInv, WholeInv, Application \/ Kill, ~clashed, ~clashed'
  PROVE  WholeInv'
<1> USE PoolAssumption DEF PoolInv, TypeOK, Resetting, OneOwner
<1>1. CASE Open \/ ResetEmptyQue \/ ResetFullQue \/ Kill
  BY <1>1, SMTT(30) DEF Open, ResetEmptyQue, ResetFullQue, Kill, WholeInv, Bufs
<1>2. CASE RefillPut
  <2>1. refill \in Bufs /\ refill \notin Range(emptyQue)
    BY <1>2 DEF RefillPut, ResetInv, Owned, Queued, Bufs
  <2>2. Range(emptyQue') = Range(emptyQue) \cup {refill}
    BY <1>2, <2>1, PutInjective DEF RefillPut, Put, Exclusive
  <2>3. Owned' = Owned \cup {refill}
    BY <1>2, <2>2 DEF RefillPut, Owned, Queued, Held, Holding, HasBuf, workerVars, readerVars
  <2> QED
    BY <1>2, <2>1, <2>3 DEF RefillPut, WholeInv, Bufs
<1>3. CASE RefillDone
  <2>1. Owned' = Owned
    BY <1>3 DEF RefillDone, Owned, Queued, Held, Holding, HasBuf, workerVars, readerVars
  <2> QED
    BY <1>3, <2>1 DEF RefillDone, WholeInv, Bufs
<1> QED
  BY <1>1, <1>2, <1>3 DEF Application

\* A start that clears the queues has the whole pool, and keeps it for as long as
\* the application lives: no error path loses a buffer, and what dead
\* applications took with them is recovered.
THEOREM PoolNoLeak ==
  ASSUME EnClearBuf
  PROVE  Spec => []LeakBounded
<1>1. PoolInv /\ WholeInv => LeakBounded
  <2> SUFFICES ASSUME PoolInv, WholeInv, ~clashed, session = "open" PROVE Cardinality(Bufs \ Owned) <= 0
    BY EnClearBuf DEF LeakBounded
  <2>1. Bufs \ Owned = {}
    BY DEF WholeInv
  <2> QED
    BY <2>1, FS_EmptySet
<1>2. Init => WholeInv
  BY DEF Init, WholeInv
<1>3. PoolInv /\ WholeInv /\ [Next]_vars => WholeInv'
  <2> SUFFICES ASSUME PoolInv, WholeInv, [Next]_vars PROVE WholeInv'
    OBVIOUS
  <2>1. CASE Next
    <3>1. CASE clashed'
      BY <3>1 DEF WholeInv
    <3>2. CASE ~clashed'
      BY <2>1, <3>2, EnClearBuf, PoolAssumption, ClashStays, WorkerWhole, ReaderWhole, SessionWhole
      DEF Next, PoolInv
    <3> QED  BY <3>1, <3>2
  <2>2. CASE UNCHANGED vars
    BY <2>2 DEF vars, workerVars, readerVars, sessionVars, WholeInv, Owned, Queued, Held, Holding, HasBuf
  <2> QED
    BY <2>1, <2>2
<1> QED
  BY <1>1, <1>2, <1>3, PoolInvariant, PTL DEF Spec

-----------------------------------------------------------------------------
(* The receive FIFO implements FrameQueue: every step of the worker, of a  *)
(* reader or of the application is a step of the abstract queue or leaves  *)
(* it alone.  The sizes of everything are arbitrary, and the RC sends when *)
(* it likes; the promise ends with the first clash.                        *)

\* A change of buffers that are not queued does not show in the queue, ...
LEMMA QueueSame ==
  ASSUME TypeOK, fullQue' = fullQue, \A b \in Range(fullQue) : content'[b] = content[b]
  PROVE  AbsQueue' = AbsQueue
<1>1. \A i \in 1 .. Len(fullQue) : fullQue[i] \in Range(fullQue)
  BY DEF TypeOK, Range
<1> QED
  BY <1>1 DEF AbsQueue

\* ... one of buffers no reader holds does not show in the readers' hands.
LEMMA HandSame ==
  ASSUME \A r \in Readers : /\ Holding(r)' <=> Holding(r)
                            /\ Holding(r) => content'[rbuf'[r]] = content[rbuf[r]]
  PROVE  AbsHand' = AbsHand
BY DEF AbsHand

\* Steps that move no frame between the abstract variables.
LEMMA Stutter ==
  ASSUME TypeOK, fullQue' = fullQue, content' = content, rbuf' = rbuf, sent' = sent,
         wpc' = "idle" <=> wpc = "idle",
         \A r \in Readers : Holding(r)' <=> Holding(r)
  PROVE  UNCHANGED FQ!fqVars
<1>1. AbsQueue' = AbsQueue
  BY QueueSame
<1>2. AbsHand' = AbsHand
  BY HandSame
<1> QED
  BY <1>1, <1>2, Zenon DEF FQ!fqVars

-----------------------------------------------------------------------------
LEMMA ContentInit == PoolAssumption /\ Init => ContentInv
BY DEF Init, ContentInv, Holding, PoolAssumption

LEMMA WorkerContent ==
  ASSUME PoolAssumption, PoolInv, ContentInv, WorkerBegin \/ Worker \/ WorkerDmaError, ~clashed
  PROVE  ContentInv'
<1> USE PoolAssumption DEF PoolInv, TypeOK, OneOwner, ContentInv
<1>1. CASE WorkerBegin
  BY <1>1 DEF WorkerBegin, Holding, readerVars
<1>2. CASE WorkerSeesRoom
  BY <1>2 DEF WorkerSeesRoom, Holding, readerVars
<1>3. CASE WorkerDrop
  BY <1>3 DEF WorkerDrop, WakeReaders, Holding
<1>4. CASE WorkerSleep
  BY <1>4 DEF WorkerSleep, Holding, readerVars
<1>5. CASE WorkerGetEmpty
  <2>1. wbuf' \in Bufs /\ wbuf' \in Range(emptyQue)
    BY <1>5, GetInjective DEF WorkerGetEmpty, Get, Exclusive
  <2>2. \A i \in DOMAIN fullQue : fullQue[i] # wbuf'
    BY <2>1 DEF Exclusive, Range
  <2>3. \A r \in Readers : Holding(r) => rbuf[r] # wbuf'
    BY <2>1 DEF Exclusive, Queued
  <2> QED
    BY <1>5, <2>1, <2>2, <2>3 DEF WorkerGetEmpty, Holding, readerVars
<1>6. CASE WorkerCopied
  <2>1. \A i \in DOMAIN fullQue : fullQue[i] # wbuf
    BY <1>6 DEF WorkerCopied, Exclusive, Queued, HasBuf, Range
  <2>2. \A r \in Readers : Holding(r) => rbuf[r] # wbuf
    BY <1>6 DEF WorkerCopied, Exclusive, HasBuf
  <2> QED
    BY <1>6, <2>1, <2>2 DEF WorkerCopied, Holding, readerVars
<1>7. CASE WorkerDmaError
  BY <1>7 DEF WorkerDmaError, Holding, readerVars
<1>8. CASE WorkerSetFull
  <2>1. \A i \in DOMAIN fullQue' : content[fullQue'[i]] # Partial
    BY <1>8 DEF WorkerSetFull, Put, Partial
  <2> QED
    BY <1>8, <2>1 DEF WorkerSetFull, WakeReaders, Holding
<1>9. CASE WorkerUndo
  BY <1>9 DEF WorkerUndo, WakeReaders, Holding
<1> QED
  BY <1>1, <1>2, <1>3, <1>4, <1>5, <1>6, <1>7, <1>8, <1>9 DEF Worker

LEMMA ReaderContent ==
  ASSUME PoolAssumption, PoolInv, ContentInv, NEW r \in Readers, Reader(r) \/ DequeSignal(r), ~clashed
  PROVE  ContentInv'
<1> USE PoolAssumption DEF PoolInv, TypeOK, OneOwner, ContentInv, workerVars
<1>1. CASE DequeCall(r) \/ DequeSleep(r) \/ DequeSeesFrame(r) \/ DequeSignal(r) \/ DequeRecheck(r)
  BY <1>1 DEF DequeCall, DequeSleep, DequeSeesFrame, DequeSignal, DequeRecheck, Goto, Holding
<1>2. CASE DequeGetFull(r)
  <2>1. \A i \in DOMAIN fullQue' : content[fullQue'[i]] # Partial
    BY <1>2, SMTT(30) DEF DequeGetFull
  <2>2. content[rbuf'[r]] # Partial
    BY <1>2 DEF DequeGetFull
  <2> QED
    BY <1>2, <2>1, <2>2 DEF DequeGetFull, Goto, Holding
<1>3. CASE QueBuf(r)
  BY <1>3 DEF QueBuf, Holding
<1> QED
  BY <1>1, <1>2, <1>3 DEF Reader

LEMMA SessionContent ==
  ASSUME PoolAssumption, PoolInv, ContentInv, Application \/ Kill, ~clashed
  PROVE  ContentInv'
<1> USE PoolAssumption DEF PoolInv, TypeOK, OneOwner, ContentInv, workerVars, readerVars
<1>1. CASE Open \/ ResetEmptyQue \/ RefillPut \/ RefillDone
  BY <1>1 DEF Open, ResetEmptyQue, RefillPut, RefillDone, Holding
<1>2. CASE ResetFullQue
  BY <1>2 DEF ResetFullQue, Holding
<1>3. CASE Kill
  BY <1>3 DEF Kill, Holding
<1> QED
  BY <1>1, <1>2, <1>3 DEF Application

-----------------------------------------------------------------------------
LEMMA WorkerImplements ==
  ASSUME PoolAssumption, PoolInv, ContentInv, WorkerBegin \/ Worker \/ WorkerDmaError, ~clashed
  PROVE  FQ!Next \/ UNCHANGED FQ!fqVars
<1> USE PoolAssumption DEF PoolInv, TypeOK, OneOwner
<1>1. CASE WorkerBegin
  <2>1. AbsQueue' = AbsQueue /\ AbsHand' = AbsHand
    BY <1>1, QueueSame, HandSame DEF WorkerBegin, Holding, readerVars
  <2>2. FQ!Arrive
    BY <1>1, <2>1 DEF WorkerBegin, FQ!Arrive
  <2> QED  BY <2>2 DEF FQ!Next
<1>2. CASE WorkerSeesRoom \/ WorkerSleep \/ WorkerDmaError
  BY <1>2, Stutter DEF WorkerSeesRoom, WorkerSleep, WorkerDmaError, Holding, readerVars
<1>3. CASE WorkerDrop \/ WorkerUndo
  <2>1. \A r \in Readers : Holding(r)' <=> Holding(r)
    BY <1>3 DEF WorkerDrop, WorkerUndo, WakeReaders, Holding
  <2>2. AbsQueue' = AbsQueue /\ AbsHand' = AbsHand
    BY <1>3, <2>1, QueueSame, HandSame DEF WorkerDrop, WorkerUndo
  <2>3. FQ!Refuse
    BY <1>3, <2>2 DEF WorkerDrop, WorkerUndo, FQ!Refuse
  <2> QED  BY <2>3 DEF FQ!Next
<1>4. CASE WorkerGetEmpty
  <2>1. wbuf' \in Range(emptyQue)
    BY <1>4, GetInjective DEF WorkerGetEmpty, Get, Exclusive
  <2>2. AbsQueue' = AbsQueue
    <3>1. \A b \in Range(fullQue) : b # wbuf'
      BY <2>1 DEF Exclusive
    <3>2. \A b \in Range(fullQue) : content'[b] = content[b]
      BY <1>4, <3>1 DEF WorkerGetEmpty
    <3> QED
      BY <1>4, <3>2, QueueSame DEF WorkerGetEmpty
  <2>3. AbsHand' = AbsHand
    BY <1>4, <2>1, HandSame DEF WorkerGetEmpty, Exclusive, Queued, Holding, readerVars
  <2> QED
    BY <1>4, <2>2, <2>3 DEF WorkerGetEmpty, FQ!fqVars
<1>5. CASE WorkerCopied
  <2>2. AbsQueue' = AbsQueue
    BY <1>5, QueueSame DEF WorkerCopied, Exclusive, HasBuf, Queued, Range
  <2>3. AbsHand' = AbsHand
    BY <1>5, HandSame DEF WorkerCopied, Exclusive, HasBuf, Holding, readerVars
  <2> QED
    BY <1>5, <2>2, <2>3 DEF WorkerCopied, FQ!fqVars
<1>6. CASE WorkerSetFull
  <2>1. \A r \in Readers : Holding(r)' <=> Holding(r)
    BY <1>6 DEF WorkerSetFull, WakeReaders, Holding
  <2>2. AbsHand' = AbsHand
    BY <1>6, <2>1, HandSame DEF WorkerSetFull
  <2>3. AbsQueue' = Append(AbsQueue, sent)
    <3>1. content[wbuf] = sent /\ fullQue' = Append(fullQue, wbuf) /\ content' = content
      BY <1>6 DEF WorkerSetFull, Put, ContentInv
    <3> QED  BY <3>1 DEF AbsQueue
  <2>4. FQ!Accept
    BY <1>6, <2>2, <2>3 DEF WorkerSetFull, FQ!Accept
  <2> QED  BY <2>4 DEF FQ!Next
<1> QED
  BY <1>1, <1>2, <1>3, <1>4, <1>5, <1>6 DEF Worker

LEMMA ReaderImplements ==
  ASSUME PoolAssumption, PoolInv, ContentInv, NEW r \in Readers, Reader(r) \/ DequeSignal(r), ~clashed
  PROVE  FQ!Next \/ UNCHANGED FQ!fqVars
<1> USE PoolAssumption DEF PoolInv, TypeOK, OneOwner, workerVars
<1>1. CASE DequeCall(r) \/ DequeSleep(r) \/ DequeSeesFrame(r) \/ DequeSignal(r) \/ DequeRecheck(r)
  BY <1>1, Stutter
  DEF DequeCall, DequeSleep, DequeSeesFrame, DequeSignal, DequeRecheck, Goto, Holding
<1>2. CASE DequeGetFull(r)
  <2>1. AbsQueue # <<>> /\ Head(AbsQueue) = content[Head(fullQue)]
    BY <1>2 DEF DequeGetFull, AbsQueue
  <2>2. AbsQueue' = Tail(AbsQueue)
    <3>1. fullQue # <<>> /\ fullQue' = Tail(fullQue) /\ content' = content
      BY <1>2 DEF DequeGetFull
    <3> QED  BY <3>1 DEF AbsQueue
  <2>3. AbsHand[r] = Partial
    BY <1>2 DEF DequeGetFull, Goto, AbsHand, Holding
  <2>4. AbsHand' = [AbsHand EXCEPT ![r] = Head(AbsQueue)]
    BY <1>2, <2>1 DEF DequeGetFull, Goto, AbsHand, Holding
  <2>5. FQ!Take(r)
    BY <1>2, <2>1, <2>2, <2>3, <2>4 DEF DequeGetFull, FQ!Take, FQ!NoFrame, Partial
  <2> QED  BY <2>5 DEF FQ!Next
<1>3. CASE QueBuf(r)
  <2>1. AbsQueue' = AbsQueue
    BY <1>3, QueueSame DEF QueBuf
  <2>2. AbsHand[r] # Partial
    BY <1>3 DEF QueBuf, AbsHand, ContentInv
  <2>3. AbsHand' = [AbsHand EXCEPT ![r] = Partial]
    BY <1>3 DEF QueBuf, AbsHand, Holding
  <2>4. wpc' = "idle" <=> wpc = "idle"
    BY <1>3 DEF QueBuf
  <2>5. FQ!GiveBack(r)
    BY <1>3, <2>1, <2>2, <2>3, <2>4 DEF QueBuf, FQ!GiveBack, FQ!NoFrame, Partial
  <2> QED  BY <2>5 DEF FQ!Next
<1> QED
  BY <1>1, <1>2, <1>3 DEF Reader

LEMMA SessionImplements ==
  ASSUME PoolAssumption, PoolInv, Application \/ Kill, ~clashed
  PROVE  FQ!Next \/ UNCHANGED FQ!fqVars
<1> USE PoolAssumption DEF PoolInv, TypeOK, OneOwner, workerVars, readerVars
<1>1. CASE Open \/ ResetEmptyQue \/ RefillPut \/ RefillDone
  BY <1>1, Stutter DEF Open, ResetEmptyQue, RefillPut, RefillDone, Holding
<1>2. CASE ResetFullQue
  <2>1. AbsQueue' = <<>>
    BY <1>2 DEF ResetFullQue, AbsQueue
  <2>2. AbsHand' = AbsHand
    BY <1>2, HandSame DEF ResetFullQue, Holding
  <2>3. FQ!Clear
    BY <1>2, <2>1, <2>2 DEF ResetFullQue, FQ!Clear
  <2> QED  BY <2>3 DEF FQ!Next
<1>3. CASE Kill
  <2>1. AbsQueue' = AbsQueue
    BY <1>3, QueueSame DEF Kill
  <2>2. AbsHand' = [r \in Readers |-> Partial]
    BY <1>3 DEF Kill, AbsHand, Holding
  <2>3. FQ!Abandon
    BY <1>3, <2>1, <2>2 DEF Kill, FQ!Abandon, FQ!NoFrame, Partial
  <2> QED  BY <2>3 DEF FQ!Next
<1> QED
  BY <1>1, <1>2, <1>3 DEF Application

\* The readers of the FIFO see a FrameQueue: frames in the order in which they
\* arrived, each once, complete, and unchanged while a reader has it in hand,
\* although identifiers, buffers and two unlocked queues are all there is.
THEOREM PoolImplementsQueue == Spec => FrameQueueSpec
<1> DEFINE Inv == ~clashed => ContentInv
<1>1. Init => Inv
  BY ContentInit, PoolAssumption
<1>2. PoolInv /\ Inv /\ [Next]_vars => Inv'
  <2> SUFFICES ASSUME PoolInv, Inv, [Next]_vars, ~clashed' PROVE ContentInv'
    OBVIOUS
  <2>0. ~clashed
    BY ClashStays DEF PoolInv
  <2>1. CASE Next
    BY <2>0, <2>1, PoolAssumption, WorkerContent, ReaderContent, SessionContent DEF Next
  <2>2. CASE UNCHANGED vars
    BY <2>0, <2>2 DEF vars, workerVars, readerVars, sessionVars, ContentInv, Holding
  <2> QED  BY <2>1, <2>2
<1>3. Init => FQ!Init
  <2> SUFFICES ASSUME Init PROVE FQ!Init
    OBVIOUS
  <2>1. AbsQueue = <<>>
    BY DEF Init, AbsQueue
  <2>2. AbsHand = [r \in Readers |-> Partial]
    BY DEF Init, AbsHand, Holding
  <2> QED
    BY <2>1, <2>2 DEF Init, FQ!Init, FQ!NoFrame, Partial
<1>4. PoolInv /\ Inv /\ [Next]_vars => [FQ!Next \/ clashed']_(FQ!fqVars)
  <2> SUFFICES ASSUME PoolInv, Inv, [Next]_vars, ~clashed'
               PROVE  FQ!Next \/ UNCHANGED FQ!fqVars
    BY Zenon
  <2>0. ~clashed
    BY ClashStays DEF PoolInv
  <2>1. CASE Next
    BY <2>0, <2>1, PoolAssumption, WorkerImplements, ReaderImplements, SessionImplements DEF Next
  <2>2. CASE UNCHANGED vars
    BY <2>2, Stutter DEF vars, workerVars, readerVars, sessionVars, PoolInv, Holding
  <2> QED  BY <2>1, <2>2
<1> QED
  BY <1>1, <1>2, <1>3, <1>4, PoolInvariant, PTL DEF Spec, FrameQueueSpec
=============================================================================
