-------------------------- MODULE KfifoRing_proofs --------------------------
(***************************************************************************)
(* For every size of the rings and every width of their counters: what a   *)
(* thread saw of a ring without a lock still holds when it uses it, every  *)
(* buffer is in one place, the lines pass through the rings as through a   *)
(* queue (FrameQueue), and a thread sleeps only when it has to.            *)
(***************************************************************************)
EXTENDS KfifoRing, Numbers_proofs, SequenceTheorems

-----------------------------------------------------------------------------
(* The counters: both are below Wrap, so one subtraction does for %.       *)

LEMMA ModOnce ==
  ASSUME NEW w \in Nat \ {0}, NEW x \in Nat, x < 2 * w
  PROVE  x % w = IF x < w THEN x ELSE x - w
  OBVIOUS

LEMMA Apart ==
  ASSUME NEW w \in Nat \ {0}, NEW a \in 0 .. w - 1, NEW b \in 0 .. w - 1
  PROVE  (a + w - b) % w = IF a >= b THEN a - b ELSE a + w - b
<1> DEFINE x == a + w - b
<1>1. x \in Nat /\ x < 2 * w
  OBVIOUS
<1>2. x % w = IF x < w THEN x ELSE x - w
  <2> HIDE DEF x
  <2> QED BY <1>1, ModOnce
<1> QED BY <1>2

LEMMA NextOf ==
  ASSUME NEW w \in Nat \ {0}, NEW a \in 0 .. w - 1
  PROVE  (a + 1) % w = IF a + 1 < w THEN a + 1 ELSE 0
  OBVIOUS

LEMMA UsedIs ==
  ASSUME TypeOK, NEW q \in Queues
  PROVE  /\ Used(q) = IF in[q] >= out[q] THEN in[q] - out[q] ELSE in[q] + Wrap - out[q]
         /\ Used(q) \in 0 .. Wrap - 1
<1>1. /\ in[q] \in 0 .. Wrap - 1 /\ out[q] \in 0 .. Wrap - 1
      /\ Wrap \in Nat \ {0}
  BY RingAssumption DEF TypeOK
<1>2. Used(q) = IF in[q] >= out[q] THEN in[q] - out[q] ELSE in[q] + Wrap - out[q]
  BY <1>1, Apart DEF Used
<1> QED BY <1>1, <1>2

\* Taking a byte lowers what is used by one, if there was one.
LEMMA GetLowers ==
  ASSUME TypeOK, TypeOK', NEW q \in Queues, Used(q) # 0,
         in'[q] = in[q], out'[q] = (out[q] + 1) % Wrap
  PROVE  Used(q)' = Used(q) - 1
<1>1. /\ in[q] \in 0 .. Wrap - 1 /\ out[q] \in 0 .. Wrap - 1
      /\ in'[q] \in 0 .. Wrap - 1 /\ out'[q] \in 0 .. Wrap - 1
      /\ Wrap \in Nat \ {0}
  BY RingAssumption DEF TypeOK
<1>2. out'[q] = IF out[q] + 1 < Wrap THEN out[q] + 1 ELSE 0
  BY <1>1, NextOf
<1>3. Used(q) = IF in[q] >= out[q] THEN in[q] - out[q] ELSE in[q] + Wrap - out[q]
  BY UsedIs
<1>4. Used(q)' = IF in'[q] >= out'[q] THEN in'[q] - out'[q] ELSE in'[q] + Wrap - out'[q]
  BY <1>1, Apart DEF Used
<1> QED BY <1>1, <1>2, <1>3, <1>4

\* Putting one raises it by one, while the counters do not meet.
LEMMA PutRaises ==
  ASSUME TypeOK, TypeOK', NEW q \in Queues, Used(q) < Size,
         out'[q] = out[q], in'[q] = (in[q] + 1) % Wrap
  PROVE  Used(q)' = Used(q) + 1
<1>1. /\ in[q] \in 0 .. Wrap - 1 /\ out[q] \in 0 .. Wrap - 1
      /\ in'[q] \in 0 .. Wrap - 1 /\ out'[q] \in 0 .. Wrap - 1
      /\ Wrap \in Nat \ {0} /\ Size \in Nat /\ Size < Wrap
  BY RingAssumption DEF TypeOK
<1>2. in'[q] = IF in[q] + 1 < Wrap THEN in[q] + 1 ELSE 0
  BY <1>1, NextOf
<1>3. Used(q) = IF in[q] >= out[q] THEN in[q] - out[q] ELSE in[q] + Wrap - out[q]
  BY UsedIs
<1>4. Used(q)' = IF in'[q] >= out'[q] THEN in'[q] - out'[q] ELSE in'[q] + Wrap - out'[q]
  BY <1>1, Apart DEF Used
<1> QED BY <1>1, <1>2, <1>3, <1>4

-----------------------------------------------------------------------------
(* Types.                                                                  *)

LEMMA TypeInit == Init => TypeOK
<1> SUFFICES ASSUME Init PROVE TypeOK
  OBVIOUS
<1>1. /\ Size \in 0 .. Wrap - 1 /\ 0 \in 0 .. Wrap - 1 /\ 0 \in Buffers /\ 0 \in 0 .. MaxLines
  BY RingAssumption DEF Buffers
<1> QED BY <1>1 DEF Init, TypeOK, Queues, Threads, Steps

LEMMA TypeNext == TypeOK /\ [Next]_vars => TypeOK'
<1> SUFFICES ASSUME TypeOK, [Next]_vars PROVE TypeOK'
  OBVIOUS
<1> USE DEF TypeOK, Goto, At, ringVars, exitVars
<1>0. \A x \in Nat : x % Size \in Buffers /\ x % Wrap \in 0 .. Wrap - 1
  BY RingAssumption DEF Buffers
<1>1. ASSUME NEW t \in Threads, Step(t) PROVE TypeOK'
  <2>0. Q(t) \in Queues
    BY DEF Q, Queues
  <2>1. CASE Check(t) BY <2>1 DEF Check, Steps
  <2>2. CASE Prepare(t) BY <2>2, <2>0 DEF Prepare, Steps
  <2>3. CASE Test(t)
    <3>1. wq' \in [Queues -> SUBSET Threads]
      BY <2>3, <2>0 DEF Test
    <3>2. pc' \in [Threads -> Steps]
      BY <2>3 DEF Test, Steps
    <3> QED BY <2>3, <3>1, <3>2 DEF Test
  <2>4. CASE Resume(t) BY <2>4 DEF Resume, Steps
  <2>5. CASE Access(t)
    <3>1. /\ out[Q(t)] % Size \in Buffers /\ in[Q(t)] % Size \in Buffers
      BY <1>0, <2>0, RingAssumption
    <3>2. buf[Q(t)][out[Q(t)] % Size] \in Buffers
      BY <3>1, <2>0
    <3>3. buf' \in [Queues -> [Buffers -> Buffers]] /\ id' \in [Threads -> Buffers]
      BY <2>5, <3>1, <3>2, <2>0, SMTT(30) DEF Access
    <3> QED BY <2>5, <3>3 DEF Access, Steps
  <2>6. CASE Move(t)
    <3>1. /\ (out[Q(t)] + 1) % Wrap \in 0 .. Wrap - 1
          /\ (in[Q(t)] + 1) % Wrap \in 0 .. Wrap - 1
      <4>1. out[Q(t)] + 1 \in Nat /\ in[Q(t)] + 1 \in Nat
        BY <2>0, RingAssumption
      <4> QED BY <4>1, <1>0
    <3>2. in' \in [Queues -> 0 .. Wrap - 1] /\ out' \in [Queues -> 0 .. Wrap - 1]
      BY <2>6, <3>1, <2>0 DEF Move
    <3>3. pc' \in [Threads -> Steps]
      BY <2>6 DEF Move, Steps
    <3> QED BY <2>6, <3>2, <3>3 DEF Move
  <2>7. CASE Wake(t) BY <2>7, <2>0 DEF Wake, Steps
  <2>8. CASE Top(t) BY <2>8 DEF Top, Steps
  <2> QED BY <1>1, <2>1, <2>2, <2>3, <2>4, <2>5, <2>6, <2>7, <2>8 DEF Step
<1>2. CASE Fill
  <2>1. count' \in 0 .. MaxLines /\ id["wr"] \in Buffers
    BY <1>2, RingAssumption DEF Fill, Threads
  <2> QED BY <1>2, <2>1 DEF Fill, Steps, Threads
<1>3. CASE Show BY <1>3 DEF Show, Steps, Threads
<1>4. CASE SetExit BY <1>4 DEF SetExit
<1>5. CASE Exit BY <1>5 DEF Exit, StopWr, WrEnded, StopRd, RdEnded, KthreadStop
<1>6. CASE UNCHANGED vars BY <1>6 DEF vars
<1> QED BY <1>1, <1>2, <1>3, <1>4, <1>5, <1>6 DEF Next

\* Counters, bytes, identifiers and places stay in their ranges.
THEOREM RingTypes == Spec => []TypeOK
  BY TypeInit, TypeNext, PTL DEF Spec

-----------------------------------------------------------------------------
(* The reader of a ring can only make room in it and the writer can only   *)
(* fill it: what one of them has seen, the other does not undo.            *)

RoomInv == StillRoom /\ \A q \in Queues : Used(q) <= Size

LEMMA RoomInit == Init => RoomInv
<1> SUFFICES ASSUME Init PROVE RoomInv
  OBVIOUS
<1>1. \A q \in Queues : Used(q) = in[q] /\ in[q] <= Size
  <2> TAKE q \in Queues
  <2>1. TypeOK
    BY TypeInit
  <2>2. in[q] \in {0, Size} /\ out[q] = 0
    BY DEF Init
  <2> QED BY <2>1, <2>2, UsedIs, RingAssumption
<1> QED BY <1>1 DEF Init, RoomInv, StillRoom

\* Two threads in the same call are at different rings.
LEMMA OneEach ==
  ASSUME TypeOK, NEW t \in Threads, NEW u \in Threads, t # u, Q(t) = Q(u)
  PROVE  op[t] # op[u]
  BY DEF Q, Threads, TypeOK

LEMMA RoomNext == TypeOK /\ TypeOK' /\ RoomInv /\ [Next]_vars => RoomInv'
<1> SUFFICES ASSUME TypeOK, TypeOK', RoomInv, [Next]_vars PROVE RoomInv'
  OBVIOUS
<1> USE DEF At, Goto, ringVars, exitVars
<1>0. pc \in [Threads -> Steps] /\ op \in [Threads -> {"get", "put"}]
  BY DEF TypeOK
<1>A. ASSUME UNCHANGED ringVars,
             \A t \in Threads : pc'[t] \in {"access", "move"} =>
                 op'[t] = op[t] /\ (pc[t] \in {"access", "move"} \/ ~Blocked(t))
      PROVE  RoomInv'
  <2>1. \A q \in Queues : Used(q)' = Used(q)
    BY <1>A DEF Used
  <2>2. ASSUME NEW t \in Threads, pc'[t] \in {"access", "move"} PROVE ~Blocked(t)'
    <3>1. ~Blocked(t) /\ op'[t] = op[t]
      BY <1>A, <2>2 DEF RoomInv, StillRoom
    <3>2. Q(t)' = Q(t) /\ Q(t) \in Queues
      BY <3>1 DEF Q, Queues
    <3> QED BY <3>1, <3>2, <2>1 DEF Blocked
  <2> QED BY <2>1, <2>2 DEF RoomInv, StillRoom
<1>1. ASSUME NEW t \in Threads, Step(t) PROVE RoomInv'
  <2>1. CASE Check(t) BY <2>1, <1>A, <1>0 DEF Check
  <2>2. CASE Prepare(t) BY <2>2, <1>A, <1>0 DEF Prepare
  <2>3. CASE Test(t) BY <2>3, <1>A, <1>0 DEF Test
  <2>4. CASE Resume(t) BY <2>4, <1>A, <1>0 DEF Resume
  <2>5. CASE Access(t)
    <3>1. \A q \in Queues : Used(q)' = Used(q)
      BY <2>5 DEF Access, Used
    <3>2. ASSUME NEW u \in Threads, pc'[u] \in {"access", "move"} PROVE ~Blocked(u)'
      <4>1. ~Blocked(u) /\ op' = op
        BY <2>5, <3>2, <1>0 DEF Access, RoomInv, StillRoom
      <4>2. Q(u)' = Q(u) /\ Q(u) \in Queues
        BY <4>1 DEF Q, Queues
      <4> QED BY <4>1, <4>2, <3>1 DEF Blocked
    <3> QED BY <3>1, <3>2 DEF RoomInv, StillRoom
  <2>6. CASE Move(t)
    <3>0. ~Blocked(t) /\ Q(t) \in Queues /\ UNCHANGED op
      BY <2>6 DEF Move, RoomInv, StillRoom, Q, Queues
    <3>1. \A q \in Queues \ {Q(t)} : Used(q)' = Used(q)
      BY <2>6, <3>0 DEF Move, Used, TypeOK
    <3>4. \A q \in Queues : Used(q) \in Nat
      BY UsedIs, RingAssumption
    <3>a. ASSUME NEW q \in Queues, q = Q(t), op[t] = "get" PROVE Used(q)' = Used(q) - 1
      <4>1. Used(q) # 0 /\ in'[q] = in[q] /\ out'[q] = (out[q] + 1) % Wrap
        BY <2>6, <3>0, <3>a DEF Move, Blocked, TypeOK
      <4> QED BY <4>1, GetLowers
    <3>b. ASSUME NEW q \in Queues, q = Q(t), op[t] = "put"
          PROVE  Used(q)' = Used(q) + 1 /\ Used(q) < Size
      <4>1. Used(q) < Size
        BY <3>0, <3>4, <3>b, RingAssumption DEF Blocked
      <4>2. out'[q] = out[q] /\ in'[q] = (in[q] + 1) % Wrap
        BY <2>6, <3>0, <3>b DEF Move, TypeOK
      <4> QED BY <4>1, <4>2, PutRaises
    <3>2. ASSUME NEW q \in Queues, q = Q(t)
          PROVE  \/ op[t] = "get" /\ Used(q)' = Used(q) - 1
                 \/ op[t] = "put" /\ Used(q)' = Used(q) + 1 /\ Used(q) < Size
      BY <3>2, <3>a, <3>b, <1>0
    <3>5. \A q \in Queues : Used(q)' <= Size
      <4> TAKE q \in Queues
      <4>1. Used(q) <= Size
        BY DEF RoomInv
      <4>2. CASE q = Q(t) BY <4>1, <4>2, <3>2, <3>4, RingAssumption
      <4>3. CASE q # Q(t) BY <4>1, <4>3, <3>1
      <4> QED BY <4>2, <4>3
    <3>6. ASSUME NEW u \in Threads, pc'[u] \in {"access", "move"} PROVE ~Blocked(u)'
      <4>1. u # t
        BY <2>6, <3>6, <1>0 DEF Move
      <4>2. ~Blocked(u)
        BY <2>6, <3>6, <4>1, <1>0 DEF Move, RoomInv, StillRoom
      <4>3. Q(u)' = Q(u) /\ Q(u) \in Queues
        BY <3>0 DEF Q, Queues
      <4>4. CASE Q(u) # Q(t)
        BY <4>2, <4>3, <4>4, <3>0, <3>1 DEF Blocked
      <4>5. CASE Q(u) = Q(t)
        <5>1. op[u] # op[t]
          BY <4>1, <4>5, OneEach
        <5>0. PICK q \in Queues : q = Q(t)
          BY <3>0
        <5>2. q \in Queues /\ Used(q) \in Nat /\ q = Q(t) /\ Q(u) = q /\ Q(u)' = q
          BY <5>0, <3>0, <3>4, <4>3, <4>5
        <5>3. \/ op[t] = "get" /\ Used(q)' = Used(q) - 1
              \/ op[t] = "put" /\ Used(q)' = Used(q) + 1
          BY <5>2, <3>2
        <5>4. CASE op[u] = "get"
          <6>1. Used(q)' # 0
            BY <5>1, <5>2, <5>3, <5>4
          <6> QED BY <6>1, <5>2, <5>4, <3>0 DEF Blocked
        <5>5. CASE op[u] = "put"
          <6>1. ~(Used(q) >= Size) /\ Used(q)' = Used(q) - 1
            BY <5>1, <5>2, <5>3, <5>5, <4>2 DEF Blocked
          <6>2. ~(Used(q)' >= Size)
            BY <6>1, <5>2, RingAssumption
          <6> QED BY <6>2, <5>2, <5>5, <3>0 DEF Blocked
        <5> QED BY <5>4, <5>5, <1>0
      <4> QED BY <4>4, <4>5
    <3> QED BY <3>5, <3>6 DEF RoomInv, StillRoom
  <2>7. CASE Wake(t) BY <2>7, <1>A, <1>0 DEF Wake
  <2>8. CASE Top(t) BY <2>8, <1>A, <1>0 DEF Top
  <2> QED BY <1>1, <2>1, <2>2, <2>3, <2>4, <2>5, <2>6, <2>7, <2>8 DEF Step
<1>2. CASE Fill BY <1>2, <1>A, <1>0 DEF Fill, Threads
<1>3. CASE Show BY <1>3, <1>A, <1>0 DEF Show, Threads
<1>4. CASE SetExit BY <1>4, <1>A DEF SetExit
<1>5. CASE Exit BY <1>5, <1>A DEF Exit, StopWr, WrEnded, StopRd, RdEnded
<1>6. CASE UNCHANGED vars BY <1>6, <1>A DEF vars
<1> QED BY <1>1, <1>2, <1>3, <1>4, <1>5, <1>6 DEF Next

\* With one reader and one writer to a ring, no lock is needed: what a thread saw
\* before kfifo_put or kfifo_get still holds in it, for every size and width.
THEOREM RingNeedsNoLock == Spec => []StillRoom
<1>1. Spec => [](TypeOK /\ RoomInv)
  BY TypeInit, TypeNext, RoomInit, RoomNext, PTL DEF Spec
<1>2. TypeOK /\ RoomInv => StillRoom
  BY DEF RoomInv
<1> QED BY <1>1, <1>2, PTL

-----------------------------------------------------------------------------
(* Places in a ring: the counters turn at Wrap, the bytes at Size.         *)

\* A whole turn of the counters is some turns of the ring.
LEMMA WholeTurn ==
  ASSUME NEW x \in Nat
  PROVE  (Wrap + x) % Size = x % Size
<1>1. Size \in Nat \ {0} /\ Wrap \in Nat /\ Wrap % Size = 0
  BY RingAssumption
<1> DEFINE w == Wrap \div Size  d == x \div Size  r == x % Size
<1>2. w \in Nat /\ Wrap = Size * w
  BY <1>1, DivMod
<1>3. d \in Nat /\ r \in 0 .. Size - 1 /\ x = Size * d + r
  BY <1>1, DivMod
<1> HIDE DEF w, d
<1> SUFFICES (Wrap + x) % Size = r
  OBVIOUS
<1> HIDE DEF r
<1>4. Wrap + x = Size * (w + d) + r /\ Wrap + x \in Nat /\ w + d \in Int
  BY <1>1, <1>2, <1>3
<1> QED BY <1>1, <1>3, <1>4, Division

\* Places less than a turn apart are different bytes.
LEMMA BytesApart ==
  ASSUME NEW x \in Nat, NEW y \in Nat, x < y, y < x + Size
  PROVE  x % Size # y % Size
<1>1. Size \in Nat \ {0}
  BY RingAssumption
<1>2. SUFFICES ASSUME x % Size = y % Size PROVE FALSE
  OBVIOUS
<1> DEFINE c == x \div Size  d == y \div Size  r == x % Size
<1>3. /\ c \in Nat /\ d \in Nat /\ r \in 0 .. Size - 1
      /\ x = Size * c + r /\ y = Size * d + r
  BY <1>1, <1>2, DivMod
<1> HIDE DEF c, d, r
<1>4. Size * (d - c) = y - x
  BY <1>1, <1>3
<1>5. d - c = 0
  <2>1. d - c \in Int /\ y - x \in Int /\ 0 - Size < y - x /\ y - x < Size
    BY <1>1, <1>3
  <2> QED BY <1>1, <1>4, <2>1, Multiple
<1>6. d = c
  BY <1>3, <1>5
<1> QED BY <1>3, <1>6

Slot(q, k) == (out[q] + k - 1) % Size

LEMMA SlotType ==
  ASSUME TypeOK, NEW q \in Queues, NEW k \in Nat \ {0}
  PROVE  Slot(q, k) \in Buffers /\ out[q] \in 0 .. Wrap - 1 /\ out[q] + k - 1 \in Nat
<1>1. out[q] \in 0 .. Wrap - 1 /\ Size \in Nat \ {0} /\ Wrap \in Nat
  BY RingAssumption DEF TypeOK
<1> DEFINE x == out[q] + k - 1
<1>2. x \in Nat
  BY <1>1
<1> HIDE DEF x
<1>3. x % Size \in 0 .. Size - 1
  BY <1>1, <1>2, DivMod
<1> QED BY <1>1, <1>2, <1>3 DEF Slot, Buffers, x

LEMMA SlotsApart ==
  ASSUME TypeOK, NEW q \in Queues, NEW i \in 1 .. Size, NEW j \in 1 .. Size, i # j
  PROVE  Slot(q, i) # Slot(q, j)
<1>1. out[q] + i - 1 \in Nat /\ out[q] + j - 1 \in Nat /\ Size \in Nat
  BY SlotType, RingAssumption
<1> DEFINE x == out[q] + i - 1  y == out[q] + j - 1
<1>2. x \in Nat /\ y \in Nat /\ ((x < y /\ y < x + Size) \/ (y < x /\ x < y + Size))
  BY <1>1, SlotType
<1>3. Slot(q, i) = x % Size /\ Slot(q, j) = y % Size
  BY DEF Slot
<1> HIDE DEF x, y
<1> QED BY <1>2, <1>3, BytesApart

\* The place kfifo_put writes to is the one behind the content.
LEMMA WritePlace ==
  ASSUME NEW i \in 0 .. Wrap - 1, NEW o \in 0 .. Wrap - 1
  PROVE  i % Size = (o + (((i + Wrap - o) % Wrap) + 1) - 1) % Size
<1>1. Wrap \in Nat \ {0}
  BY RingAssumption
<1>2. (i + Wrap - o) % Wrap = IF i >= o THEN i - o ELSE i + Wrap - o
  BY <1>1, Apart
<1>3. CASE i >= o
  BY <1>1, <1>2, <1>3
<1>4. CASE ~(i >= o)
  <2>1. o + (((i + Wrap - o) % Wrap) + 1) - 1 = Wrap + i
    BY <1>1, <1>2, <1>4
  <2> QED BY <1>1, <2>1, WholeTurn
<1> QED BY <1>3, <1>4

LEMMA WriteSlot ==
  ASSUME TypeOK, NEW q \in Queues
  PROVE  in[q] % Size = Slot(q, Used(q) + 1)
BY WritePlace DEF TypeOK, Slot, Used

LEMMA WriteSlotThen ==
  ASSUME TypeOK', NEW q \in Queues
  PROVE  in'[q] % Size = Slot(q, Used(q) + 1)'
BY WritePlace DEF TypeOK, Slot, Used

\* After kfifo_get everything is one place nearer.
LEMMA NextSlot ==
  ASSUME TypeOK, TypeOK', NEW q \in Queues, out'[q] = (out[q] + 1) % Wrap, NEW k \in Nat \ {0}
  PROVE  Slot(q, k)' = Slot(q, k + 1)
<1>1. out[q] \in 0 .. Wrap - 1 /\ Wrap \in Nat \ {0}
  BY RingAssumption DEF TypeOK
<1>2. out'[q] = IF out[q] + 1 < Wrap THEN out[q] + 1 ELSE 0
  BY <1>1, NextOf
<1>3. CASE out[q] + 1 < Wrap
  <2>1. out'[q] + k - 1 = out[q] + (k + 1) - 1
    BY <1>1, <1>2, <1>3
  <2> QED BY <2>1 DEF Slot
<1>4. CASE ~(out[q] + 1 < Wrap)
  <2>1. out[q] + (k + 1) - 1 = Wrap + (k - 1) /\ out'[q] + k - 1 = k - 1 /\ k - 1 \in Nat
    BY <1>1, <1>2, <1>4
  <2> QED BY <2>1, WholeTurn DEF Slot
<1> QED BY <1>3, <1>4

-----------------------------------------------------------------------------
(* Where a buffer is.                                                      *)

InRing(b, q, k) == k \in 1 .. Used(q) /\ buf[q][Slot(q, k)] = b
InHand(b, t) == Holds(t) /\ id[t] = b

EachInv ==
  /\ \A b \in Buffers : \/ \E q \in Queues, k \in 1 .. Size : InRing(b, q, k)
                        \/ \E t \in Threads : InHand(b, t)
  /\ \A b \in Buffers, q \in Queues, r \in Queues, i \in 1 .. Size, j \in 1 .. Size :
       InRing(b, q, i) /\ InRing(b, r, j) => q = r /\ i = j
  /\ \A b \in Buffers, q \in Queues, i \in 1 .. Size, t \in Threads :
       ~(InRing(b, q, i) /\ InHand(b, t))
  /\ \A b \in Buffers, t \in Threads, u \in Threads : InHand(b, t) /\ InHand(b, u) => t = u

\* Between the copy of the byte and the step of the counter.
Copied(t) == id[t] = buf[Q(t)][Slot(Q(t), IF op[t] = "get" THEN 1 ELSE Used(Q(t)) + 1)]
MoveInv == \A t \in Threads : At(t, "move") => Copied(t)

PlaceInv == EachInv /\ MoveInv

\* Nothing that tells where buffers are changes.
LEMMA EachSame ==
  ASSUME EachInv,
         \A b \in Buffers, q \in Queues, k \in 1 .. Size : InRing(b, q, k)' <=> InRing(b, q, k),
         \A b \in Buffers, t \in Threads : InHand(b, t)' <=> InHand(b, t)
  PROVE  EachInv'
BY DEF EachInv

\* A buffer goes from the front of a ring to a hand.
LEMMA EachTaken ==
  ASSUME EachInv, Size \in Nat \ {0}, NEW q \in Queues, NEW t \in Threads,
         \A b \in Buffers, k \in 1 .. Size :
           InRing(b, q, k)' <=> k + 1 \in 1 .. Size /\ InRing(b, q, k + 1),
         \A b \in Buffers, r \in Queues, k \in 1 .. Size :
           r # q => (InRing(b, r, k)' <=> InRing(b, r, k)),
         \A b \in Buffers : ~InHand(b, t) /\ (InHand(b, t)' <=> InRing(b, q, 1)),
         \A b \in Buffers, u \in Threads : u # t => (InHand(b, u)' <=> InHand(b, u))
  PROVE  EachInv'
<1>0. 1 \in 1 .. Size /\ \A k \in 1 .. Size : k + 1 # 1 /\ (k = 1 \/ (k - 1 \in 1 .. Size /\ (k - 1) + 1 = k))
  OBVIOUS
<1>1. ASSUME NEW b \in Buffers
      PROVE  \/ \E r \in Queues, k \in 1 .. Size : InRing(b, r, k)'
             \/ \E u \in Threads : InHand(b, u)'
  <2>1. CASE \E r \in Queues, k \in 1 .. Size : InRing(b, r, k)
    <3>1. PICK r \in Queues, k \in 1 .. Size : InRing(b, r, k)
      BY <2>1
    <3>2. CASE r = q /\ k = 1
      BY <3>1, <3>2
    <3>3. CASE r = q /\ k # 1
      <4>1. k - 1 \in 1 .. Size /\ (k - 1) + 1 = k
        BY <1>0, <3>3
      <4> QED BY <3>1, <3>3, <4>1
    <3>4. CASE r # q
      BY <3>1, <3>4
    <3> QED BY <3>2, <3>3, <3>4
  <2>2. CASE \E u \in Threads : InHand(b, u)
    BY <2>2
  <2> QED BY <2>1, <2>2 DEF EachInv
<1>2. ASSUME NEW b \in Buffers, NEW r \in Queues, NEW s \in Queues,
             NEW i \in 1 .. Size, NEW j \in 1 .. Size, InRing(b, r, i)', InRing(b, s, j)'
      PROVE  r = s /\ i = j
  <2>1. CASE r = q /\ s = q
    BY <1>2, <2>1 DEF EachInv
  <2>2. CASE r = q /\ s # q
    BY <1>2, <2>2 DEF EachInv
  <2>3. CASE r # q /\ s = q
    BY <1>2, <2>3 DEF EachInv
  <2>4. CASE r # q /\ s # q
    BY <1>2, <2>4 DEF EachInv
  <2> QED BY <2>1, <2>2, <2>3, <2>4
<1>3. ASSUME NEW b \in Buffers, NEW r \in Queues, NEW i \in 1 .. Size, NEW u \in Threads,
             InRing(b, r, i)', InHand(b, u)'
      PROVE  FALSE
  <2>1. CASE u = t /\ r = q
    <3>1. InRing(b, q, 1) /\ i + 1 \in 1 .. Size /\ InRing(b, q, i + 1)
      BY <1>3, <2>1
    <3> QED BY <1>0, <3>1 DEF EachInv
  <2>2. CASE u = t /\ r # q
    BY <1>0, <1>3, <2>2 DEF EachInv
  <2>3. CASE u # t /\ r = q
    BY <1>3, <2>3 DEF EachInv
  <2>4. CASE u # t /\ r # q
    BY <1>3, <2>4 DEF EachInv
  <2> QED BY <2>1, <2>2, <2>3, <2>4
<1>4. ASSUME NEW b \in Buffers, NEW u \in Threads, NEW v \in Threads, InHand(b, u)', InHand(b, v)'
      PROVE  u = v
  BY <1>0, <1>4 DEF EachInv
<1> QED BY <1>1, <1>2, <1>3, <1>4 DEF EachInv

\* A buffer goes from a hand to the end of a ring.
LEMMA EachGiven ==
  ASSUME EachInv, NEW q \in Queues, NEW t \in Threads, NEW n \in 1 .. Size,
         \A b \in Buffers, k \in 1 .. Size :
           InRing(b, q, k)' <=> InRing(b, q, k) \/ (k = n /\ InHand(b, t)),
         \A b \in Buffers, r \in Queues, k \in 1 .. Size :
           r # q => (InRing(b, r, k)' <=> InRing(b, r, k)),
         \A b \in Buffers : ~InHand(b, t)',
         \A b \in Buffers, u \in Threads : u # t => (InHand(b, u)' <=> InHand(b, u))
  PROVE  EachInv'
<1>1. ASSUME NEW b \in Buffers
      PROVE  \/ \E r \in Queues, k \in 1 .. Size : InRing(b, r, k)'
             \/ \E u \in Threads : InHand(b, u)'
  BY DEF EachInv
<1>2. ASSUME NEW b \in Buffers, NEW r \in Queues, NEW s \in Queues,
             NEW i \in 1 .. Size, NEW j \in 1 .. Size, InRing(b, r, i)', InRing(b, s, j)'
      PROVE  r = s /\ i = j
  BY <1>2 DEF EachInv
<1>3. ASSUME NEW b \in Buffers, NEW r \in Queues, NEW i \in 1 .. Size, NEW u \in Threads,
             InRing(b, r, i)', InHand(b, u)'
      PROVE  FALSE
  BY <1>3 DEF EachInv
<1>4. ASSUME NEW b \in Buffers, NEW u \in Threads, NEW v \in Threads, InHand(b, u)', InHand(b, v)'
      PROVE  u = v
  BY <1>4 DEF EachInv
<1> QED BY <1>1, <1>2, <1>3, <1>4 DEF EachInv

LEMMA RoomFacts ==
  ASSUME TypeOK, RoomInv, NEW q \in Queues
  PROVE  Used(q) \in 0 .. Size /\ Size \in Nat \ {0}
BY UsedIs, RingAssumption DEF RoomInv

LEMMA PlaceInit == Init => PlaceInv
<1> SUFFICES ASSUME Init PROVE PlaceInv
  OBVIOUS
<1>1. TypeOK
  BY TypeInit
<1>2. Used("empty") = Size /\ Used("full") = 0 /\ Size \in Nat \ {0}
  <2>1. /\ in["empty"] = Size /\ out["empty"] = 0 /\ in["full"] = 0 /\ out["full"] = 0
    BY DEF Init, Queues
  <2> QED BY <1>1, <2>1, UsedIs, RingAssumption DEF Queues
<1>3. ASSUME NEW k \in 1 .. Size PROVE buf["empty"][Slot("empty", k)] = k - 1
  <2>1. (k - 1) % Size = k - 1
    <3>1. k - 1 = Size * 0 + (k - 1) /\ k - 1 \in Nat /\ k - 1 \in 0 .. Size - 1
      BY <1>2
    <3> QED BY <1>2, <3>1, Division
  <2>2. Slot("empty", k) = k - 1
    BY <2>1 DEF Slot, Init, Queues
  <2> QED BY <1>2, <2>2 DEF Init, Queues, Buffers
<1>4. \A t \in Threads : ~Holds(t)
  BY DEF Init, Holds
<1>5. \A b \in Buffers, q \in Queues, k \in 1 .. Size : InRing(b, q, k) <=> q = "empty" /\ b = k - 1
  BY <1>2, <1>3 DEF InRing, Queues
<1>6. EachInv
  <2>1. \A b \in Buffers : b + 1 \in 1 .. Size /\ (b + 1) - 1 = b /\ "empty" \in Queues
    BY <1>2 DEF Buffers, Queues
  <2> QED BY <1>4, <1>5, <2>1 DEF EachInv, InHand
<1> QED BY <1>6 DEF PlaceInv, MoveInv, Init, At

LEMMA PlaceKept ==
  ASSUME PlaceInv, UNCHANGED <<ringVars, id>>,
         \A t \in Threads : /\ Holds(t)' <=> Holds(t)
                            /\ pc'[t] = "move" => pc[t] = "move" /\ op'[t] = op[t]
  PROVE  PlaceInv'
<1>1. \A q : Used(q)' = Used(q)
  BY DEF Used, ringVars
<1>2. \A q, k : Slot(q, k)' = Slot(q, k)
  BY DEF Slot, ringVars
<1>3. EachInv'
  BY <1>1, <1>2, EachSame DEF PlaceInv, InRing, InHand, ringVars
<1>4. MoveInv'
  BY DEF PlaceInv, MoveInv, Copied, Slot, Used, At, Q, ringVars
<1> QED BY <1>3, <1>4 DEF PlaceInv

LEMMA CopiedThen ==
  ASSUME NEW u \in Threads, NEW r \in Queues, NEW k, Q(u)' = r, id'[u] = buf'[r][Slot(r, k)'],
         k = IF op'[u] = "get" THEN 1 ELSE Used(r)' + 1
  PROVE  Copied(u)'
BY DEF Copied, Slot, Used, Q

LEMMA CopiedNow ==
  ASSUME PlaceInv, NEW u \in Threads, pc[u] = "move", NEW r \in Queues, r = Q(u)
  PROVE  id[u] = buf[r][Slot(r, IF op[u] = "get" THEN 1 ELSE Used(r) + 1)]
BY DEF PlaceInv, MoveInv, Copied, At

LEMMA AccessPlaces ==
  ASSUME TypeOK, TypeOK', RoomInv, PlaceInv, NEW t \in Threads, Access(t)
  PROVE  PlaceInv'
<1> USE DEF At, Goto
<1>0. /\ pc[t] = "access" /\ pc' = [pc EXCEPT ![t] = "move"] /\ UNCHANGED <<in, out, op>>
      /\ pc \in [Threads -> Steps] /\ op \in [Threads -> {"get", "put"}] /\ id \in [Threads -> Buffers]
      /\ buf \in [Queues -> [Buffers -> Buffers]]
  BY DEF Access, TypeOK
<1>1. \A q : Used(q)' = Used(q)
  BY <1>0 DEF Used
<1>2. \A q, k : Slot(q, k)' = Slot(q, k)
  BY <1>0 DEF Slot
<1>3. \A u \in Threads : (Holds(u)' <=> Holds(u)) /\ Q(u)' = Q(u) /\ Q(u) \in Queues
  BY <1>0 DEF Holds, Q, Queues
<1>4. ~Blocked(t)
  BY <1>0 DEF RoomInv, StillRoom
<1>5. PICK q \in Queues : q = Q(t)
  BY <1>3
<1>6. Used(q) \in 0 .. Size /\ Size \in Nat \ {0}
  BY RoomFacts
<1>7. CASE op[t] = "get"
  <2>1. id' = [id EXCEPT ![t] = buf[q][Slot(q, 1)]] /\ buf' = buf
    <3>1. out[q] + 1 - 1 = out[q]
      BY RingAssumption DEF TypeOK
    <3> QED BY <1>5, <1>7, <3>1 DEF Access, Slot
  <2>2. ~Holds(t)
    BY <1>0, <1>7 DEF Holds
  <2>3. EachInv'
    <3>1. \A b \in Buffers, u \in Threads : InHand(b, u)' <=> InHand(b, u)
      BY <1>0, <1>3, <2>1, <2>2 DEF InHand
    <3>2. \A b \in Buffers, r \in Queues, k \in 1 .. Size : InRing(b, r, k)' <=> InRing(b, r, k)
      BY <1>1, <1>2, <2>1 DEF InRing
    <3> QED BY <3>1, <3>2, EachSame DEF PlaceInv
  <2>4. MoveInv'
    <3>1. ASSUME NEW u \in Threads, pc'[u] = "move"
          PROVE  Copied(u)'
      <4>1. CASE u = t
        <5>1. id'[t] = buf'[q][Slot(q, 1)'] /\ Q(t)' = q /\ op'[t] = "get"
          BY <1>0, <1>2, <1>3, <1>5, <1>7, <2>1
        <5> QED BY <4>1, <5>1, CopiedThen
      <4>2. CASE u # t
        <5>1. pc[u] = "move" /\ id'[u] = id[u]
          BY <1>0, <2>1, <3>1, <4>2
        <5> QED BY <1>0, <2>1, <5>1 DEF PlaceInv, MoveInv, Copied, Slot, Used, Q, At
      <4> QED BY <4>1, <4>2
    <3> QED BY <3>1 DEF MoveInv
  <2> QED BY <2>3, <2>4 DEF PlaceInv
<1>8. CASE op[t] = "put"
  <2>0. Used(q) + 1 \in 1 .. Size
    BY <1>4, <1>5, <1>6, <1>8 DEF Blocked
  <2>1. buf' = [buf EXCEPT ![q][Slot(q, Used(q) + 1)] = id[t]] /\ id' = id
    BY <1>5, <1>8, WriteSlot DEF Access
  <2>2. \A r \in Queues, k \in 1 .. Size :
          r # q \/ k # Used(q) + 1 => buf'[r][Slot(r, k)] = buf[r][Slot(r, k)]
    <3>1. \A r \in Queues, k \in 1 .. Size : Slot(r, k) \in Buffers
      BY SlotType, <1>6
    <3>2. \A k \in 1 .. Size : k # Used(q) + 1 => Slot(q, k) # Slot(q, Used(q) + 1)
      BY <2>0, SlotsApart
    <3> QED BY <1>0, <2>1, <3>1, <3>2
  <2>3. buf'[q][Slot(q, Used(q) + 1)] = id[t]
    <3>1. Slot(q, Used(q) + 1) \in Buffers
      BY <1>6, SlotType
    <3> QED BY <1>0, <2>1, <3>1
  <2>4. EachInv'
    <3>1. \A b \in Buffers, u \in Threads : InHand(b, u)' <=> InHand(b, u)
      BY <1>3, <2>1 DEF InHand
    <3>2. ASSUME NEW b \in Buffers, NEW r \in Queues, NEW k \in 1 .. Size
          PROVE  InRing(b, r, k)' <=> InRing(b, r, k)
      <4>1. k \in 1 .. Used(r) => (r # q \/ k # Used(q) + 1)
        BY <1>6
      <4> QED BY <1>1, <1>2, <2>2, <4>1 DEF InRing
    <3> QED BY <3>1, <3>2, EachSame DEF PlaceInv
  <2>5. MoveInv'
    <3>1. ASSUME NEW u \in Threads, pc'[u] = "move"
          PROVE  Copied(u)'
      <4>1. CASE u = t
        BY <1>0, <1>5, <1>8, <2>1, <2>3, <4>1 DEF Copied, Slot, Used, Q
      <4>2. CASE u # t
        <5>1. PICK r \in Queues : r = Q(u)
          BY <1>3
        <5> DEFINE k == IF op[u] = "get" THEN 1 ELSE Used(r) + 1
        <5>2. pc[u] = "move" /\ id[u] = buf[r][Slot(r, k)] /\ ~Blocked(u)
          BY <1>0, <3>1, <4>2, <5>1, CopiedNow DEF RoomInv, StillRoom
        <5>3. Used(r) \in 0 .. Size
          BY RoomFacts
        <5>4. k \in 1 .. Size
          BY <1>0, <1>6, <5>1, <5>2, <5>3 DEF Blocked
        <5>5. r # q \/ k # Used(q) + 1
          <6>1. CASE r = q
            <7>1. op[u] = "get"
              BY <1>0, <1>5, <1>8, <4>2, <5>1, <6>1, OneEach
            <7>2. Used(r) # 0
              BY <5>1, <5>2, <7>1 DEF Blocked
            <7> QED BY <5>3, <6>1, <7>1, <7>2
          <6> QED BY <6>1
        <5>6. buf'[r][Slot(r, k)] = id[u]
          BY <2>2, <5>2, <5>4, <5>5
        <5> QED BY <1>0, <2>1, <5>1, <5>6 DEF Copied, Slot, Used, Q
      <4> QED BY <4>1, <4>2
    <3> QED BY <3>1 DEF MoveInv
  <2> QED BY <2>4, <2>5 DEF PlaceInv
<1> QED BY <1>0, <1>7, <1>8

LEMMA MoveUsed ==
  ASSUME TypeOK, TypeOK', RoomInv, NEW t \in Threads, Move(t), NEW q \in Queues, q = Q(t)
  PROVE  /\ op[t] = "get" => Used(q) > 0 /\ Used(q)' = Used(q) - 1
         /\ op[t] = "put" => Used(q) < Size /\ Used(q)' = Used(q) + 1
         /\ \A r \in Queues : r # q => Used(r)' = Used(r)
<1> USE DEF At, Goto
<1>0. ~Blocked(t) /\ Used(q) \in 0 .. Size /\ Size \in Nat
  BY RoomFacts DEF Move, RoomInv, StillRoom
<1>1. ASSUME op[t] = "get" PROVE Used(q) > 0 /\ Used(q)' = Used(q) - 1
  <2>1. Used(q) # 0 /\ in'[q] = in[q] /\ out'[q] = (out[q] + 1) % Wrap
    BY <1>0, <1>1 DEF Move, Blocked, TypeOK
  <2> QED BY <1>0, <2>1, GetLowers
<1>2. ASSUME op[t] = "put" PROVE Used(q) < Size /\ Used(q)' = Used(q) + 1
  <2>1. Used(q) < Size
    BY <1>0, <1>2 DEF Blocked
  <2>2. out'[q] = out[q] /\ in'[q] = (in[q] + 1) % Wrap
    BY <1>2 DEF Move, TypeOK
  <2> QED BY <2>1, <2>2, PutRaises
<1>3. \A r \in Queues : r # q => Used(r)' = Used(r)
  BY DEF Move, Used, TypeOK
<1> QED BY <1>1, <1>2, <1>3

\* The copied byte stays where another thread has copied from or to.
LEMMA MoveCopied ==
  ASSUME TypeOK, TypeOK', RoomInv, PlaceInv, NEW t \in Threads, Move(t),
         NEW u \in Threads, pc'[u] = "move"
  PROVE  Copied(u)'
<1>0. /\ pc[t] = "move" /\ pc' = [pc EXCEPT ![t] = "wake"] /\ UNCHANGED <<buf, op, id>>
      /\ pc \in [Threads -> Steps] /\ op \in [Threads -> {"get", "put"}]
  BY DEF Move, TypeOK, At, Goto
<1>1. u # t /\ pc[u] = "move"
  BY <1>0
<1>2. PICK r \in Queues : r = Q(u)
  BY DEF Q, Queues
<1>3. PICK q \in Queues : q = Q(t)
  BY DEF Q, Queues
<1>4. Q(u)' = r /\ id'[u] = buf'[r][Slot(r, IF op[u] = "get" THEN 1 ELSE Used(r) + 1)]
  BY <1>0, <1>1, <1>2, CopiedNow DEF Q
<1>5. CASE r # q
  <2>1. in'[r] = in[r] /\ out'[r] = out[r]
    BY <1>3, <1>5 DEF Move, TypeOK
  <2> QED BY <1>0, <1>2, <1>4, <2>1 DEF Copied, Slot, Used, Q
<1>6. CASE r = q
  <2>1. op[u] # op[t]
    BY <1>1, <1>2, <1>3, <1>6, OneEach
  <2>2. CASE op[u] = "get"
    <3>1. out'[r] = out[r]
      BY <1>0, <1>3, <1>6, <2>1, <2>2 DEF Move
    <3> QED BY <1>0, <1>2, <1>4, <2>2, <3>1 DEF Copied, Slot, Q
  <2>3. CASE op[u] = "put"
    <3>1. in'[r] = in[r]
      BY <1>0, <1>3, <1>6, <2>1, <2>3 DEF Move
    <3>2. id'[u] = buf'[r][in'[r] % Size]
      BY <1>4, <2>3, <3>1, WriteSlot
    <3> QED BY <1>0, <1>2, <2>3, <3>2, WriteSlotThen DEF Copied, Q
  <2> QED BY <1>0, <2>2, <2>3
<1> QED BY <1>5, <1>6

LEMMA MovePlaces ==
  ASSUME TypeOK, TypeOK', RoomInv, RoomInv', PlaceInv, NEW t \in Threads, Move(t)
  PROVE  PlaceInv'
<1>0. /\ pc[t] = "move" /\ pc' = [pc EXCEPT ![t] = "wake"] /\ UNCHANGED <<buf, op, id>>
      /\ pc \in [Threads -> Steps] /\ op \in [Threads -> {"get", "put"}] /\ id \in [Threads -> Buffers]
  BY DEF Move, TypeOK, At, Goto
<1>1. PICK q \in Queues : q = Q(t)
  BY DEF Q, Queues
<1>2. \A r \in Queues : Used(r) \in 0 .. Size /\ Size \in Nat \ {0}
  BY RoomFacts
<1>3. \A u \in Threads : u # t => (Holds(u)' <=> Holds(u))
  BY <1>0 DEF Holds
<1>4. id[t] = buf[q][Slot(q, IF op[t] = "get" THEN 1 ELSE Used(q) + 1)]
  BY <1>0, <1>1, CopiedNow
<1>5. \A b \in Buffers, r \in Queues, k \in 1 .. Size :
        r # q => (InRing(b, r, k)' <=> InRing(b, r, k))
  <2>1. ASSUME NEW r \in Queues, r # q PROVE Used(r)' = Used(r) /\ out'[r] = out[r]
    BY <1>1, <2>1, MoveUsed DEF Move, TypeOK
  <2> QED BY <1>0, <2>1 DEF InRing, Slot
<1>6. \A b \in Buffers, u \in Threads : u # t => (InHand(b, u)' <=> InHand(b, u))
  BY <1>0, <1>3 DEF InHand
<1> SUFFICES EachInv'
  BY MoveCopied DEF PlaceInv, MoveInv, At
<1>7. CASE op[t] = "get"
  <2>1. Used(q) > 0 /\ Used(q)' = Used(q) - 1 /\ out'[q] = (out[q] + 1) % Wrap
    BY <1>0, <1>1, <1>7, MoveUsed DEF Move, TypeOK
  <2>2. \A k \in 1 .. Size : Slot(q, k)' = Slot(q, k + 1)
    BY <2>1, NextSlot
  <2>3. ASSUME NEW b \in Buffers, NEW k \in 1 .. Size
        PROVE  InRing(b, q, k)' <=> k + 1 \in 1 .. Size /\ InRing(b, q, k + 1)
    <3>1. k \in 1 .. Used(q)' <=> k + 1 \in 1 .. Size /\ k + 1 \in 1 .. Used(q)
      BY <1>2, <2>1
    <3> QED BY <1>0, <2>2, <3>1 DEF InRing
  <2>4. ASSUME NEW b \in Buffers PROVE ~InHand(b, t) /\ (InHand(b, t)' <=> InRing(b, q, 1))
    <3>1. ~Holds(t) /\ Holds(t)'
      BY <1>0, <1>7 DEF Holds
    <3>2. 1 \in 1 .. Used(q)
      BY <1>2, <2>1
    <3> QED BY <1>0, <1>4, <1>7, <3>1, <3>2 DEF InHand, InRing
  <2> QED BY <1>2, <1>5, <1>6, <2>3, <2>4, EachTaken DEF PlaceInv
<1>8. CASE op[t] = "put"
  <2>1. Used(q) < Size /\ Used(q)' = Used(q) + 1 /\ out'[q] = out[q]
    BY <1>0, <1>1, <1>8, MoveUsed DEF Move, TypeOK
  <2>2. Holds(t) /\ ~Holds(t)'
    BY <1>0, <1>8 DEF Holds
  <2> DEFINE n == Used(q) + 1
  <2>3. n \in 1 .. Size
    BY <1>2, <2>1
  <2>4. ASSUME NEW b \in Buffers, NEW k \in 1 .. Size
        PROVE  InRing(b, q, k)' <=> InRing(b, q, k) \/ (k = n /\ InHand(b, t))
    <3>1. k \in 1 .. Used(q)' <=> k \in 1 .. Used(q) \/ k = n
      BY <1>2, <2>1
    <3>2. Slot(q, k)' = Slot(q, k)
      BY <2>1 DEF Slot
    <3>3. k = n => ~(k \in 1 .. Used(q)) /\ buf[q][Slot(q, k)] = id[t]
      BY <1>2, <1>4, <1>8
    <3> QED BY <1>0, <2>2, <3>1, <3>2, <3>3 DEF InRing, InHand
  <2>5. \A b \in Buffers : ~InHand(b, t)'
    BY <2>2 DEF InHand
  <2> HIDE DEF n
  <2> QED BY <1>5, <1>6, <2>3, <2>4, <2>5, EachGiven DEF PlaceInv
<1> QED BY <1>0, <1>7, <1>8

LEMMA PlaceNext == TypeOK /\ TypeOK' /\ RoomInv /\ RoomInv' /\ PlaceInv /\ [Next]_vars => PlaceInv'
<1> SUFFICES ASSUME TypeOK, TypeOK', RoomInv, RoomInv', PlaceInv, [Next]_vars PROVE PlaceInv'
  OBVIOUS
<1> USE DEF At, Goto
<1>0. pc \in [Threads -> Steps] /\ op \in [Threads -> {"get", "put"}]
  BY DEF TypeOK
<1>1. ASSUME NEW t \in Threads, Step(t) PROVE PlaceInv'
  <2>1. CASE Check(t) \/ Prepare(t) \/ Test(t) \/ Resume(t) \/ Wake(t)
    BY <1>0, <2>1, PlaceKept DEF Check, Prepare, Test, Resume, Wake, Holds
  <2>2. CASE Top(t)
    BY <1>0, <2>2, PlaceKept DEF Top, Holds
  <2>3. CASE Access(t)
    BY <2>3, AccessPlaces
  <2>4. CASE Move(t)
    BY <2>4, MovePlaces
  <2> QED BY <1>1, <2>1, <2>2, <2>3, <2>4 DEF Step
<1>2. CASE Fill \/ Show
  BY <1>0, <1>2, PlaceKept DEF Fill, Show, Holds, Threads
<1>3. CASE SetExit \/ Exit
  BY <1>3, PlaceKept DEF SetExit, Exit, StopWr, WrEnded, StopRd, RdEnded, Holds
<1>4. CASE UNCHANGED vars
  BY <1>4, PlaceKept DEF vars, Holds
<1> QED BY <1>1, <1>2, <1>3, <1>4 DEF Next

LEMMA PlacesInvariant == Spec => [](TypeOK /\ RoomInv /\ PlaceInv)
BY TypeInit, TypeNext, RoomInit, RoomNext, PlaceInit, PlaceNext, PTL DEF Spec

\* Every buffer is at any moment in exactly one place, in a ring or in a hand, for
\* every number of buffers and every width of the counters: none gets lost
\* and none is given out twice, although no lock protects the rings.
THEOREM RingKeepsBuffers == Spec => []EachOnce
<1>1. TypeOK /\ RoomInv /\ PlaceInv => EachOnce
  <2> SUFFICES ASSUME TypeOK, RoomInv, PlaceInv PROVE EachOnce
    OBVIOUS
  <2>0. \A q \in Queues : Used(q) \in 0 .. Size
    BY RoomFacts
  <2>1. ASSUME NEW b \in Buffers PROVE Cardinality(Places(b)) = 1
    <3>1. \A q \in Queues, k \in 1 .. Size :
            (k <= Used(q) /\ Content(q)[k] = b) <=> InRing(b, q, k)
      BY <2>0 DEF Content, InRing, Slot
    <3> DEFINE Rings == {p \in Queues \X (1 .. Size) : InRing(b, p[1], p[2])}
               Hands == {<<t, 0>> : t \in {x \in Threads : InHand(b, x)}}
    <3>2. Places(b) = Rings \cup Hands
      BY <3>1 DEF Places, InHand
    <3>3. \E x : Rings \cup Hands = {x}
      <4>1. CASE \E q \in Queues, k \in 1 .. Size : InRing(b, q, k)
        <5>1. PICK q \in Queues, k \in 1 .. Size : InRing(b, q, k)
          BY <4>1
        <5>2. Hands = {}
          BY <5>1 DEF PlaceInv, EachInv
        <5>3. \A p \in Rings : p = <<q, k>>
          BY <5>1 DEF PlaceInv, EachInv
        <5>4. <<q, k>> \in Rings
          BY <5>1
        <5>5. Rings \cup Hands = {<<q, k>>}
          <6> HIDE DEF Rings, Hands
          <6> QED BY <5>2, <5>3, <5>4
        <5> QED BY <5>5
      <4>2. CASE \E t \in Threads : InHand(b, t)
        <5>1. PICK t \in Threads : InHand(b, t)
          BY <4>2
        <5>2. Rings = {}
          BY <5>1 DEF PlaceInv, EachInv
        <5>3. \A u \in Threads : InHand(b, u) => u = t
          BY <5>1 DEF PlaceInv, EachInv
        <5>4. Hands = {<<t, 0>>}
          BY <5>1, <5>3
        <5>5. Rings \cup Hands = {<<t, 0>>}
          BY <5>2, <5>4
        <5> QED BY <5>5
      <4> QED BY <4>1, <4>2 DEF PlaceInv, EachInv
    <3> QED BY <3>2, <3>3, FS_Singleton
  <2> QED BY <2>0, <2>1 DEF EachOnce, RoomInv
<1> QED BY <1>1, PlacesInvariant, PTL

-----------------------------------------------------------------------------
(* The queues implement FrameQueue.                                        *)

\* Lines have numbers, from 1; the one on its way is the last that was written.
LineInv ==
  /\ \A t \in Threads : At(t, "use") => op[t] = "get"
  /\ AbsPending => line[id["wr"]] = count /\ count > 0
  /\ Holds("rd") => line[id["rd"]] > 0
  /\ \A k \in 1 .. Size : k <= Used("full") => line[buf["full"][Slot("full", k)]] > 0

LEMMA LineInit == Init => LineInv
<1> SUFFICES ASSUME Init PROVE LineInv
  OBVIOUS
<1>1. Used("full") = 0
  <2>1. in["full"] = 0 /\ out["full"] = 0 /\ "full" \in Queues
    BY DEF Init, Queues
  <2> QED BY <2>1, TypeInit, UsedIs
<1> QED BY <1>1 DEF Init, LineInv, AbsPending, Holds, At, Threads

\* What the abstract queue is made of.
QueueFacts ==
  /\ Used("full") \in 0 .. Size
  /\ AbsQueue \in Seq(0 .. MaxLines) /\ Len(AbsQueue) = Used("full")
  /\ \A k \in 1 .. Used("full") : AbsQueue[k] = line[buf["full"][Slot("full", k)]]

LEMMA QueueIs == TypeOK /\ RoomInv => QueueFacts
<1> SUFFICES ASSUME TypeOK, RoomInv PROVE QueueFacts
  OBVIOUS
<1>1. Used("full") \in 0 .. Size /\ Size \in Nat \ {0} /\ "full" \in Queues
  BY RoomFacts DEF Queues
<1>2. \A k \in 1 .. Used("full") : Content("full")[k] = buf["full"][Slot("full", k)]
  BY DEF Content, Slot
<1>3. \A k \in 1 .. Used("full") : buf["full"][Slot("full", k)] \in Buffers
  <2>1. \A k \in 1 .. Used("full") : Slot("full", k) \in Buffers
    BY <1>1, SlotType
  <2> QED BY <1>1, <2>1 DEF TypeOK
<1>4. AbsQueue \in [1 .. Used("full") -> 0 .. MaxLines]
  BY <1>2, <1>3 DEF AbsQueue, TypeOK
<1>5. AbsQueue \in Seq(0 .. MaxLines) /\ Len(AbsQueue) = Used("full")
  <2> HIDE DEF AbsQueue
  <2>1. Used("full") \in Nat
    BY <1>1
  <2>2. AbsQueue \in Seq(0 .. MaxLines)
    BY <1>4, <2>1, SeqDef
  <2>3. DOMAIN AbsQueue = 1 .. Used("full") /\ DOMAIN AbsQueue = 1 .. Len(AbsQueue) /\ Len(AbsQueue) \in Nat
    BY <1>4, <2>2, LenProperties
  <2> QED BY <2>1, <2>2, <2>3
<1> QED BY <1>1, <1>2, <1>5 DEF AbsQueue, QueueFacts

LEMMA QueueThen == TypeOK' /\ RoomInv' => QueueFacts'
BY QueueIs, PTL

\* A step that leaves the lines where they are.
LEMMA LineKept ==
  ASSUME TypeOK, TypeOK', RoomInv, RoomInv', LineInv,
         line' = line, count' = count, id'["wr"] = id["wr"] \/ ~AbsPending',
         id'["rd"] = id["rd"] \/ ~Holds("rd")',
         AbsPending' <=> AbsPending, Holds("rd")' <=> Holds("rd"),
         \A t \in Threads : pc'[t] = "use" => op'[t] = "get",
         Used("full")' = Used("full"),
         \A k \in 1 .. Size : k <= Used("full") =>
           buf'["full"][Slot("full", k)'] = buf["full"][Slot("full", k)]
  PROVE  LineInv' /\ UNCHANGED FQ!fqVars
<1>1. LineInv'
  BY DEF LineInv, At
<1>2. AbsQueue' = AbsQueue
  <2>1. QueueFacts /\ QueueFacts' /\ Size \in Nat
    BY QueueIs, QueueThen, RingAssumption
  <2>2. ASSUME NEW k \in 1 .. Len(AbsQueue) PROVE AbsQueue'[k] = AbsQueue[k]
    <3>1. k \in 1 .. Used("full") /\ k \in 1 .. Used("full")' /\ k \in 1 .. Size /\ k <= Used("full")
      BY <2>1 DEF QueueFacts
    <3>2. AbsQueue'[k] = (line[buf["full"][Slot("full", k)]])'
      BY <2>1, <3>1 DEF QueueFacts
    <3>3. AbsQueue[k] = line[buf["full"][Slot("full", k)]]
      BY <2>1, <3>1 DEF QueueFacts
    <3>4. (buf["full"][Slot("full", k)])' = buf["full"][Slot("full", k)]
      BY <3>1
    <3> QED BY <3>2, <3>3, <3>4
  <2> QED BY <2>1, <2>2, SeqEqual DEF QueueFacts
<1>3. AbsHand' = AbsHand
  BY DEF AbsHand
<1> QED BY <1>1, <1>2, <1>3 DEF FQ!fqVars

LEMMA LineStill ==
  ASSUME TypeOK, TypeOK', RoomInv, RoomInv', LineInv,
         UNCHANGED <<ringVars, id, line, count>>,
         AbsPending' <=> AbsPending, Holds("rd")' <=> Holds("rd"),
         \A t \in Threads : pc'[t] = "use" => op'[t] = "get"
  PROVE  LineInv' /\ UNCHANGED FQ!fqVars
<1>1. Used("full")' = Used("full") /\ \A k : Slot("full", k)' = Slot("full", k)
  BY DEF Used, Slot, ringVars
<1> QED BY <1>1, LineKept DEF ringVars

\* Copying a byte does not touch the content of a ring.
LEMMA AccessContent ==
  ASSUME TypeOK, RoomInv, NEW t \in Threads, Access(t), NEW r \in Queues,
         NEW k \in 1 .. Size, k <= Used(r)
  PROVE  buf'[r][Slot(r, k)] = buf[r][Slot(r, k)]
<1>1. PICK q \in Queues : q = Q(t)
  BY DEF Q, Queues
<1>2. ~Blocked(t) /\ pc[t] = "access" /\ op[t] \in {"get", "put"}
  BY DEF Access, RoomInv, StillRoom, At, TypeOK
<1>3. /\ Used(q) \in 0 .. Size /\ Used(r) \in 0 .. Size /\ Size \in Nat \ {0}
      /\ Slot(r, k) \in Buffers /\ Slot(q, Used(q) + 1) \in Buffers
  BY RoomFacts, SlotType
<1>4. CASE op[t] = "get"
  BY <1>4 DEF Access
<1>5. CASE op[t] = "put"
  <2>1. buf' = [buf EXCEPT ![q][Slot(q, Used(q) + 1)] = id[t]] /\ Used(q) + 1 \in 1 .. Size
    BY <1>1, <1>2, <1>3, <1>5, WriteSlot DEF Access, Blocked
  <2>2. r # q \/ Slot(r, k) # Slot(q, Used(q) + 1)
    <3>1. CASE r = q
      <4>1. k # Used(q) + 1
        BY <1>3, <3>1
      <4> QED BY <2>1, <3>1, <4>1, SlotsApart
    <3> QED BY <3>1
  <2> QED BY <1>3, <2>1, <2>2 DEF TypeOK
<1> QED BY <1>2, <1>4, <1>5

LEMMA QuietSteps ==
  ASSUME TypeOK, TypeOK', RoomInv, RoomInv', LineInv, NEW t \in Threads,
         Check(t) \/ Prepare(t) \/ Test(t) \/ Resume(t) \/ Access(t) \/ Wake(t) \/ Top(t)
  PROVE  LineInv' /\ UNCHANGED FQ!fqVars
<1> USE DEF At, Goto
<1>0. pc \in [Threads -> Steps] /\ op \in [Threads -> {"get", "put"}] /\ "wr" \in Threads /\ "rd" \in Threads
  BY DEF TypeOK, Threads
<1>1. CASE Check(t) \/ Prepare(t) \/ Test(t) \/ Resume(t)
  BY <1>0, <1>1, LineStill DEF Check, Prepare, Test, Resume, Holds, AbsPending, LineInv
<1>2. CASE Wake(t)
  BY <1>0, <1>2, LineStill DEF Wake, Holds, AbsPending, LineInv
<1>3. CASE Top(t)
  BY <1>0, <1>3, LineStill DEF Top, Holds, AbsPending, LineInv
<1>4. CASE Access(t)
  <2>1. /\ line' = line /\ count' = count /\ UNCHANGED <<in, out, op>>
        /\ pc[t] = "access" /\ pc' = [pc EXCEPT ![t] = "move"]
        /\ \A u \in Threads : (u # t \/ op[t] = "put") => id'[u] = id[u]
    BY <1>0, <1>4 DEF Access, TypeOK
  <2>2. (AbsPending' <=> AbsPending) /\ (Holds("rd")' <=> Holds("rd"))
    BY <1>0, <2>1 DEF Holds, AbsPending
  <2>3. /\ id'["wr"] = id["wr"] \/ ~AbsPending'
        /\ id'["rd"] = id["rd"] \/ ~Holds("rd")'
    <3>1. CASE op[t] = "put"
      BY <1>0, <2>1, <3>1
    <3>2. CASE op[t] = "get" /\ t = "wr"
      BY <1>0, <2>1, <3>2 DEF AbsPending, Threads
    <3>3. CASE op[t] = "get" /\ t = "rd"
      BY <1>0, <2>1, <3>3 DEF Holds, Threads
    <3> QED BY <1>0, <3>1, <3>2, <3>3 DEF Threads
  <2>4. Used("full")' = Used("full") /\ \A k : Slot("full", k)' = Slot("full", k)
    BY <2>1 DEF Used, Slot
  <2>5. \A k \in 1 .. Size : k <= Used("full") =>
           buf'["full"][Slot("full", k)'] = buf["full"][Slot("full", k)]
    BY <1>4, <2>4, AccessContent DEF Queues
  <2>6. \A u \in Threads : pc'[u] = "use" => op'[u] = "get"
    BY <1>0, <2>1 DEF LineInv
  <2> QED BY <2>1, <2>2, <2>3, <2>4, <2>5, <2>6, LineKept
<1> QED BY <1>1, <1>2, <1>3, <1>4

\* What a step of a thread at emptyQue leaves of fullQue.
LEMMA FullKept ==
  ASSUME TypeOK, TypeOK', RoomInv, NEW t \in Threads, Move(t), Q(t) = "empty"
  PROVE  Used("full")' = Used("full") /\ \A k : Slot("full", k)' = Slot("full", k)
<1>1. "empty" \in Queues /\ "full" \in Queues
  BY DEF Queues
<1>2. Used("full")' = Used("full")
  BY <1>1, MoveUsed
<1>3. out'["full"] = out["full"]
  <2>1. out \in [Queues -> 0 .. Wrap - 1]
    BY DEF TypeOK
  <2> QED BY <1>1, <2>1 DEF Move
<1> QED BY <1>2, <1>3 DEF Slot

LEMMA MoveImplements ==
  ASSUME TypeOK, TypeOK', RoomInv, RoomInv', PlaceInv, LineInv, NEW t \in Threads, Move(t)
  PROVE  LineInv' /\ (FQ!Next \/ UNCHANGED FQ!fqVars)
<1> USE DEF At, Goto
<1>0. /\ pc[t] = "move" /\ pc' = [pc EXCEPT ![t] = "wake"] /\ UNCHANGED <<buf, op, id, line, count>>
      /\ pc \in [Threads -> Steps] /\ op \in [Threads -> {"get", "put"}]
      /\ "wr" \in Threads /\ "rd" \in Threads /\ "full" \in Queues
  BY DEF Move, TypeOK, Threads, Queues
<1>1. \A u \in Threads : pc'[u] = "use" => op'[u] = "get"
  BY <1>0 DEF LineInv
<1>2. /\ QueueFacts /\ QueueFacts' /\ Used("full") \in 0 .. Size /\ Used("full")' \in 0 .. Size
      /\ Size \in Nat \ {0}
  BY QueueIs, QueueThen, RingAssumption DEF QueueFacts
<1>3. CASE t = "wr" /\ op[t] = "get"
  <2>1. /\ Used("full")' = Used("full") /\ \A k : Slot("full", k)' = Slot("full", k)
        /\ AbsPending' <=> AbsPending
        /\ Holds("rd")' <=> Holds("rd")
    BY <1>0, <1>3, FullKept DEF Q, AbsPending, Holds
  <2> QED BY <1>0, <1>1, <2>1, LineKept
<1>4. CASE t = "wr" /\ op[t] = "put"
  <2>1. /\ Used("full") < Size /\ Used("full")' = Used("full") + 1
        /\ \A k : Slot("full", k)' = Slot("full", k)
    <3>1. Q(t) = "full"
      BY <1>4 DEF Q
    <3>2. out'["full"] = out["full"]
      BY <1>0, <1>4, <3>1 DEF Move
    <3> QED BY <1>0, <1>4, <3>1, <3>2, MoveUsed DEF Slot
  <2>2. AbsPending /\ ~AbsPending' /\ (Holds("rd")' <=> Holds("rd"))
    BY <1>0, <1>4 DEF AbsPending, Holds
  <2>3. id["wr"] = buf["full"][Slot("full", Used("full") + 1)]
    <3>1. Q("wr") = "full"
      BY <1>4 DEF Q
    <3> QED BY <1>0, <1>4, <3>1, CopiedNow
  <2>4. line[id["wr"]] = count /\ count > 0 /\ count \in 0 .. MaxLines
    BY <2>2 DEF LineInv, TypeOK
  <2>5. ASSUME NEW k \in 1 .. Used("full")'
        PROVE  (line[buf["full"][Slot("full", k)]])' = IF k = Used("full") + 1 THEN count
                                                       ELSE line[buf["full"][Slot("full", k)]]
    <3>1. (line[buf["full"][Slot("full", k)]])' = line[buf["full"][Slot("full", k)]]
      BY <1>0, <2>1
    <3> QED BY <2>3, <2>4, <3>1
  <2>6. AbsQueue' = Append(AbsQueue, count)
    <3>1. Append(AbsQueue, count) \in Seq(0 .. MaxLines) /\ Len(Append(AbsQueue, count)) = Used("full") + 1
      BY <1>2, <2>4, AppendProperties DEF QueueFacts
    <3>2. \A k \in 1 .. Used("full") : Append(AbsQueue, count)[k] = AbsQueue[k]
      BY <1>2, <2>4, AppendProperties DEF QueueFacts
    <3>3. Append(AbsQueue, count)[Used("full") + 1] = count
      BY <1>2, <2>4, AppendProperties, SMTT(30) DEF QueueFacts
    <3>4. \A k \in 1 .. Used("full")' : k \in 1 .. Used("full") \/ k = Used("full") + 1
      BY <1>2, <2>1
    <3>5. \A k \in 1 .. Used("full")' : AbsQueue'[k] = Append(AbsQueue, count)[k]
      BY <1>2, <2>5, <3>2, <3>3, <3>4 DEF QueueFacts
    <3> QED BY <1>2, <2>1, <3>1, <3>5, SeqEqual DEF QueueFacts
  <2>7. LineInv'
    <3>1. \A k \in 1 .. Size : k <= Used("full")' => k \in 1 .. Used("full")'
      BY <1>2
    <3>2. \A k \in 1 .. Size : k <= Used("full")' => (line[buf["full"][Slot("full", k)]])' > 0
      <4>1. \A k \in 1 .. Size : k <= Used("full")' => k <= Used("full") \/ k = Used("full") + 1
        BY <1>2, <2>1
      <4> QED BY <1>2, <2>4, <2>5, <3>1, <4>1 DEF LineInv
    <3> QED BY <1>0, <1>1, <2>2, <3>2 DEF LineInv
  <2>8. AbsHand' = AbsHand
    BY <1>0, <2>2 DEF AbsHand
  <2>9. FQ!Accept
    BY <1>0, <2>2, <2>6, <2>8 DEF FQ!Accept
  <2> QED BY <2>7, <2>9 DEF FQ!Next
<1>5. CASE t = "rd" /\ op[t] = "get"
  <2>1. /\ Used("full") > 0 /\ Used("full")' = Used("full") - 1
        /\ \A k \in 1 .. Size : Slot("full", k)' = Slot("full", k + 1)
    <3>1. Q(t) = "full"
      BY <1>5 DEF Q
    <3>2. out'["full"] = (out["full"] + 1) % Wrap
      BY <1>0, <1>5, <3>1 DEF Move, TypeOK
    <3>3. \A k \in 1 .. Size : k \in Nat \ {0}
      BY <1>2
    <3> QED BY <1>0, <1>5, <3>1, <3>2, <3>3, MoveUsed, NextSlot
  <2>2. (AbsPending' <=> AbsPending) /\ ~Holds("rd") /\ Holds("rd")'
    BY <1>0, <1>5 DEF AbsPending, Holds
  <2>3. id["rd"] = buf["full"][Slot("full", 1)]
    <3>1. Q("rd") = "full"
      BY <1>5 DEF Q
    <3> QED BY <1>0, <1>5, <3>1, CopiedNow
  <2>4. AbsQueue # <<>> /\ Head(AbsQueue) = line[id["rd"]]
    <3>1. AbsQueue # <<>> /\ 1 \in 1 .. Used("full")
      BY <1>2, <2>1, EmptySeq DEF QueueFacts
    <3>2. Head(AbsQueue) = AbsQueue[1]
      BY <1>2, <3>1 DEF QueueFacts
    <3> QED BY <1>2, <2>3, <3>1, <3>2 DEF QueueFacts
  <2>5. ASSUME NEW k \in 1 .. Used("full")'
        PROVE  /\ (line[buf["full"][Slot("full", k)]])' = line[buf["full"][Slot("full", k + 1)]]
               /\ k + 1 \in 1 .. Used("full") /\ k + 1 \in 1 .. Size
    BY <1>0, <1>2, <2>1
  <2>6. AbsQueue' = Tail(AbsQueue)
    <3>1. /\ Tail(AbsQueue) \in Seq(0 .. MaxLines) /\ Len(Tail(AbsQueue)) = Used("full")'
          /\ \A k \in 1 .. Used("full")' : Tail(AbsQueue)[k] = AbsQueue[k + 1]
      BY <1>2, <2>1, <2>4, HeadTailProperties DEF QueueFacts
    <3>2. \A k \in 1 .. Used("full")' : AbsQueue'[k] = Tail(AbsQueue)[k]
      BY <1>2, <2>5, <3>1 DEF QueueFacts
    <3> QED BY <1>2, <3>1, <3>2, SeqEqual DEF QueueFacts
  <2>7. line[id["rd"]] > 0
    BY <1>2, <2>1, <2>3 DEF LineInv
  <2>8. LineInv'
    <3>1. \A k \in 1 .. Size : k <= Used("full")' => (line[buf["full"][Slot("full", k)]])' > 0
      BY <1>2, <2>5 DEF LineInv
    <3> QED BY <1>0, <1>1, <2>2, <2>7, <3>1 DEF LineInv
  <2>9. AbsHand["rd"] = 0 /\ AbsHand' = [AbsHand EXCEPT !["rd"] = Head(AbsQueue)]
    BY <1>0, <2>2, <2>4 DEF AbsHand
  <2>10. AbsPending' = AbsPending
    BY <2>2 DEF AbsPending
  <2>11. FQ!Take("rd")
    BY <1>0, <2>4, <2>6, <2>9, <2>10 DEF FQ!Take, FQ!NoFrame
  <2> QED BY <2>8, <2>11 DEF FQ!Next
<1>6. CASE t = "rd" /\ op[t] = "put"
  <2>1. /\ Used("full")' = Used("full") /\ \A k : Slot("full", k)' = Slot("full", k)
    BY <1>6, FullKept DEF Q
  <2>2. (AbsPending' <=> AbsPending) /\ Holds("rd") /\ ~Holds("rd")'
    BY <1>0, <1>6 DEF AbsPending, Holds
  <2>3. LineInv'
    BY <1>0, <1>1, <2>1, <2>2 DEF LineInv
  <2>4. AbsQueue' = AbsQueue
    <3>1. \A k \in 1 .. Len(AbsQueue) : AbsQueue'[k] = AbsQueue[k]
      BY <1>0, <1>2, <2>1 DEF QueueFacts
    <3> QED BY <1>2, <2>1, <3>1, SeqEqual DEF QueueFacts
  <2>5. AbsHand["rd"] # 0 /\ AbsHand' = [AbsHand EXCEPT !["rd"] = 0]
    BY <1>0, <2>2 DEF AbsHand, LineInv
  <2>6. AbsPending' = AbsPending
    BY <2>2 DEF AbsPending
  <2>7. FQ!GiveBack("rd")
    BY <1>0, <2>4, <2>5, <2>6 DEF FQ!GiveBack, FQ!NoFrame
  <2> QED BY <2>3, <2>7 DEF FQ!Next
<1> QED BY <1>0, <1>3, <1>4, <1>5, <1>6 DEF Threads

LEMMA FillImplements ==
  ASSUME TypeOK, TypeOK', RoomInv, RoomInv', PlaceInv, LineInv, Fill
  PROVE  LineInv' /\ FQ!Arrive
<1> USE DEF At, Goto
<1>0. /\ pc["wr"] = "use" /\ op["wr"] = "get" /\ pc' = [pc EXCEPT !["wr"] = "check"]
      /\ op' = [op EXCEPT !["wr"] = "put"] /\ UNCHANGED <<in, out, buf, id>>
      /\ count < MaxLines /\ count' = count + 1 /\ line' = [line EXCEPT ![id["wr"]] = count']
      /\ pc \in [Threads -> Steps] /\ op \in [Threads -> {"get", "put"}]
      /\ line \in [Buffers -> 0 .. MaxLines] /\ count \in Nat
      /\ "wr" \in Threads /\ "rd" \in Threads /\ "full" \in Queues
      /\ id["wr"] \in Buffers /\ id["rd"] \in Buffers
  BY DEF Fill, LineInv, TypeOK, Threads, Queues, ringVars
<1>1. \A u \in Threads : pc'[u] = "use" => op'[u] = "get"
  BY <1>0 DEF LineInv
<1>2. /\ QueueFacts /\ QueueFacts' /\ Size \in Nat
      /\ Used("full")' = Used("full") /\ \A k : Slot("full", k)' = Slot("full", k)
  BY <1>0, QueueIs, QueueThen, RingAssumption DEF Used, Slot
<1>3. ~AbsPending /\ AbsPending' /\ Holds("wr") /\ (Holds("rd")' <=> Holds("rd"))
  BY <1>0 DEF AbsPending, Holds
<1>4. \A k \in 1 .. Size : k <= Used("full") => buf["full"][Slot("full", k)] # id["wr"]
  BY <1>0, <1>2, <1>3 DEF PlaceInv, EachInv, InRing, InHand, QueueFacts
<1>5. Holds("rd") => id["rd"] # id["wr"]
  BY <1>0, <1>3 DEF PlaceInv, EachInv, InHand
<1>6. ASSUME NEW k \in 1 .. Used("full")
      PROVE  /\ k \in 1 .. Size /\ k <= Used("full")
             /\ (line[buf["full"][Slot("full", k)]])' = line[buf["full"][Slot("full", k)]]
  <2>1. k \in 1 .. Size /\ k <= Used("full")
    BY <1>2 DEF QueueFacts
  <2>2. (buf["full"][Slot("full", k)])' = buf["full"][Slot("full", k)]
    BY <1>0, <1>2
  <2>3. Slot("full", k) \in Buffers
    BY <1>0, <1>2, <2>1, SlotType
  <2>4. buf["full"][Slot("full", k)] \in Buffers
    BY <1>0, <2>3 DEF TypeOK
  <2>5. line'[buf["full"][Slot("full", k)]] = line[buf["full"][Slot("full", k)]]
    BY <1>0, <1>4, <2>1, <2>4
  <2> QED BY <2>1, <2>2, <2>5
<1>7. line'[id["wr"]] = count' /\ (Holds("rd") => line'[id["rd"]] = line[id["rd"]])
  BY <1>0, <1>5
<1>8. AbsQueue' = AbsQueue
  <2>1. \A k \in 1 .. Len(AbsQueue) : AbsQueue'[k] = AbsQueue[k]
    BY <1>2, <1>6 DEF QueueFacts
  <2> QED BY <1>2, <2>1, SeqEqual DEF QueueFacts
<1>9. LineInv'
  <2>1. \A k \in 1 .. Size : k <= Used("full")' => (line[buf["full"][Slot("full", k)]])' > 0
    <3>1. \A k \in 1 .. Size : k <= Used("full") => k \in 1 .. Used("full")
      BY <1>2 DEF QueueFacts
    <3> QED BY <1>2, <1>6, <3>1 DEF LineInv
  <2> QED BY <1>0, <1>1, <1>3, <1>7, <2>1 DEF LineInv
<1>10. AbsHand' = AbsHand
  BY <1>0, <1>3, <1>7 DEF AbsHand
<1> QED BY <1>0, <1>3, <1>8, <1>9, <1>10 DEF FQ!Arrive

LEMMA LineNext ==
  TypeOK /\ TypeOK' /\ RoomInv /\ RoomInv' /\ PlaceInv /\ LineInv /\ [Next]_vars
    => LineInv' /\ [FQ!Next]_(FQ!fqVars)
<1> SUFFICES ASSUME TypeOK, TypeOK', RoomInv, RoomInv', PlaceInv, LineInv, [Next]_vars
             PROVE  LineInv' /\ (FQ!Next \/ UNCHANGED FQ!fqVars)
  OBVIOUS
<1>0. pc \in [Threads -> Steps] /\ op \in [Threads -> {"get", "put"}] /\ "wr" \in Threads /\ "rd" \in Threads
  BY DEF TypeOK, Threads
<1>1. CASE Fill
  BY <1>1, FillImplements DEF FQ!Next
<1>2. CASE Show
  BY <1>0, <1>2, LineStill DEF Show, Holds, AbsPending, LineInv, At, Goto
<1>3. CASE SetExit
  BY <1>3, LineStill DEF SetExit, Holds, AbsPending, LineInv, At
<1>4. CASE Exit
  BY <1>4, LineStill DEF Exit, StopWr, WrEnded, StopRd, RdEnded, KthreadStop, Holds, AbsPending, LineInv, At
<1>5. CASE \E t \in Threads : Step(t)
  <2>1. PICK t \in Threads : Step(t)
    BY <1>5
  <2>2. CASE Move(t)
    BY <2>2, MoveImplements
  <2>3. CASE ~Move(t)
    BY <2>1, <2>3, QuietSteps DEF Step
  <2> QED BY <2>2, <2>3
<1>6. CASE UNCHANGED vars
  BY <1>6, LineStill DEF vars, exitVars, Holds, AbsPending, LineInv, At
<1> QED BY <1>1, <1>2, <1>3, <1>4, <1>5, <1>6 DEF Next

\* The two rings and their unlocked counters do what FrameQueue says: thread_rd
\* gets the lines thread_wr wrote, each whole, once, and in their order, for every
\* size of the rings and every width of the counters.
THEOREM RingImplementsQueue == Spec => FrameQueueSpec
<1>1. Init => FQ!Init
  <2> SUFFICES ASSUME Init PROVE FQ!Init
    OBVIOUS
  <2>1. Used("full") = 0
    <3>1. in["full"] = 0 /\ out["full"] = 0 /\ "full" \in Queues
      BY DEF Init, Queues
    <3> QED BY <3>1, TypeInit, UsedIs
  <2>2. AbsQueue = <<>>
    BY <2>1, TypeInit, RoomInit, QueueIs, EmptySeq DEF QueueFacts
  <2>3. ~AbsPending /\ AbsHand = [r \in {"rd"} |-> 0] /\ count = 0
    BY DEF Init, AbsPending, AbsHand, Holds, Threads
  <2> QED BY <2>2, <2>3 DEF FQ!Init, FQ!NoFrame, AbsPending
<1> QED BY <1>1, PlacesInvariant, LineInit, LineNext, PTL DEF Spec, FrameQueueSpec, FQ!Spec

-----------------------------------------------------------------------------
(* Who sleeps.                                                             *)

\* The buffers fill a ring, and one of them is in somebody's hand.
LEMMA RoomForPut ==
  ASSUME TypeOK, RoomInv, PlaceInv, NEW t \in Threads, NEW q \in Queues, Holds(t)
  PROVE  Used(q) < Size
<1>0. Used(q) \in 0 .. Size /\ Size \in Nat \ {0}
  BY RoomFacts
<1> SUFFICES ASSUME Used(q) = Size PROVE FALSE
  BY <1>0
<1> DEFINE S == 1 .. Size
           T == Buffers \ {id[t]}
           f == [k \in S |-> buf[q][Slot(q, k)]]
<1>1. id[t] \in Buffers /\ \A k \in S : InRing(buf[q][Slot(q, k)], q, k) /\ buf[q][Slot(q, k)] \in Buffers
  BY <1>0, SlotType DEF TypeOK, InRing
<1>2. f \in [S -> T] /\ \A x \in S, y \in S : f[x] = f[y] => x = y
  BY <1>1 DEF PlaceInv, EachInv, InHand
<1>3. IsFiniteSet(S) /\ Cardinality(S) = Size /\ IsFiniteSet(T) /\ Cardinality(T) = Size - 1
  <2>1. IsFiniteSet(S) /\ Cardinality(S) = Size
    BY <1>0, FS_Interval
  <2>2. IsFiniteSet(Buffers) /\ Cardinality(Buffers) = Size
    BY <1>0, FS_Interval DEF Buffers
  <2>3. IsFiniteSet(T) /\ Cardinality(T) = Cardinality(Buffers) - 1
    BY <1>1, <2>2, FS_RemoveElement
  <2> QED BY <2>1, <2>2, <2>3
<1>4. Cardinality(T) < Cardinality(S)
  BY <1>0, <1>3
<1> HIDE DEF S, T, f
<1> QED BY <1>2, <1>3, <1>4, FS_PigeonHole

\* Only gets wait, and who sleeps has nothing to get or is about to be woken.
AwakeInv(t) ==
  /\ pc[t] \in {"prepare", "test", "sleep"} => op[t] = "get"
  /\ Asleep(t) => Used(Q(t)) = 0 \/ \E u \in Threads : At(u, "wake") /\ Q(u) = Q(t)

\* The other thread's step.
LEMMA AwakeElsewhere ==
  ASSUME NEW t \in Threads, NEW u \in Threads, u # t, AwakeInv(u),
         pc'[u] = pc[u], op'[u] = op[u], NEW q, q = Q(u),
         wq'[q] \subseteq wq[q] \cup {t},
         Used(q)' = Used(q) \/ (pc'[t] = "wake" /\ Q(t)' = q),
         At(t, "wake") /\ Q(t) = q => wq'[q] = {}
  PROVE  AwakeInv(u)'
<1>1. Q(u)' = q
  BY DEF Q
<1>2. Asleep(u)' => Asleep(u) /\ wq'[q] # {}
  BY <1>1 DEF Asleep, At
<1>3. ASSUME Asleep(u)', NEW w \in Threads, At(w, "wake"), Q(w) = Q(u) PROVE FALSE
  <2>1. w = t
    BY <1>2, <1>3 DEF Asleep, At, Threads
  <2> QED BY <1>2, <1>3, <2>1
<1>4. Asleep(u)' => Used(q) = 0
  BY <1>2, <1>3 DEF AwakeInv
<1>5. Asleep(u)' => Used(q)' = 0 \/ (pc'[t] = "wake" /\ Q(t)' = q)
  BY <1>4
<1>6. pc'[u] \in {"prepare", "test", "sleep"} => op'[u] = "get"
  BY DEF AwakeInv
<1> QED BY <1>1, <1>5, <1>6 DEF AwakeInv, At

LEMMA AwakeNext ==
  TypeOK /\ TypeOK' /\ RoomInv /\ PlaceInv /\ (\A t \in Threads : AwakeInv(t)) /\ [Next]_vars
    => \A t \in Threads : AwakeInv(t)'
<1> SUFFICES ASSUME TypeOK, TypeOK', RoomInv, PlaceInv, \A t \in Threads : AwakeInv(t), [Next]_vars
             PROVE  \A t \in Threads : AwakeInv(t)'
  OBVIOUS
<1>0. /\ pc \in [Threads -> Steps] /\ op \in [Threads -> {"get", "put"}]
      /\ wq \in [Queues -> SUBSET Threads] /\ \A t \in Threads : Q(t) \in Queues
  BY DEF TypeOK, Q, Queues
<1>1. ASSUME NEW t \in Threads, Step(t), NEW u \in Threads, u # t PROVE AwakeInv(u)'
  <2>0. PICK q \in Queues : q = Q(u)
    BY <1>0
  <2>1. pc'[u] = pc[u] /\ op'[u] = op[u] /\ wq'[q] \subseteq wq[q] \cup {t}
    BY <1>0, <1>1 DEF Step, Check, Prepare, Test, Resume, Access, Move, Wake, Top, Goto
  <2>2. Used(q)' = Used(q) \/ (pc'[t] = "wake" /\ Q(t)' = q)
    <3>1. q \in Queues
      OBVIOUS
    <3>2. CASE Move(t)
      <4>1. pc'[t] = "wake" /\ op' = op /\ Q(t)' = Q(t)
        BY <1>0, <3>2 DEF Move, Goto, Q
      <4>2. Q(t) # q => in'[q] = in[q] /\ out'[q] = out[q]
        BY <1>0, <3>1, <3>2 DEF Move, TypeOK
      <4>3. Q(t) # q => Used(q)' = Used(q)
        BY <3>1, <4>2 DEF Used
      <4> QED BY <3>1, <4>1, <4>3
    <3>3. CASE ~Move(t)
      <4>1. in' = in /\ out' = out
        BY <1>1, <3>3 DEF Step, Check, Prepare, Test, Resume, Access, Wake, Top, ringVars
      <4> QED BY <3>1, <4>1 DEF Used
    <3> QED BY <3>2, <3>3
  <2>3. At(t, "wake") /\ Q(t) = q => wq'[q] = {}
    BY <1>0, <1>1 DEF Step, Check, Prepare, Test, Resume, Access, Move, Wake, Top, At
  <2> QED BY <1>1, <2>0, <2>1, <2>2, <2>3, AwakeElsewhere
<1>2. ASSUME NEW t \in Threads, Step(t) PROVE AwakeInv(t)'
  <2>1. CASE Check(t)
    <3>1. pc[t] = "check" /\ op' = op /\ pc'[t] = IF Blocked(t) THEN "prepare" ELSE "access"
      BY <1>0, <2>1 DEF Check, Goto, At
    <3>2. op[t] = "put" => ~Blocked(t)
      <4>1. op[t] = "put" => Used(Q(t)) < Size /\ Used(Q(t)) \in 0 .. Size /\ Size \in Nat
        BY <1>0, <3>1, RoomForPut, RoomFacts DEF Holds
      <4> QED BY <4>1 DEF Blocked
    <3> QED BY <1>0, <3>1, <3>2 DEF AwakeInv, Asleep, At
  <2>2. CASE Test(t)
    <3>1. op' = op /\ op[t] = "get" /\ Q(t)' = Q(t)
      BY <1>0, <2>2 DEF Test, AwakeInv, At, Q
    <3>2. pc'[t] = "sleep" => Used(Q(t)) = 0
      BY <1>0, <2>2, <3>1 DEF Test, Goto, Blocked
    <3>3. \A q : Used(q)' = Used(q)
      BY <2>2 DEF Test, ringVars, Used
    <3> QED BY <3>1, <3>2, <3>3 DEF AwakeInv, Asleep, At
  <2>3. CASE Prepare(t) \/ Resume(t)
    <3>1. op' = op /\ op[t] = "get" /\ pc'[t] # "sleep"
      BY <1>0, <2>3 DEF Prepare, Resume, AwakeInv, At, Goto
    <3> QED BY <3>1 DEF AwakeInv, Asleep, At
  <2>4. CASE Access(t) \/ Move(t) \/ Wake(t) \/ Top(t)
    <3>1. pc'[t] \in {"move", "wake", "use", "top", "ended", "check"}
      BY <1>0, <2>4 DEF Access, Move, Wake, Top, Goto
    <3> QED BY <3>1 DEF AwakeInv, Asleep, At
  <2> QED BY <1>2, <2>1, <2>2, <2>3, <2>4 DEF Step
<1>3. ASSUME NEW t \in Threads, pc' = [pc EXCEPT ![t] = "check"], pc[t] = "use",
             op' = [op EXCEPT ![t] = "put"], UNCHANGED <<ringVars, wq>>, NEW u \in Threads
      PROVE  AwakeInv(u)'
  <2>1. CASE u = t
    BY <1>0, <1>3, <2>1 DEF AwakeInv, Asleep, At
  <2>2. CASE u # t
    <3>0. PICK q \in Queues : q = Q(u)
      BY <1>0
    <3>1. Used(q)' = Used(q) /\ pc'[u] = pc[u] /\ op'[u] = op[u] /\ wq'[q] = wq[q] /\ ~At(t, "wake")
      BY <1>0, <1>3, <2>2 DEF Used, ringVars, At
    <3> QED BY <2>2, <3>0, <3>1, AwakeElsewhere
  <2> QED BY <2>1, <2>2
<1>4. CASE Fill \/ Show
  BY <1>3, <1>4 DEF Fill, Show, At, Goto, Threads
<1>5. ASSUME UNCHANGED <<ringVars, pc, op>>, \A q \in Queues : wq'[q] \subseteq wq[q], NEW u \in Threads
      PROVE  AwakeInv(u)'
  <2>1. \A w : Q(w)' = Q(w)
    BY <1>5 DEF Q
  <2>2. \A q : Used(q)' = Used(q)
    BY <1>5 DEF Used, ringVars
  <2>3. Asleep(u)' => Asleep(u)
    BY <1>0, <1>5, <2>1 DEF Asleep, At
  <2> QED BY <1>5, <2>1, <2>2, <2>3 DEF AwakeInv, At
<1>6. CASE SetExit \/ Exit \/ UNCHANGED vars
  <2>1. UNCHANGED <<ringVars, pc, op>> /\ \A q \in Queues : wq'[q] \subseteq wq[q]
    BY <1>0, <1>6 DEF SetExit, Exit, StopWr, WrEnded, StopRd, RdEnded, KthreadStop, vars, ringVars, exitVars
  <2> QED BY <1>5, <2>1
<1>7. CASE \E t \in Threads : Step(t)
  BY <1>1, <1>2, <1>7
<1> QED BY <1>4, <1>6, <1>7 DEF Next

\* No thread sleeps while it could have a buffer, but for the moment in which the
\* other is about to wake it; no put sleeps; and never do both sleep.
THEOREM RingAwake == Spec => []AwakeForBuffers
<1>1. Init => \A t \in Threads : AwakeInv(t)
  BY DEF Init, AwakeInv, Asleep, At
<1>2. TypeOK /\ RoomInv /\ PlaceInv /\ (\A t \in Threads : AwakeInv(t)) => AwakeForBuffers
  <2> SUFFICES ASSUME TypeOK, RoomInv, PlaceInv, \A t \in Threads : AwakeInv(t) PROVE AwakeForBuffers
    OBVIOUS
  <2>1. \A t \in Threads : Asleep(t) => op[t] = "get"
    BY DEF AwakeInv, Asleep, At
  <2>2. ASSUME \A t \in Threads : Asleep(t) PROVE FALSE
    <3>1. "wr" \in Threads /\ "rd" \in Threads /\ Q("wr") = "empty" /\ Q("rd") = "full"
      BY <2>1, <2>2 DEF Threads, Q
    <3>2. Used("empty") = 0 /\ Used("full") = 0
      BY <2>2, <3>1 DEF AwakeInv, Asleep, At
    <3>3. \A t \in Threads : ~Holds(t)
      BY <2>1, <2>2 DEF Holds, Asleep, At
    <3>4. 0 \in Buffers
      BY RingAssumption DEF Buffers
    <3> QED BY <3>2, <3>3, <3>4 DEF PlaceInv, EachInv, InRing, InHand, Queues
  <2> QED BY <2>1, <2>2 DEF AwakeForBuffers, AwakeInv
<1>3. Spec => [](\A t \in Threads : AwakeInv(t))
  <2>1. (TypeOK /\ RoomInv /\ PlaceInv) /\ (TypeOK /\ RoomInv /\ PlaceInv)'
        /\ (\A t \in Threads : AwakeInv(t)) /\ [Next]_vars => (\A t \in Threads : AwakeInv(t))'
    BY AwakeNext
  <2> QED BY <1>1, <2>1, PlacesInvariant, PTL DEF Spec
<1> QED BY <1>2, <1>3, PlacesInvariant, PTL
=============================================================================
