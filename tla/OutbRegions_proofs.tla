-------------------------- MODULE OutbRegions_proofs -------------------------
(***************************************************************************)
(* For every number of windows and all addresses, sizes and widths: every  *)
(* variable stays within its type. Used by one thread that opens the       *)
(* device once at a time, the allocator never gives a window away twice,   *)
(* status_out is the truth, the registers of a mapping translate           *)
(* consecutive addresses, and a refusal means that too few windows are     *)
(* free.                                                                   *)
(***************************************************************************)
EXTENDS OutbRegions, Numbers_proofs

\* The allocator locks nothing: both halves are needed.
OneUser == /\ \A t, u \in Threads : t = u
           /\ MaxOpens <= 1

\* What the kmalloc returns to: the request's windows are still free.
PendFree == \A t \in Threads : pend[t] # NoRequest =>
  /\ opens > 0
  /\ WindowsOf(pend[t]) \subseteq status

\* No file, no mapping: what open() claims about the windows is true.
Fresh == opens = 0 => DOMAIN maps = {}

MapTypes ==
  /\ opens \in 0 .. MaxOpens
  /\ pend = [t \in Threads |-> pend[t]]

OutbInv == MapTypes /\ NoShare /\ StatusHonest /\ PendFree /\ Fresh

-----------------------------------------------------------------------------
LEMMA OutbInvInit == Init => OutbInv
<1> SUFFICES ASSUME Init PROVE OutbInv
  OBVIOUS
<1>1. DOMAIN maps = {}
  BY DEF Init
<1>2. MapTypes
  BY <1>1, OutbAssumption DEF Init, MapTypes
<1> QED BY <1>1, <1>2 DEF Init, OutbInv, NoShare, StatusHonest, PendFree, Fresh

\* Whatever leaves the mappings, the bits and the requests alone.
LEMMA Untouched ==
  ASSUME OutbInv, UNCHANGED <<opens, status, maps, pend>>
  PROVE  OutbInv'
  BY DEF OutbInv, MapTypes, NoShare, StatusHonest, PendFree, Fresh, Used

LEMMA OpenStep == ASSUME OneUser, OutbInv, Open PROVE OutbInv'
<1>1. opens = 0 /\ opens' = 1
  BY OutbAssumption DEF OneUser, OutbInv, MapTypes, Open
<1>2. DOMAIN maps = {} /\ UNCHANGED <<maps, pend>> /\ status' = Usable
  BY <1>1 DEF OutbInv, Fresh, Open
<1>3. \A t \in Threads : pend[t] = NoRequest
  BY <1>1 DEF OutbInv, PendFree
<1>4. Used' = {}
  BY <1>2 DEF Used
<1>5. StatusHonest'
  BY <1>2, <1>4 DEF StatusHonest
<1>6. MapTypes'
  BY <1>1, <1>2, OutbAssumption DEF OutbInv, MapTypes, Open
<1> QED BY <1>1, <1>2, <1>3, <1>5, <1>6 DEF OutbInv, NoShare, PendFree, Fresh

LEMMA CloseStep == ASSUME OneUser, OutbInv, Close PROVE OutbInv'
<1>1. opens = 1 /\ opens' = 0
  BY OutbAssumption DEF OneUser, OutbInv, MapTypes, Close
<1>2. DOMAIN maps' = {}
  BY DEF Close
<1>3. \A t \in Threads : pend'[t] = NoRequest
  BY DEF Close
<1>4. MapTypes'
  BY <1>1, <1>2, OutbAssumption DEF OutbInv, MapTypes, Close
<1> QED BY <1>1, <1>2, <1>3, <1>4 DEF OutbInv, NoShare, StatusHonest, PendFree, Fresh

LEMMA FitsStep ==
  ASSUME OutbInv, NEW t \in Threads, NEW base \in Bases, NEW size \in Sizes,
         RequestFits(t, base, size)
  PROVE  OutbInv'
<1> DEFINE width == Width(obSize)
<1> DEFINE n == Regions(size, width)
<1>1. PICK start \in Runs(status, n) :
        pend' = [pend EXCEPT ![t] =
          [base |-> base, size |-> size, width |-> width, regions |-> n, start |-> start]]
  BY DEF RequestFits
<1>2. opens > 0 /\ UNCHANGED <<opens, status, maps>>
  BY DEF RequestFits
<1>3. WindowsOf(pend'[t]) \subseteq status
  <2>1. start .. start + n - 1 \subseteq status
    BY <1>1 DEF Runs
  <2>2. pend'[t].start = start /\ pend'[t].regions = n
    BY <1>1 DEF OutbInv, MapTypes
  <2> HIDE DEF n
  <2> QED BY <2>1, <2>2 DEF WindowsOf
<1>4. \A u \in Threads : u # t => pend'[u] = pend[u]
  BY <1>1 DEF OutbInv, MapTypes
<1>5. PendFree'
  BY <1>2, <1>3, <1>4 DEF OutbInv, PendFree
<1>6. MapTypes'
  BY <1>1, <1>2, OutbAssumption DEF OutbInv, MapTypes
<1> QED BY <1>2, <1>5, <1>6 DEF OutbInv, NoShare, StatusHonest, Fresh, Used

LEMMA NoMemoryStep == ASSUME OutbInv, NEW t \in Threads, NoMemory(t) PROVE OutbInv'
<1>1. /\ UNCHANGED <<opens, status, maps>>
      /\ pend' = [pend EXCEPT ![t] = NoRequest]
  BY DEF NoMemory
<1>2. PendFree' /\ MapTypes'
  BY <1>1 DEF OutbInv, PendFree, MapTypes
<1> QED BY <1>1, <1>2 DEF OutbInv, NoShare, StatusHonest, Fresh, Used

\* The new mapping takes windows that were free, so no other mapping has them.
LEMMA MapStep == ASSUME OneUser, OutbInv, NEW t \in Threads, Map(t) PROVE OutbInv'
<1> DEFINE m == pend[t]
<1>1. PICK e \in Entries \ DOMAIN maps :
        maps' = [x \in DOMAIN maps \cup {e} |-> IF x = e THEN m ELSE maps[x]]
  BY DEF Map, Add
<1>2. /\ opens > 0 /\ opens' = opens
      /\ WindowsOf(m) \subseteq status
      /\ status' = status \ WindowsOf(m)
      /\ pend' = [pend EXCEPT ![t] = NoRequest]
  BY DEF Map, OutbInv, PendFree
<1>3. status = Usable \ Used
  BY <1>2 DEF OutbInv, StatusHonest
<1>4. /\ DOMAIN maps' = DOMAIN maps \cup {e}
      /\ maps'[e] = m
      /\ \A x \in DOMAIN maps : x # e /\ maps'[x] = maps[x]
  BY <1>1
<1>5. \A x \in DOMAIN maps : WindowsOf(maps[x]) \cap WindowsOf(m) = {}
  BY <1>2, <1>3 DEF Used
<1> HIDE DEF m
<1>6. NoShare'
  <2>1. \A x \in DOMAIN maps' : WindowsOf(maps'[x]) \subseteq Usable
    BY <1>2, <1>3, <1>4 DEF OutbInv, NoShare
  <2>2. ASSUME NEW i \in DOMAIN maps', NEW j \in DOMAIN maps', i # j
        PROVE  WindowsOf(maps'[i]) \cap WindowsOf(maps'[j]) = {}
    BY <1>4, <1>5, <2>2 DEF OutbInv, NoShare
  <2> QED BY <2>1, <2>2 DEF NoShare, WindowsOf
<1>7. StatusHonest'
  <2>1. Used' = Used \cup WindowsOf(m)
    <3>1. Used' = UNION {WindowsOf(maps'[x]) : x \in DOMAIN maps'}
      BY DEF Used, WindowsOf
    <3>2. {WindowsOf(maps'[x]) : x \in DOMAIN maps'}
            = {WindowsOf(maps[x]) : x \in DOMAIN maps} \cup {WindowsOf(m)}
      BY <1>4
    <3> QED BY <3>1, <3>2 DEF Used
  <2> QED BY <2>1, <1>2, <1>3 DEF StatusHonest, Usable, Msi
<1>8. PendFree'
  BY <1>2 DEF OneUser, PendFree, OutbInv, MapTypes
<1>9. MapTypes' /\ Fresh'
  <2>1. pend' = [u \in Threads |-> pend'[u]] /\ opens' \in 0 .. MaxOpens
    BY <1>2 DEF OutbInv, MapTypes
  <2>2. opens' # 0
    BY <1>2, OutbAssumption DEF OutbInv, MapTypes
  <2> QED BY <2>1, <2>2 DEF MapTypes, Fresh
<1> QED BY <1>6, <1>7, <1>8, <1>9 DEF OutbInv

\* What the mappings that go leave behind is not in any that stays.
LEMMA ClearStep == ASSUME OutbInv, NEW base \in Bases, Clear(base) PROVE OutbInv'
<1> DEFINE gone == {e \in DOMAIN maps : maps[e].base = base}
           freed == UNION {WindowsOf(maps[e]) : e \in gone}
           left == DOMAIN maps \ gone
<1>1. /\ opens > 0
      /\ maps' = [e \in left |-> maps[e]]
      /\ status' = status \cup freed
      /\ UNCHANGED <<opens, pend>>
  BY DEF Clear, Restrict
<1>2. DOMAIN maps' = left /\ \A e \in left : maps'[e] = maps[e]
  BY <1>1
<1>3. NoShare'
  BY <1>2 DEF OutbInv, NoShare, WindowsOf
<1>4. StatusHonest'
  <2>1. Used' = UNION {WindowsOf(maps[e]) : e \in left}
    <3>1. Used' = UNION {WindowsOf(maps'[e]) : e \in DOMAIN maps'}
      BY DEF Used, WindowsOf
    <3>2. {WindowsOf(maps'[e]) : e \in DOMAIN maps'} = {WindowsOf(maps[e]) : e \in left}
      BY <1>2
    <3> QED BY <3>1, <3>2
  <2>2. Used = freed \cup UNION {WindowsOf(maps[e]) : e \in left}
    BY DEF Used
  <2>3. freed \cap UNION {WindowsOf(maps[e]) : e \in left} = {}
    BY DEF OutbInv, NoShare
  <2>4. freed \subseteq Usable
    BY DEF OutbInv, NoShare
  <2>5. status = Usable \ Used
    BY <1>1 DEF OutbInv, StatusHonest
  <2>6. status' = Usable \ Used'
    BY <1>1, <2>1, <2>2, <2>3, <2>4, <2>5
  <2> QED BY <2>6 DEF StatusHonest, Usable, Msi
<1>5. PendFree'
  BY <1>1 DEF OutbInv, PendFree
<1>6. MapTypes' /\ Fresh'
  BY <1>1 DEF OutbInv, MapTypes, Fresh
<1> QED BY <1>3, <1>4, <1>5, <1>6 DEF OutbInv

LEMMA OutbInvStep == ASSUME OneUser, OutbInv, [Next]_vars PROVE OutbInv'
<1>1. CASE Open BY <1>1, OpenStep
<1>2. CASE Close BY <1>2, CloseStep
<1>3. CASE SendMsi BY <1>3, Untouched DEF SendMsi
<1>4. ASSUME NEW ob \in ObSizes, SetSize(ob) PROVE OutbInv'
  BY <1>4, Untouched DEF SetSize
<1>5. ASSUME NEW t \in Threads, NEW b \in Bases, NEW s \in Sizes,
             RequestRefused(t, b, s) \/ RequestFits(t, b, s)
      PROVE  OutbInv'
  <2>1. CASE RequestRefused(t, b, s) BY <2>1, Untouched DEF RequestRefused
  <2>2. CASE RequestFits(t, b, s) BY <2>2, FitsStep
  <2> QED BY <1>5, <2>1, <2>2
<1>6. ASSUME NEW t \in Threads, NoMemory(t) \/ Map(t) PROVE OutbInv'
  BY <1>6, NoMemoryStep, MapStep
<1>7. ASSUME NEW b \in Bases, Clear(b) PROVE OutbInv'
  BY <1>7, ClearStep
<1>8. CASE UNCHANGED vars BY <1>8, Untouched DEF vars
<1> QED BY <1>1, <1>2, <1>3, <1>4, <1>5, <1>6, <1>7, <1>8 DEF Next

-----------------------------------------------------------------------------
\* No window belongs to two mappings, and the window of the MSIs to none, whatever
\* is mapped, refused and cleared in whatever order and with changing widths.
THEOREM OutbNoShare == ASSUME OneUser PROVE Spec => []NoShare
<1>1. OutbInv => NoShare
  BY DEF OutbInv
<1> QED BY <1>1, OutbInvInit, OutbInvStep, PTL DEF Spec

\* A bit of status_out is set exactly when its window is in no mapping.
THEOREM OutbStatusHonest == ASSUME OneUser PROVE Spec => []StatusHonest
<1>1. OutbInv => StatusHonest
  BY DEF OutbInv
<1> QED BY <1>1, OutbInvInit, OutbInvStep, PTL DEF Spec

-----------------------------------------------------------------------------
(* Numbers.                                                                *)

LEMMA WidthType == \A ob \in ObSizes : Width(ob) \in 1 .. 8 /\ Width(ob) <= LoRange
<1> TAKE ob \in ObSizes
<1>1. ob \in 0 .. 3 /\ LoRange \in Nat /\ 8 <= LoRange
  BY OutbAssumption
<1>2. Width(ob) \in {1, 2, 4, 8}
  BY <1>1 DEF Width
<1> QED BY <1>1, <1>2

LEMMA RegionsType ==
  ASSUME NEW size \in Nat, NEW width \in 1 .. 8
  PROVE  Regions(size, width) \in Nat /\ (size > 0 => Regions(size, width) > 0)
<1> DEFINE a == size + width - 1  q == a \div width  r == a % width
<1>1. a \in Nat /\ width \in Nat \ {0}
  OBVIOUS
<1>2. a = width * q + r /\ r \in 0 .. width - 1 /\ q \in Nat
  <2> HIDE DEF a
  <2> QED BY <1>1, DivMod
<1>3. Regions(size, width) = q
  BY DEF Regions
<1> HIDE DEF q, r
<1>4. size > 0 => q > 0
  <2> SUFFICES ASSUME size > 0, q = 0 PROVE FALSE
    BY <1>2
  <2> QED BY <1>2
<1> QED BY <1>2, <1>3, <1>4

-----------------------------------------------------------------------------
(* The addresses of a mapping's windows.                                   *)

\* One turn of the loop: the low word and the carry into the high one.
LEMMA AdvanceOnce ==
  ASSUME NEW c \in Nat, NEW width \in 1 .. 8, width <= LoRange
  PROVE  /\ (c + width) \div LoRange = (c \div LoRange) + (IF (c % LoRange) + width >= LoRange THEN 1 ELSE 0)
         /\ (c + width) % LoRange = ((c % LoRange) + width) % LoRange
<1>0. LoRange \in Nat \ {0}
  BY OutbAssumption
<1> DEFINE hi == c \div LoRange  lo == c % LoRange
<1>1. c = LoRange * hi + lo /\ lo \in 0 .. LoRange - 1 /\ hi \in Nat
  BY <1>0, DivMod
<1> SUFFICES /\ (c + width) \div LoRange = hi + (IF lo + width >= LoRange THEN 1 ELSE 0)
             /\ (c + width) % LoRange = (lo + width) % LoRange
  OBVIOUS
<1> HIDE DEF hi, lo
<1>2. CASE lo + width < LoRange
  <2>1. c + width = LoRange * hi + (lo + width) /\ lo + width \in 0 .. LoRange - 1 /\ c + width \in Nat
    BY <1>0, <1>1, <1>2
  <2> DEFINE a == c + width  r == lo + width
  <2>2. a = LoRange * hi + r /\ r \in 0 .. LoRange - 1 /\ a \in Nat /\ hi \in Int
    BY <1>1, <2>1
  <2>3. r = LoRange * 0 + r /\ r \in Nat
    BY <1>0, <1>1
  <2> HIDE DEF a, r
  <2>4. a \div LoRange = hi /\ a % LoRange = r
    BY <1>0, <2>2, Division
  <2>5. r % LoRange = r
    BY <1>0, <2>2, <2>3, Division
  <2>6. hi + 0 = hi /\ ~(r >= LoRange)
    BY <1>0, <2>2
  <2> QED BY <2>4, <2>5, <2>6 DEF a, r
<1>3. CASE lo + width >= LoRange
  <2>1. /\ c + width = LoRange * (hi + 1) + (lo + width - LoRange) /\ hi + 1 \in Int
        /\ lo + width - LoRange \in 0 .. LoRange - 1 /\ c + width \in Nat
    BY <1>0, <1>1, <1>3
  <2>2. (c + width) \div LoRange = hi + 1 /\ (c + width) % LoRange = lo + width - LoRange
    BY <1>0, <2>1, Division
  <2>3. lo + width = LoRange * 1 + (lo + width - LoRange) /\ lo + width \in Nat
    BY <1>0, <1>1
  <2>4. (lo + width) % LoRange = lo + width - LoRange
    BY <1>0, <2>1, <2>3, Division
  <2> QED BY <1>3, <2>2, <2>4
<1>4. lo + width < LoRange \/ lo + width >= LoRange
  BY <1>0, <1>1
<1> QED BY <1>2, <1>3, <1>4

\* What the loop has computed after k turns.
PlaceOf(base, width, i) == <<(base + i * width) \div LoRange, (base + i * width) % LoRange>>

LEMMA PlaceNext ==
  ASSUME NEW base \in Nat, NEW width \in 1 .. 8, width <= LoRange, NEW i \in Nat \ {0}
  PROVE  LET hi == PlaceOf(base, width, i - 1)[1]
             lo == PlaceOf(base, width, i - 1)[2]
         IN  PlaceOf(base, width, i)
               = <<hi + (IF lo + width >= LoRange THEN 1 ELSE 0), (lo + width) % LoRange>>
<1> DEFINE c == base + (i - 1) * width
<1>1. c \in Nat /\ base + i * width = c + width
  OBVIOUS
<1> HIDE DEF c
<1>2. PlaceOf(base, width, i) = <<(c + width) \div LoRange, (c + width) % LoRange>>
  BY <1>1 DEF PlaceOf
<1>3. PlaceOf(base, width, i - 1) = <<c \div LoRange, c % LoRange>>
  BY DEF PlaceOf, c
<1> QED BY <1>1, <1>2, <1>3, AdvanceOnce

LEMMA AdvanceIs ==
  ASSUME NEW base \in Nat, NEW width \in 1 .. 8, width <= LoRange, NEW k \in Nat
  PROVE  Advance(base, width, k) = PlaceOf(base, width, k)
<1> DEFINE Turn(f, i) ==
             IF i = 0 THEN <<base \div LoRange, base % LoRange>>
             ELSE LET hi == f[i - 1][1]
                      lo == f[i - 1][2]
                  IN  <<hi + (IF lo + width >= LoRange THEN 1 ELSE 0), (lo + width) % LoRange>>
           addr == CHOOSE f : f = [i \in 0 .. k |-> Turn(f, i)]
           G == [i \in 0 .. k |-> PlaceOf(base, width, i)]
<1>1. \A i \in 0 .. k : G[i] = Turn(G, i)
  <2> TAKE i \in 0 .. k
  <2>1. CASE i = 0
    BY <2>1 DEF PlaceOf
  <2>2. CASE i # 0
    <3>1. i \in Nat \ {0} /\ i - 1 \in 0 .. k
      BY <2>2
    <3> QED BY <2>2, <3>1, PlaceNext
  <2> QED BY <2>1, <2>2
<1>2. G = [i \in 0 .. k |-> Turn(G, i)]
  <2>1. G = [i \in 0 .. k |-> G[i]]
    OBVIOUS
  <2> HIDE DEF G, Turn
  <2> QED BY <1>1, <2>1
<1>3. addr = [i \in 0 .. k |-> Turn(addr, i)]
  <2> HIDE DEF G, Turn
  <2> QED BY <1>2, Zenon
<1>4. \A i \in 0 .. k : addr[i] = G[i]
  <2> SUFFICES ASSUME {i \in 0 .. k : addr[i] # G[i]} # {} PROVE FALSE
    OBVIOUS
  <2> DEFINE T == {i \in 0 .. k : addr[i] # G[i]}
  <2>1. PICK n \in T : \A m \in T : n <= m
    <3>1. T \in SUBSET Nat /\ T # {}
      <4> HIDE DEF addr, G
      <4> QED OBVIOUS
    <3> HIDE DEF T
    <3> QED BY <3>1, Least
  <2>2. n \in 0 .. k /\ addr[n] # G[n] /\ (n # 0 => n - 1 \in 0 .. k /\ n - 1 \notin T)
    <3>1. n \in 0 .. k /\ addr[n] # G[n]
      OBVIOUS
    <3> HIDE DEF T
    <3> QED BY <2>1, <3>1
  <2>3. n # 0 => addr[n - 1] = G[n - 1]
    BY <2>2
  <2>4. addr[n] = Turn(addr, n) /\ G[n] = Turn(G, n)
    <3> HIDE DEF addr, G, Turn
    <3> QED BY <1>1, <1>3, <2>2
  <2>5. Turn(addr, n) = Turn(G, n)
    <3> HIDE DEF addr, G
    <3> QED BY <2>3
  <2> QED BY <2>2, <2>4, <2>5
<1>5. Advance(base, width, k) = addr[k]
  BY DEF Advance
<1> QED BY <1>4, <1>5

LEMMA PlaceType ==
  ASSUME NEW base \in Nat, NEW width \in 1 .. 8, NEW k \in Nat
  PROVE  /\ PlaceOf(base, width, k) \in Nat \X (0 .. LoRange - 1)
         /\ PlaceOf(base, width, k)[1] * LoRange + PlaceOf(base, width, k)[2] = base + k * width
<1> DEFINE c == base + k * width  hi == c \div LoRange  lo == c % LoRange
<1>1. c \in Nat /\ LoRange \in Nat \ {0}
  BY OutbAssumption
<1>2. c = LoRange * hi + lo /\ lo \in 0 .. LoRange - 1 /\ hi \in Nat
  <2> HIDE DEF c
  <2> QED BY <1>1, DivMod
<1>3. PlaceOf(base, width, k) = <<hi, lo>>
  BY DEF PlaceOf
<1> HIDE DEF hi, lo
<1>4. hi * LoRange + lo = c
  BY <1>1, <1>2
<1> QED BY <1>2, <1>3, <1>4

-----------------------------------------------------------------------------
(* Types, without any assumption on who uses the driver.                   *)

\* A mapping has at least one window, and every one of them is an application's.
InBounds(m) == /\ m \in Mappings
               /\ WindowsOf(m) \subseteq Usable

TypeInv == /\ TypeOK
           /\ \A t \in Threads : pend[t] # NoRequest => InBounds(pend[t])
           /\ \A e \in DOMAIN maps : InBounds(maps[e])

LEMMA MappingType ==
  ASSUME NEW m \in Mappings
  PROVE  /\ m.base \in Nat /\ m.size \in Nat /\ m.width \in 1 .. 8 /\ m.width <= LoRange
         /\ m.regions \in Nat \ {0} /\ m.start \in Nat
<1>1. m.width \in {Width(ob) : ob \in ObSizes}
  BY DEF Mappings
<1>2. m.width \in 1 .. 8 /\ m.width <= LoRange
  BY <1>1, WidthType
<1>3. m.base \in Bases /\ m.size \in Sizes /\ m.regions \in 1 .. NumWindows /\ m.start \in 0 .. Msi
  BY DEF Mappings
<1>4. m.base \in Nat /\ m.size \in Nat
  BY <1>3, OutbAssumption
<1>5. m.regions \in Nat \ {0} /\ m.start \in Nat
  BY <1>3, OutbAssumption DEF Msi
<1> QED BY <1>2, <1>4, <1>5

\* A run that fits makes a mapping within bounds.
LEMMA FitsBounds ==
  ASSUME status \subseteq Usable, obSize \in ObSizes, NEW base \in Bases, NEW size \in Sizes,
         NEW start \in Runs(status, Regions(size, Width(obSize)))
  PROVE  InBounds([base |-> base, size |-> size, width |-> Width(obSize),
                   regions |-> Regions(size, Width(obSize)), start |-> start])
<1> DEFINE width == Width(obSize)  n == Regions(size, width)
<1>1. width \in 1 .. 8 /\ size \in Nat /\ NumWindows \in Nat \ {0}
  BY WidthType, OutbAssumption
<1>2. n \in Nat
  <2> HIDE DEF width
  <2> QED BY <1>1, RegionsType
<1> HIDE DEF n
<1>3. start \in 0 .. Msi /\ n > 0 /\ start .. start + n - 1 \subseteq Usable
  BY DEF Runs, n, width
<1>4. start + n - 1 \in Usable
  BY <1>1, <1>2, <1>3 DEF Msi
<1>5. n \in 1 .. NumWindows
  BY <1>1, <1>2, <1>3, <1>4 DEF Usable, Msi
<1> DEFINE m == [base |-> base, size |-> size, width |-> width, regions |-> n, start |-> start]
<1>6. m \in Mappings
  BY <1>3, <1>5 DEF Mappings
<1>7. WindowsOf(m) \subseteq Usable
  BY <1>3 DEF WindowsOf
<1> QED BY <1>6, <1>7 DEF InBounds, n, width

LEMMA WrittenType ==
  ASSUME NEW m \in Mappings, window \in [0 .. Msi -> {Off, MsiAddr} \cup (Nat \X (0 .. LoRange - 1))]
  PROVE  Written(m) \in [0 .. Msi -> {Off, MsiAddr} \cup (Nat \X (0 .. LoRange - 1))]
<1>1. ASSUME NEW i \in WindowsOf(m)
      PROVE  Advance(m.base, m.width, i - m.start) \in Nat \X (0 .. LoRange - 1)
  <2>1. i - m.start \in Nat
    BY MappingType DEF WindowsOf
  <2>2. m.base \in Nat /\ m.width \in 1 .. 8 /\ m.width <= LoRange
    BY MappingType
  <2>3. Advance(m.base, m.width, i - m.start) = PlaceOf(m.base, m.width, i - m.start)
    BY <2>1, <2>2, AdvanceIs
  <2>4. PlaceOf(m.base, m.width, i - m.start) \in Nat \X (0 .. LoRange - 1)
    BY <2>1, <2>2, PlaceType
  <2> QED BY <2>3, <2>4
<1> QED BY <1>1 DEF Written

LEMMA TypeInit == Init => TypeInv
<1> SUFFICES ASSUME Init PROVE TypeInv
  OBVIOUS
<1>1. DOMAIN maps = {} /\ \A t \in Threads : pend[t] = NoRequest
  BY DEF Init
<1> QED BY <1>1, OutbAssumption DEF Init, TypeInv, TypeOK, NoAnswer, Msi

LEMMA TypeNext == TypeInv /\ [Next]_vars => TypeInv'
<1> SUFFICES ASSUME TypeInv, [Next]_vars PROVE TypeInv'
  OBVIOUS
<1>0. /\ opens \in 0 .. MaxOpens /\ MaxOpens \in Nat /\ status \subseteq Usable
      /\ DOMAIN maps \subseteq Entries
      /\ window \in [0 .. Msi -> {Off, MsiAddr} \cup (Nat \X (0 .. LoRange - 1))]
      /\ obSize \in ObSizes /\ pend \in [Threads -> {NoRequest} \cup Mappings]
      /\ last.res \in {"none", "ok", "FAIL", "INOB", "NMEM"} /\ last.size \in Sizes \cup {0}
  BY OutbAssumption DEF TypeInv, TypeOK
<1> DEFINE Pends == /\ pend \in [Threads -> {NoRequest} \cup Mappings]
                    /\ \A t \in Threads : pend[t] # NoRequest => InBounds(pend[t])
           Maps == /\ DOMAIN maps \subseteq Entries
                   /\ \A e \in DOMAIN maps : InBounds(maps[e])
           Scalars == /\ opens \in 0 .. MaxOpens /\ status \subseteq Usable /\ obSize \in ObSizes
                      /\ last.res \in {"none", "ok", "FAIL", "INOB", "NMEM"}
                      /\ last.size \in Sizes \cup {0}
           Windows == window \in [0 .. Msi -> {Off, MsiAddr} \cup (Nat \X (0 .. LoRange - 1))]
<1>a. Pends /\ Maps /\ Scalars /\ Windows
  BY <1>0 DEF TypeInv
<1>b. SUFFICES Pends' /\ Maps' /\ Scalars' /\ Windows'
  BY DEF TypeInv, TypeOK, InBounds, Mappings, Entries, Msi, Usable, Off, MsiAddr, NoRequest
<1>c. UNCHANGED pend => Pends'
  BY <1>a DEF InBounds, Mappings, WindowsOf, Usable, Msi, NoRequest
<1>d. UNCHANGED maps => Maps'
  BY <1>a DEF InBounds, Mappings, WindowsOf, Usable, Msi, Entries
<1>e. maps' = [e \in {} |-> NoRequest] => Maps'
  OBVIOUS
<1>f. UNCHANGED window => Windows'
  BY <1>a DEF Off, MsiAddr, Msi
<1>1. CASE Open
  <2>1. Scalars'
    BY <1>0, <1>1 DEF Open, NoAnswer, Usable, Msi
  <2> QED BY <1>1, <1>c, <1>d, <1>f, <2>1 DEF Open
<1>2. CASE Close
  <2>1. Scalars'
    BY <1>0, <1>2 DEF Close, NoAnswer, Usable, Msi
  <2> QED BY <1>2, <1>c, <1>e, <1>f, <2>1 DEF Close
<1>3. CASE SendMsi
  <2>1. Scalars'
    BY <1>0, <1>3 DEF SendMsi, NoAnswer, Usable, Msi
  <2>2. Windows'
    BY <1>0, <1>3 DEF SendMsi, Off, MsiAddr, Msi
  <2> QED BY <1>3, <1>c, <1>d, <2>1, <2>2 DEF SendMsi
<1>4. ASSUME NEW ob \in ObSizes, SetSize(ob) PROVE Pends' /\ Maps' /\ Scalars' /\ Windows'
  <2>1. Scalars'
    BY <1>0, <1>4 DEF SetSize, NoAnswer, Usable, Msi
  <2> QED BY <1>4, <1>c, <1>d, <1>f, <2>1 DEF SetSize
<1>5. ASSUME NEW t \in Threads, NEW b \in Bases, NEW s \in Sizes, RequestRefused(t, b, s)
      PROVE  Pends' /\ Maps' /\ Scalars' /\ Windows'
  <2>1. Scalars'
    BY <1>0, <1>5 DEF RequestRefused, CheckReqStatus, Usable, Msi
  <2> QED BY <1>5, <1>c, <1>d, <1>f, <2>1 DEF RequestRefused
<1>6. ASSUME NEW t \in Threads, NEW b \in Bases, NEW s \in Sizes, RequestFits(t, b, s)
      PROVE  Pends' /\ Maps' /\ Scalars' /\ Windows'
  <2>1. Scalars'
    BY <1>0, <1>6 DEF RequestFits, NoAnswer, Usable, Msi
  <2>2. Pends'
    <3>1. PICK m : pend' = [pend EXCEPT ![t] = m] /\ InBounds(m)
      <4>1. PICK start \in Runs(status, Regions(s, Width(obSize))) :
              pend' = [pend EXCEPT ![t] =
                [base |-> b, size |-> s, width |-> Width(obSize),
                 regions |-> Regions(s, Width(obSize)), start |-> start]]
        BY <1>6 DEF RequestFits
      <4> QED BY <1>0, <4>1, FitsBounds
    <3>2. pend' \in [Threads -> {NoRequest} \cup Mappings]
      BY <1>0, <3>1 DEF InBounds
    <3>3. \A u \in Threads : pend'[u] = IF u = t THEN m ELSE pend[u]
      BY <1>0, <3>1
    <3>4. \A u \in Threads : pend'[u] # NoRequest => InBounds(pend'[u])
      <4> HIDE DEF Scalars, Windows, Maps
      <4> QED BY <1>a, <3>1, <3>3
    <3> QED BY <3>2, <3>4 DEF InBounds, Mappings, WindowsOf, Usable, Msi, NoRequest
  <2> QED BY <1>6, <1>d, <1>f, <2>1, <2>2 DEF RequestFits
<1>7. ASSUME NEW t \in Threads, NoMemory(t) PROVE Pends' /\ Maps' /\ Scalars' /\ Windows'
  <2>1. Scalars'
    BY <1>0, <1>7 DEF NoMemory, Usable, Msi
  <2>2. Pends'
    BY <1>a, <1>7 DEF NoMemory, InBounds, Mappings, WindowsOf, Usable, Msi, NoRequest
  <2> QED BY <1>7, <1>d, <1>f, <2>1, <2>2 DEF NoMemory
<1>8. ASSUME NEW t \in Threads, Map(t) PROVE Pends' /\ Maps' /\ Scalars' /\ Windows'
  <2>0. InBounds(pend[t]) /\ pend[t] \in Mappings
    BY <1>a, <1>8 DEF Map, InBounds
  <2>1. Scalars'
    BY <1>0, <1>8 DEF Map, Usable, Msi
  <2>2. Pends'
    BY <1>a, <1>8 DEF Map, InBounds, Mappings, WindowsOf, Usable, Msi, NoRequest
  <2>3. Maps'
    <3>1. PICK e \in Entries \ DOMAIN maps :
            maps' = [x \in DOMAIN maps \cup {e} |-> IF x = e THEN pend[t] ELSE maps[x]]
      BY <1>8 DEF Map, Add
    <3>2. /\ DOMAIN maps' \subseteq Entries
          /\ \A x \in DOMAIN maps' : InBounds(maps'[x])
      BY <1>a, <2>0, <3>1
    <3> QED BY <3>2 DEF InBounds, Mappings, WindowsOf, Usable, Msi, Entries
  <2>4. Windows'
    <3>1. window' \in [0 .. Msi -> {Off, MsiAddr} \cup (Nat \X (0 .. LoRange - 1))]
      BY <1>0, <1>8, <2>0, WrittenType DEF Map
    <3> QED BY <3>1 DEF Off, MsiAddr, Msi
  <2> QED BY <2>1, <2>2, <2>3, <2>4
<1>9. ASSUME NEW b \in Bases, Clear(b) PROVE Pends' /\ Maps' /\ Scalars' /\ Windows'
  <2> DEFINE gone == {e \in DOMAIN maps : maps[e].base = b}
             freed == UNION {WindowsOf(maps[e]) : e \in gone}
  <2>0. /\ maps' = [e \in DOMAIN maps \ gone |-> maps[e]] /\ status' = status \cup freed
        /\ window' = [i \in 0 .. Msi |-> IF i \in freed THEN Off ELSE window[i]]
        /\ last' = NoAnswer /\ UNCHANGED <<opens, obSize, pend>>
    BY <1>9 DEF Clear, Restrict
  <2>1. freed \subseteq Usable
    BY <1>a DEF InBounds
  <2> HIDE DEF freed
  <2>2. Scalars'
    BY <1>0, <2>0, <2>1 DEF NoAnswer, Usable, Msi
  <2>3. Maps'
    BY <1>a, <2>0 DEF InBounds, Mappings, WindowsOf, Usable, Msi, Entries
  <2>4. Windows'
    BY <1>0, <2>0 DEF Off, MsiAddr, Msi
  <2> QED BY <1>c, <2>0, <2>2, <2>3, <2>4
<1>10. CASE UNCHANGED vars
  <2>1. Scalars'
    BY <1>0, <1>10 DEF vars, Usable, Msi
  <2> QED BY <1>10, <1>c, <1>d, <1>f, <2>1 DEF vars
<1> HIDE DEF Pends, Maps, Scalars, Windows
<1> QED BY <1>1, <1>2, <1>3, <1>4, <1>5, <1>6, <1>7, <1>8, <1>9, <1>10 DEF Next

\* The state the driver keeps has its shape whoever uses it: a mapping has one
\* window at least and only windows of the applications, a window's address
\* has a low word, and the bits are those of the applications' windows.
THEOREM OutbTypes == Spec => []TypeOK
<1>1. TypeInv => TypeOK
  BY DEF TypeInv
<1> QED BY <1>1, TypeInit, TypeNext, PTL DEF Spec

-----------------------------------------------------------------------------
(* The windows of a mapping.                                               *)

\* Each holds the address the loop computed for it when the mapping was made.
Placed == \A e \in DOMAIN maps : \A i \in WindowsOf(maps[e]) :
            window[i] = Advance(maps[e].base, maps[e].width, i - maps[e].start)

LEMMA PlacedInit == Init => Placed
<1> SUFFICES ASSUME Init PROVE Placed
  OBVIOUS
<1>1. DOMAIN maps = {}
  BY DEF Init
<1> QED BY <1>1 DEF Placed

LEMMA PlacedStep == TypeInv /\ OutbInv /\ Placed /\ [Next]_vars => Placed'
<1> SUFFICES ASSUME TypeInv, OutbInv, Placed, [Next]_vars PROVE Placed'
  OBVIOUS
<1>0. /\ window \in [0 .. Msi -> {Off, MsiAddr} \cup (Nat \X (0 .. LoRange - 1))]
      /\ \A e \in DOMAIN maps : WindowsOf(maps[e]) \subseteq Usable /\ Usable \subseteq 0 .. Msi
  <2>1. Usable \subseteq 0 .. Msi
    BY OutbAssumption DEF Usable, Msi
  <2> QED BY <2>1 DEF TypeInv, TypeOK, InBounds
<1>1. SUFFICES \A x \in DOMAIN maps' : \A i \in WindowsOf(maps'[x]) :
                 window'[i] = Advance(maps'[x].base, maps'[x].width, i - maps'[x].start)
  BY DEF Placed, WindowsOf, Advance
<1>2. CASE UNCHANGED <<maps, window>>
  BY <1>2 DEF Placed
<1>3. CASE Close
  <2>1. DOMAIN maps' = {}
    BY <1>3 DEF Close
  <2> QED BY <2>1
<1>4. CASE SendMsi
  <2>1. maps' = maps /\ window' = [window EXCEPT ![Msi] = MsiAddr]
    BY <1>4 DEF SendMsi
  <2>2. \A e \in DOMAIN maps : \A i \in WindowsOf(maps[e]) : window'[i] = window[i]
    BY <1>0, <2>1, OutbAssumption DEF Usable, Msi
  <2> QED BY <2>1, <2>2 DEF Placed
<1>5. ASSUME NEW t \in Threads, Map(t)
      PROVE  \A x \in DOMAIN maps' : \A i \in WindowsOf(maps'[x]) :
               window'[i] = Advance(maps'[x].base, maps'[x].width, i - maps'[x].start)
  <2> DEFINE m == pend[t]
  <2>1. PICK e \in Entries \ DOMAIN maps :
          maps' = [x \in DOMAIN maps \cup {e} |-> IF x = e THEN m ELSE maps[x]]
    BY <1>5 DEF Map, Add
  <2>2. /\ WindowsOf(m) \subseteq Usable \ Used
        /\ window' = Written(m)
    BY <1>5 DEF Map, OutbInv, PendFree, StatusHonest
  <2>3. \A i \in WindowsOf(m) : window'[i] = Advance(m.base, m.width, i - m.start)
    <3>1. WindowsOf(m) \subseteq 0 .. Msi
      BY <2>2, OutbAssumption DEF Usable, Msi
    <3> QED BY <2>2, <3>1 DEF Written
  <2>4. \A x \in DOMAIN maps : \A i \in WindowsOf(maps[x]) : window'[i] = window[i]
    <3>1. \A x \in DOMAIN maps : \A i \in WindowsOf(maps[x]) : i \notin WindowsOf(m) /\ i \in 0 .. Msi
      BY <1>0, <2>2 DEF Used
    <3> QED BY <2>2, <3>1 DEF Written
  <2> HIDE DEF m
  <2>5. ASSUME NEW x \in DOMAIN maps', NEW i \in WindowsOf(maps'[x])
        PROVE  window'[i] = Advance(maps'[x].base, maps'[x].width, i - maps'[x].start)
    <3>1. CASE x = e
      BY <2>1, <2>3, <3>1
    <3>2. CASE x # e
      <4>1. x \in DOMAIN maps /\ maps'[x] = maps[x]
        BY <2>1, <3>2
      <4> QED BY <2>4, <4>1 DEF Placed
    <3> QED BY <3>1, <3>2
  <2> QED BY <2>5
<1>6. ASSUME NEW b \in Bases, Clear(b)
      PROVE  \A x \in DOMAIN maps' : \A i \in WindowsOf(maps'[x]) :
               window'[i] = Advance(maps'[x].base, maps'[x].width, i - maps'[x].start)
  <2> DEFINE gone == {e \in DOMAIN maps : maps[e].base = b}
             freed == UNION {WindowsOf(maps[e]) : e \in gone}
  <2>1. /\ maps' = [e \in DOMAIN maps \ gone |-> maps[e]]
        /\ window' = [i \in 0 .. Msi |-> IF i \in freed THEN Off ELSE window[i]]
    BY <1>6 DEF Clear, Restrict
  <2>2. ASSUME NEW e \in DOMAIN maps \ gone, NEW i \in WindowsOf(maps[e])
        PROVE  window'[i] = window[i]
    <3>1. i \notin freed
      BY DEF OutbInv, NoShare
    <3> HIDE DEF freed
    <3> QED BY <1>0, <2>1, <3>1
  <2>3. DOMAIN maps' = DOMAIN maps \ gone /\ \A e \in DOMAIN maps \ gone : maps'[e] = maps[e]
    BY <2>1
  <2> HIDE DEF gone, freed
  <2>4. ASSUME NEW x \in DOMAIN maps', NEW i \in WindowsOf(maps'[x])
        PROVE  window'[i] = Advance(maps'[x].base, maps'[x].width, i - maps'[x].start)
    BY <2>2, <2>3 DEF Placed
  <2> QED BY <2>4
<1>7. ASSUME NEW t \in Threads, NEW b \in Bases, NEW s \in Sizes, RequestRefused(t, b, s) \/ RequestFits(t, b, s)
      PROVE  UNCHANGED <<maps, window>>
  BY <1>7 DEF RequestRefused, RequestFits
<1>8. (Open \/ (\E ob \in ObSizes : SetSize(ob)) \/ (\E t \in Threads : NoMemory(t)) \/ UNCHANGED vars)
        => UNCHANGED <<maps, window>>
  BY DEF Open, SetSize, NoMemory, vars
<1> QED BY <1>2, <1>3, <1>4, <1>5, <1>6, <1>7, <1>8 DEF Next

\* The windows of a mapping translate to consecutive stretches of PCIe space from
\* the address asked for on, whatever the widths and wherever the low word ends,
\* and nothing that happens to other mappings changes it.
THEOREM OutbTranslates == ASSUME OneUser PROVE Spec => []Translates
<1>1. TypeInv /\ Placed => Translates
  <2> SUFFICES ASSUME TypeInv, Placed, NEW e \in DOMAIN maps, NEW k \in 0 .. maps[e].regions - 1
               PROVE  LET m == maps[e]
                          a == window[m.start + k]
                      IN  a \in Nat \X Nat /\ a[1] * LoRange + a[2] = m.base + k * m.width
    BY DEF Translates
  <2> DEFINE m == maps[e]
  <2>1. /\ m.base \in Nat /\ m.width \in 1 .. 8 /\ m.width <= LoRange
        /\ m.regions \in Nat \ {0} /\ m.start \in Nat /\ k \in Nat
    <3>1. m \in Mappings
      BY DEF TypeInv, InBounds
    <3> HIDE DEF m
    <3> QED BY <3>1, MappingType
  <2>2. m.start + k \in WindowsOf(m) /\ (m.start + k) - m.start = k
    BY <2>1 DEF WindowsOf
  <2>3. window[m.start + k] = Advance(m.base, m.width, (m.start + k) - m.start)
    BY <2>2 DEF Placed
  <2>4. window[m.start + k] = PlaceOf(m.base, m.width, k)
    BY <2>1, <2>2, <2>3, AdvanceIs
  <2>5. PlaceOf(m.base, m.width, k) \in Nat \X Nat
    <3>1. PlaceOf(m.base, m.width, k) \in Nat \X (0 .. LoRange - 1)
      BY <2>1, PlaceType
    <3> QED BY <3>1, OutbAssumption
  <2>6. PlaceOf(m.base, m.width, k)[1] * LoRange + PlaceOf(m.base, m.width, k)[2] = m.base + k * m.width
    BY <2>1, PlaceType
  <2> HIDE DEF m
  <2> QED BY <2>4, <2>5, <2>6 DEF m
<1> QED BY <1>1, TypeInit, TypeNext, OutbInvInit, OutbInvStep, PlacedInit, PlacedStep, PTL DEF Spec

-----------------------------------------------------------------------------
(* The windows in use.                                                     *)

\* ti81xx_set_out_region adds up the regions of the list: the windows in mappings.
LEMMA InUseIs ==
  ASSUME OneUser, TypeInv, NoShare
  PROVE  InUse = Cardinality(Used) /\ IsFiniteSet(Used) /\ Used \subseteq Usable
<1> DEFINE S == DOMAIN maps
           W == [e \in S |-> WindowsOf(maps[e])]
<1>1. IsFiniteSet(Threads)
  <2>1. CASE Threads = {}
    BY <2>1, FS_EmptySet
  <2>2. CASE Threads # {}
    <3>1. PICK t : Threads = {t}
      BY <2>2 DEF OneUser
    <3> QED BY <3>1, FS_Singleton
  <2> QED BY <2>1, <2>2
<1>2. IsFiniteSet(S)
  <2>1. Msi + Cardinality(Threads) \in Int
    BY <1>1, FS_CardinalityType, OutbAssumption DEF Msi
  <2>2. IsFiniteSet(Entries)
    BY <2>1, FS_Interval DEF Entries
  <2> QED BY <2>2, FS_Subset DEF TypeInv, TypeOK
<1>3. IsFiniteSet(Usable)
  BY FS_Interval, OutbAssumption DEF Usable, Msi
<1>4. W \in [S -> SUBSET Usable] /\ \A x \in S, y \in S : x # y => W[x] \cap W[y] = {}
  BY DEF NoShare
<1>5. [e \in S |-> Cardinality(W[e])] = [e \in S |-> maps[e].regions]
  <2> SUFFICES ASSUME NEW e \in S PROVE Cardinality(WindowsOf(maps[e])) = maps[e].regions
    OBVIOUS
  <2>1. maps[e].start \in Nat /\ maps[e].regions \in Nat \ {0}
    BY MappingType DEF TypeInv, InBounds
  <2>2. Cardinality(maps[e].start .. maps[e].start + maps[e].regions - 1) = maps[e].regions
    BY <2>1, FS_Interval
  <2> QED BY <2>2 DEF WindowsOf
<1>6. UNION {W[x] : x \in S} = Used
  BY DEF Used
<1>7. InUse = SumFunction([e \in S |-> maps[e].regions])
  BY DEF InUse, SumOver
<1>8. SumFunction([e \in S |-> Cardinality(W[e])]) = Cardinality(UNION {W[x] : x \in S})
  <2> HIDE DEF S, W
  <2> QED BY <1>2, <1>3, <1>4, SumOfSizes
<1>9. Used \subseteq Usable
  BY DEF Used, NoShare
<1>10. IsFiniteSet(Used)
  BY <1>3, <1>9, FS_Subset
<1> HIDE DEF S, W
<1> QED BY <1>5, <1>6, <1>7, <1>8, <1>9, <1>10

\* A run of windows that are in no mapping is no longer than their number.
LEMMA NoRoom ==
  ASSUME OneUser, TypeInv, NoShare, NEW n \in Nat, InUse + n > Msi
  PROVE  Runs(Usable \ Used, n) = {}
<1> SUFFICES ASSUME NEW i \in 0 .. Msi, n > 0, i .. i + n - 1 \subseteq Usable \ Used PROVE FALSE
  BY DEF Runs
<1>1. InUse = Cardinality(Used) /\ IsFiniteSet(Used) /\ Used \subseteq Usable
  BY InUseIs
<1>2. NumWindows \in Nat \ {0} /\ Msi \in Nat /\ Msi = NumWindows - 1
  BY OutbAssumption DEF Msi
<1>3. IsFiniteSet(Usable) /\ Cardinality(Usable) = Msi
  <2>1. IsFiniteSet(0 .. Msi - 1) /\ Cardinality(0 .. Msi - 1) = IF 0 > Msi - 1 THEN 0 ELSE Msi - 1 - 0 + 1
    BY <1>2, FS_Interval
  <2> QED BY <1>2, <2>1 DEF Usable
<1>4. IsFiniteSet(Usable \ Used) /\ Cardinality(Usable \ Used) = Msi - Cardinality(Used)
  <2>1. Usable \cap Used = Used
    BY <1>1
  <2> QED BY <1>3, <2>1, FS_Difference
<1>5. Cardinality(i .. i + n - 1) = n
  <2>1. Cardinality(i .. i + n - 1) = IF i > i + n - 1 THEN 0 ELSE (i + n - 1) - i + 1
    BY <1>2, FS_Interval
  <2> QED BY <1>2, <2>1
<1>6. Cardinality(i .. i + n - 1) <= Cardinality(Usable \ Used)
  BY <1>4, FS_Subset
<1>7. Cardinality(Used) \in Nat
  BY <1>1, FS_CardinalityType
<1> QED BY <1>1, <1>2, <1>4, <1>5, <1>6, <1>7

LEMMA RefusedStep ==
  ASSUME OneUser
  PROVE  TypeInv /\ OutbInv /\ RefusedWhenFull /\ [Next]_vars => RefusedWhenFull'
<1> SUFFICES ASSUME TypeInv, OutbInv, RefusedWhenFull, [Next]_vars PROVE RefusedWhenFull'
  OBVIOUS
<1> DEFINE Full == Runs(Usable \ Used, Regions(last.size, Width(obSize))) = {}
<1>1. (last'.res \notin {"INOB", "NMEM"}) => RefusedWhenFull'
  BY DEF RefusedWhenFull
<1>2. ASSUME NEW t \in Threads, NEW b \in Bases, NEW s \in Sizes, RequestRefused(t, b, s)
      PROVE  RefusedWhenFull'
  <2> DEFINE n == Regions(s, Width(obSize))
  <2>1. /\ last' = [res |-> CheckReqStatus(s), size |-> s]
        /\ opens > 0 /\ UNCHANGED <<maps, obSize>>
        /\ status = {} \/ InUse + n > Msi \/ Runs(status, n) = {}
    BY <1>2 DEF RequestRefused
  <2>2. n \in Nat
    <3>1. s \in Nat /\ Width(obSize) \in 1 .. 8
      BY WidthType, OutbAssumption DEF TypeInv, TypeOK
    <3> QED BY <3>1, RegionsType
  <2>3. status = Usable \ Used /\ NoShare
    BY <2>1 DEF OutbInv, StatusHonest
  <2> HIDE DEF n
  <2>4. status = {} => Runs(status, n) = {}
    <3> SUFFICES ASSUME status = {}, NEW i \in 0 .. Msi, n > 0, i .. i + n - 1 \subseteq {} PROVE FALSE
      BY DEF Runs
    <3>1. i \in i .. i + n - 1
      BY <2>2, OutbAssumption DEF Msi
    <3> QED BY <3>1
  <2>5. Runs(Usable \ Used, n) = {}
    BY <2>1, <2>2, <2>3, <2>4, NoRoom
  <2>6. Full'
    BY <2>1, <2>5 DEF n, Runs, Used, WindowsOf, Regions, Width
  <2> QED BY <2>6 DEF RefusedWhenFull
<1>3. CASE UNCHANGED vars
  BY <1>3 DEF vars, RefusedWhenFull, Runs, Used, WindowsOf, Regions, Width
<1>4. ASSUME NEW t \in Threads, NEW b \in Bases, NEW s \in Sizes, RequestFits(t, b, s)
      PROVE  last'.res \notin {"INOB", "NMEM"}
  BY <1>4 DEF RequestFits, NoAnswer
<1>5. Open \/ Close \/ SendMsi => last'.res \notin {"INOB", "NMEM"}
  BY DEF Open, Close, SendMsi, NoAnswer
<1>6. \A ob \in ObSizes : SetSize(ob) => last'.res \notin {"INOB", "NMEM"}
  BY DEF SetSize, NoAnswer
<1>7. \A t \in Threads : NoMemory(t) \/ Map(t) => last'.res \notin {"INOB", "NMEM"}
  <2>1. \A t \in Threads : NoMemory(t) \/ Map(t) => last'.res \in {"FAIL", "ok"}
    BY DEF NoMemory, Map
  <2> QED BY <2>1
<1>8. \A b \in Bases : Clear(b) => last'.res \notin {"INOB", "NMEM"}
  <2>1. \A b \in Bases : Clear(b) => last' = NoAnswer
    BY DEF Clear
  <2> QED BY <2>1 DEF NoAnswer
<1> HIDE DEF Full
<1> QED BY <1>1, <1>2, <1>3, <1>4, <1>5, <1>6, <1>7, <1>8 DEF Next

\* A mapping is refused only when there is no run of windows that would hold it:
\* neither the sum over the list nor the bits ever claim more than is in use.
THEOREM OutbRefusals == ASSUME OneUser PROVE Spec => []RefusedWhenFull
<1>1. Init => RefusedWhenFull
  BY DEF Init, RefusedWhenFull, NoAnswer
<1> QED BY <1>1, TypeInit, TypeNext, OutbInvInit, OutbInvStep, RefusedStep, PTL DEF Spec
=============================================================================
