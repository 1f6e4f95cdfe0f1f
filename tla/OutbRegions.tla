---------------------------- MODULE OutbRegions ----------------------------
(***************************************************************************)
(* The outbound windows of an endpoint.  An endpoint reaches PCIe          *)
(* addresses through 32 windows of local memory, all of the same width (1, *)
(* 2, 4 or 8 MB: the register OB_SIZE), each with the PCIe address it      *)
(* translates to.  The driver gives an application as many adjacent        *)
(* windows as its mapping needs, keeps the mappings in a list and a bit    *)
(* for every free window in status_out, and keeps the last window for      *)
(* itself, to write MSIs through.  Nothing is locked: the one place where  *)
(* an ioctl gives way to another is the kmalloc of a list entry.           *)
(*                                                                         *)
(* Sizes and addresses are counted in MB.                                  *)
(***************************************************************************)
EXTENDS Naturals, FiniteSets, FiniteSetsExt, Functions

CONSTANTS Threads,     \* threads that issue ioctls
          MaxOpens,    \* bound: files open at the same time
          NumWindows,  \* 32
          Bases,       \* PCIe addresses asked for
          Sizes,       \* sizes asked for
          ObSizes,     \* values written to OB_SIZE
          LoRange      \* the low word of an address is below it (2^32 bytes)

ASSUME OutbAssumption ==
  /\ NumWindows \in Nat \ {0}
  /\ MaxOpens \in Nat
  /\ LoRange \in Nat \ {0}
  /\ Bases \subseteq Nat
  /\ Sizes \subseteq Nat
  /\ ObSizes \subseteq 0 .. 3
  /\ 8 <= LoRange

VARIABLES
  opens,    \* files open on the device
  status,   \* status_out: the free windows
  maps,     \* outb_req: the mappings, by the address of their list entry
  window,   \* the registers OB_OFFSET_HI, OB_OFFSET_INDEX of each window
  obSize,   \* the register OB_SIZE
  pend,     \* a thread's request while kmalloc may sleep
  last      \* the answer to the last request, until something changes

vars == <<opens, status, maps, window, obSize, pend, last>>

Msi == NumWindows - 1
Usable == 0 .. Msi - 1
Entries == 0 .. Msi + Cardinality(Threads)   \* what kmalloc may return
Off == <<>>             \* the enable bit is clear
MsiAddr == <<0>>        \* not an application's address
NoRequest == [size |-> 0]
NoAnswer == [res |-> "none", size |-> 0]

Init ==
  /\ opens = 0
  /\ status = Usable
  /\ maps = [e \in {} |-> NoRequest]
  /\ window = [i \in 0 .. Msi |-> Off]
  /\ obSize \in ObSizes
  /\ pend = [t \in Threads |-> NoRequest]
  /\ last = NoAnswer

-----------------------------------------------------------------------------
Width(ob) == <<1, 2, 4, 8>>[ob + 1]

\* How many windows of a width a size takes.
Regions(size, width) == (size + width - 1) \div width

WindowsOf(m) == m.start .. m.start + m.regions - 1

\* ti81xx_check_regions: where a run of free windows begins.  The loops count
\* from 1, so that no run answers a request for nothing.
Runs(free, n) == {i \in 0 .. Msi : n > 0 /\ i .. i + n - 1 \subseteq free}

SumOver(f(_)) == SumFunction([e \in DOMAIN maps |-> f(maps[e])])
InUse == SumOver(LAMBDA m : m.regions)

\* ti81xx_check_req_status: would it fit if all were mapped in windows of 8 MB?
CheckReqStatus(size) ==
  IF obSize < 3 /\ Regions(size, 8) + SumOver(LAMBDA m : Regions(m.size, 8)) <= Msi
  THEN "INOB" ELSE "NMEM"

\* The PCIe address of the k-th window of a mapping, as the loop computes it:
\* hi_idx_add and start_idx advance by one width, with a carry.
Advance(base, width, k) ==
  LET addr[i \in 0 .. k] ==
        IF i = 0 THEN <<base \div LoRange, base % LoRange>>
        ELSE LET hi == addr[i - 1][1]
                 lo == addr[i - 1][2]
             IN  <<hi + (IF lo + width >= LoRange THEN 1 ELSE 0), (lo + width) % LoRange>>
  IN addr[k]

-----------------------------------------------------------------------------
\* Mutant: the MSI's window is free, too.
OpenAll ==
  /\ opens < MaxOpens
  /\ opens' = opens + 1
  /\ status' = 0 .. Msi
  /\ last' = NoAnswer
  /\ UNCHANGED <<maps, window, obSize, pend>>

Open ==
  /\ opens < MaxOpens
  /\ opens' = opens + 1
  /\ status' = Usable
  /\ last' = NoAnswer
  /\ UNCHANGED <<maps, window, obSize, pend>>

\* The list is freed; the windows stay as they are, and so does status_out.
Close ==
  /\ opens > 0
  /\ \A t \in Threads : pend[t] = NoRequest
  /\ opens' = opens - 1
  /\ maps' = [e \in {} |-> NoRequest]
  /\ last' = NoAnswer
  /\ UNCHANGED <<status, window, obSize, pend>>

\* TI81XX_SET_OUTBOUND_SIZE.
SetSize(ob) ==
  /\ opens > 0
  /\ obSize' = ob
  /\ last' = NoAnswer
  /\ UNCHANGED <<opens, status, maps, window, pend>>

\* ti81xx_set_out_region up to the kmalloc.
RequestRefused(t, base, size) ==
  /\ opens > 0
  /\ pend[t] = NoRequest
  /\ LET n == Regions(size, Width(obSize)) IN
       status = {} \/ InUse + n > Msi \/ Runs(status, n) = {}
  /\ last' = [res |-> CheckReqStatus(size), size |-> size]
  /\ UNCHANGED <<opens, status, maps, window, obSize, pend>>

RequestFits(t, base, size) ==
  /\ opens > 0
  /\ pend[t] = NoRequest
  /\ LET width == Width(obSize)
         n == Regions(size, width) IN
       /\ status # {} /\ InUse + n <= Msi
       /\ \E start \in Runs(status, n) :
            /\ \A i \in Runs(status, n) : start <= i
            /\ pend' = [pend EXCEPT ![t] =
                 [base |-> base, size |-> size, width |-> width, regions |-> n, start |-> start]]
  /\ last' = NoAnswer
  /\ UNCHANGED <<opens, status, maps, window, obSize>>

NoMemory(t) ==
  /\ pend[t] # NoRequest
  /\ pend' = [pend EXCEPT ![t] = NoRequest]
  /\ last' = [res |-> "FAIL", size |-> 0]
  /\ UNCHANGED <<opens, status, maps, window, obSize>>

\* Mutant: the high word takes no carry.
WrittenNoCarry(m) == [i \in 0 .. Msi |->
  IF i \in WindowsOf(m)
  THEN <<m.base \div LoRange, Advance(m.base, m.width, i - m.start)[2]>> ELSE window[i]]

Written(m) == [i \in 0 .. Msi |->
                 IF i \in WindowsOf(m) THEN Advance(m.base, m.width, i - m.start) ELSE window[i]]

\* list_add_tail, with some free entry.
Add(m) == \E e \in Entries \ DOMAIN maps :
  /\ \A x \in Entries \ DOMAIN maps : e <= x
  /\ maps' = [x \in DOMAIN maps \cup {e} |-> IF x = e THEN m ELSE maps[x]]

\* Mutant: the bit of the last window is not cleared.
MapAllButOne(t) ==
  /\ pend[t] # NoRequest
  /\ Add(pend[t])
  /\ window' = Written(pend[t])
  /\ status' = status \ (pend[t].start .. pend[t].start + pend[t].regions - 2)
  /\ pend' = [pend EXCEPT ![t] = NoRequest]
  /\ last' = [res |-> "ok", size |-> 0]
  /\ UNCHANGED <<opens, obSize>>

\* ti81xx_set_out_region from the kmalloc on.
Map(t) ==
  /\ pend[t] # NoRequest
  /\ Add(pend[t])
  /\ window' = Written(pend[t])
  /\ status' = status \ WindowsOf(pend[t])
  /\ pend' = [pend EXCEPT ![t] = NoRequest]
  /\ last' = [res |-> "ok", size |-> 0]
  /\ UNCHANGED <<opens, obSize>>

\* Mutant: only the window the mapping starts at is given back.
ClearFirst(base) ==
  /\ opens > 0
  /\ LET gone == {e \in DOMAIN maps : maps[e].base = base}
         freed == {maps[e].start : e \in gone} IN
       /\ maps' = Restrict(maps, DOMAIN maps \ gone)
       /\ status' = status \cup freed
       /\ window' = [i \in 0 .. Msi |-> IF i \in freed THEN Off ELSE window[i]]
  /\ last' = NoAnswer
  /\ UNCHANGED <<opens, obSize, pend>>

\* ti81xx_clr_outb_map: every mapping of this address, whoever made it.
Clear(base) ==
  /\ opens > 0
  /\ LET gone == {e \in DOMAIN maps : maps[e].base = base}
         freed == UNION {WindowsOf(maps[e]) : e \in gone} IN
       /\ maps' = Restrict(maps, DOMAIN maps \ gone)
       /\ status' = status \cup freed
       /\ window' = [i \in 0 .. Msi |-> IF i \in freed THEN Off ELSE window[i]]
  /\ last' = NoAnswer
  /\ UNCHANGED <<opens, obSize, pend>>

\* ti81xx_send_msi: the last window is pointed at the RC's MSI address.
SendMsi ==
  /\ window' = [window EXCEPT ![Msi] = MsiAddr]
  /\ last' = NoAnswer
  /\ UNCHANGED <<opens, status, maps, obSize, pend>>

Next ==
  \/ Open \/ Close \/ SendMsi
  \/ \E ob \in ObSizes : SetSize(ob)
  \/ \E t \in Threads, b \in Bases, s \in Sizes : RequestRefused(t, b, s) \/ RequestFits(t, b, s)
  \/ \E t \in Threads : NoMemory(t) \/ Map(t)
  \/ \E b \in Bases : Clear(b)

Spec == Init /\ [][Next]_vars

-----------------------------------------------------------------------------
(* Properties.                                                             *)

Mappings == [base : Bases, size : Sizes, width : {Width(ob) : ob \in ObSizes},
             regions : 1 .. NumWindows, start : 0 .. Msi]

TypeOK ==
  /\ opens \in 0 .. MaxOpens
  /\ status \subseteq Usable
  /\ DOMAIN maps \subseteq Entries /\ \A e \in DOMAIN maps : maps[e] \in Mappings
  /\ window \in [0 .. Msi -> {Off, MsiAddr} \cup (Nat \X (0 .. LoRange - 1))]
  /\ obSize \in ObSizes
  /\ pend \in [Threads -> {NoRequest} \cup Mappings]
  /\ last.res \in {"none", "ok", "FAIL", "INOB", "NMEM"} /\ last.size \in Sizes \cup {0}

\* No window belongs to two mappings, and the one of the MSIs to none.
NoShare ==
  /\ \A i, j \in DOMAIN maps : i # j => WindowsOf(maps[i]) \cap WindowsOf(maps[j]) = {}
  /\ \A i \in DOMAIN maps : WindowsOf(maps[i]) \subseteq Usable

Used == UNION {WindowsOf(maps[e]) : e \in DOMAIN maps}

\* A bit of status_out is set exactly when its window is in no mapping.
StatusHonest == opens > 0 => status = Usable \ Used

\* The windows of a mapping translate to consecutive stretches of PCIe space
\* from the address asked for on, across the end of the low word as well.
Translates ==
  \A i \in DOMAIN maps : LET m == maps[i] IN
    \A k \in 0 .. m.regions - 1 :
      /\ window[m.start + k] \in Nat \X Nat
      /\ LET a == window[m.start + k] IN
           a[1] * LoRange + a[2] = m.base + k * m.width

\* A request is refused only when the windows in use leave no room for it.
RefusedWhenFull ==
  last.res \in {"INOB", "NMEM"} /\ last.size > 0 =>
    Runs(Usable \ Used, Regions(last.size, Width(obSize))) = {}
=============================================================================
