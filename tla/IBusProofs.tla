----------------------------- MODULE IBusProofs -----------------------------
(***************************************************************************)
(* Proofs about the PCIe scan and the lists of IBus, for every number of   *)
(* buses, slots and functions, every machine and every MCFG table whose    *)
(* windows do not overlap.                                                 *)
(*                                                                         *)
(* The hard fact is about addresses: the ECAM address of a function, which *)
(* the code puts together from the first region that covers the bus, is    *)
(* decoded to that function again (Decoded), so that reading through ECAM  *)
(* and reading through the ports agree (ReadExact).  With it the scan is   *)
(* a walk over the functions of segment 0, and the invariant says which of *)
(* them it has enabled when it stands at some location.                    *)
(***************************************************************************)
EXTENDS IBus, FiniteSetTheorems, TLAPS

-----------------------------------------------------------------------------
(* The inductive invariant *)

First(l) == [l EXCEPT !.func = 0]

\* What the scan is to find, said of the hardware alone.
Reached(l) == Present(l) /\ Present(First(l)) /\ (l.func = 0 \/ hw[Key(0, First(l))][12])
HasNvmeClass(l) == hw[Key(0, l)][8][1] = 1 /\ hw[Key(0, l)][8][2] = 8
Targets == {l \in Locations : Reached(l) /\ HasNvmeClass(l)}

\* The order of the loops.
Before(l, m) ==
    \/ l.bus < m.bus
    \/ l.bus = m.bus /\ l.slot < m.slot
    \/ l.bus = m.bus /\ l.slot = m.slot /\ l.func < m.func

Keys(S) == {Key(0, l) : l \in S}

Fixed == \E machine \in Hardware : hw = machine.hw /\ rsdt = machine.rsdt

\* Every region of the map is a window of the hardware.
Mapped == ecam \in Seq(Windows) /\ Len(ecam) <= MaxECAMRegions

Control ==
    /\ pc \in {"initialize", "scan", "kmain", "gaossd", "storage", "first", "running"}
    /\ at \in [bus : 0 .. Buses, slot : 0 .. Slots - 1, func : 0 .. Funcs - 1]
    /\ active \in BOOLEAN

\* Past function 0 of a slot only where that is there and not alone.
AtReached ==
    at.func > 0 => at.bus < Buses /\ Present(First(at)) /\ hw[Key(0, First(at))][12]

\* Bus mastering is enabled on the targets behind the loop counters.
Enabled ==
    /\ pc = "initialize" => at = [bus |-> 0, slot |-> 0, func |-> 0]
    /\ ~Scanned => AtReached /\ master = Keys({l \in Targets : Before(l, at)})
    /\ Scanned => master = Keys(Targets)
    /\ active <=> master # {}

Listed ==
    /\ pc \in {"initialize", "scan", "kmain"} => discovered = <<>>
    /\ pc \in {"gaossd", "storage", "first", "running"} => discovered = scan_all_buses
    /\ pc \in {"storage", "first", "running"} /\ active =>
         \E l \in Targets : bar0[2] = hw[Key(0, l)][16].address
    /\ pc \in {"first", "running"} => storage = get_storage_devices

IInv == Fixed /\ Mapped /\ Control /\ Enabled /\ Listed

-----------------------------------------------------------------------------
(* Arithmetic of addresses *)

LEMMA MinExists ==
    ASSUME NEW T \in SUBSET Nat, T # {}
    PROVE  \E x \in T : \A y \in T : x <= y
<1>1. PICK x \in T : \A y \in T : ~(<<y, x>> \in OpToRel(<, Nat))
  BY NatLessThanWellFounded, WFMin
<1>2. ASSUME NEW y \in T PROVE x <= y
  <2>1. x \in Nat /\ y \in Nat
    OBVIOUS
  <2>2. y < x => <<y, x>> \in OpToRel(<, Nat)
    BY <2>1 DEF OpToRel
  <2>3. ~(y < x)
    BY <1>1, <2>2, Zenon
  <2> QED
    BY <2>1, <2>3
<1> QED
  BY <1>2, Zenon

LEMMA Powers == 2^12 = 4096 /\ 2^15 = 32768 /\ 2^16 = 65536 /\ 2^20 = 1048576
BY SMT

\* The fields of an offset into a window.
Offsets == 0 .. 4095
OffsetOf(b, s, f, o) == b * 2^20 + s * 2^15 + f * 2^12 + o

Splits(r, b, s, f) == r \div 2^20 = b /\ (r \div 2^15) % 32 = s /\ (r \div 2^12) % 8 = f
InPage(base, r, n, o) ==
    LET a == base + r
    IN  a \in Nat /\ a - base = r /\ base <= a /\ a < base + n * 2^20 /\ a % 2^12 = o

LEMMA Fields ==
    ASSUME NEW b \in Nat, NEW s \in 0 .. 31, NEW f \in 0 .. 7, NEW o \in Offsets
    PROVE  Splits(OffsetOf(b, s, f, o), b, s, f)
<1> DEFINE r == OffsetOf(b, s, f, o)
<1>1. r = b * 1048576 + s * 32768 + f * 4096 + o /\ r \in Nat /\ o \in 0 .. 4095
  BY Powers, SMT DEF Offsets, OffsetOf
<1> HIDE DEF r
<1>2. r \div 1048576 = b
  BY <1>1, SMT
<1>3. r \div 32768 = b * 32 + s
  BY <1>1, SMT
<1>4. r \div 4096 = b * 256 + s * 8 + f
  BY <1>1, SMT
<1>5. (b * 32 + s) % 32 = s
  BY SMT
<1>6. (b * 256 + s * 8 + f) % 8 = f
  BY SMT
<1> QED
  BY <1>2, <1>3, <1>4, <1>5, <1>6, Powers, SMT DEF r, Splits

\* The address of an offset lies in the window, in a page that starts at a multiple
\* of its size.
LEMMA AddressBounds ==
    ASSUME NEW base \in Nat, base % 2^12 = 0, NEW b \in Nat, NEW n \in Nat, b < n,
           NEW s \in 0 .. 31, NEW f \in 0 .. 7, NEW o \in Offsets
    PROVE  InPage(base, OffsetOf(b, s, f, o), n, o)
<1> DEFINE r == OffsetOf(b, s, f, o)
<1>1. r = b * 1048576 + s * 32768 + f * 4096 + o /\ o \in 0 .. 4095 /\ base % 4096 = 0
  BY Powers, SMT DEF Offsets, OffsetOf
<1> HIDE DEF r
<1>2. r \in Nat /\ r < n * 1048576
  BY <1>1, SMT
<1>3. (base + r) % 4096 = o
  BY <1>1, SMT
<1>4. base + r \in Nat /\ (base + r) - base = r /\ base <= base + r
  BY <1>2
<1>5. base + r < base + n * 1048576
  BY <1>2, SMT
<1> QED
  BY <1>3, <1>4, <1>5, Powers, SMT DEF r, InPage

LEMMA Differences ==
    ASSUME NEW s \in 0 .. 255, NEW e \in 0 .. 255, NEW b \in Nat, s <= b, b <= e
    PROVE  b - s \in Nat /\ s + (b - s) = b /\ e - s + 1 \in Nat /\ b - s < e - s + 1
OBVIOUS

LEMMA Associated ==
    ASSUME NEW a \in Nat, NEW b \in Nat, NEW c \in Nat, NEW d \in Nat, NEW e \in Nat
    PROVE  a + b + c + d + e = a + (b + c + d + e)
OBVIOUS

LEMMA Overlap ==
    ASSUME NEW a \in Nat, NEW vb \in Nat, NEW vs \in Nat, NEW wb \in Nat, NEW ws \in Nat,
           vb <= a, a < vb + vs, wb <= a, a < wb + ws
    PROVE  ~(vb + vs <= wb) /\ ~(wb + ws <= vb)
OBVIOUS

-----------------------------------------------------------------------------
(* The hardware *)

Table == [sig : STRING, entries : Seq(Regions)]

LEMMA TablesTyped ==
    ASSUME Fixed
    PROVE  /\ rsdt \in Seq({Absent} \cup Table)
           /\ \A l \in Locations : Key(0, l) \in DOMAIN hw
           /\ \A k \in DOMAIN hw : hw[k] # Absent => hw[k][0] # Absent /\ hw[k][12] \in BOOLEAN
           /\ \A v, w \in Windows : v # w => Disjoint(v, w)
<1>1. PICK machine \in Hardware : hw = machine.hw /\ rsdt = machine.rsdt
  BY DEF Fixed
<1>2. /\ rsdt \in Seq({Absent} \cup [sig : STRING, entries : Seq(Regions)])
      /\ \A l \in Locations : Key(0, l) \in DOMAIN hw
      /\ \A k \in DOMAIN hw : hw[k] # Absent => hw[k][0] # Absent /\ hw[k][12] \in BOOLEAN
      /\ \A v, w \in WindowsOf(rsdt) : v # w => Disjoint(v, w)
  BY <1>1, HardwareAssumption
<1> QED
  BY <1>2 DEF Table, Windows

LEMMA EntryTyped ==
    ASSUME NEW t \in Table, NEW i \in DOMAIN t.entries
    PROVE  t.entries[i] \in Regions
<1>1. t.entries \in Seq(Regions)
  BY DEF Table
<1> QED
  BY <1>1

LEMMA WindowsTyped ==
    ASSUME Fixed
    PROVE  Windows \subseteq Regions
<1>1. ASSUME NEW w \in Windows PROVE w \in Regions
  <2>1. PICK t \in {rsdt[i] : i \in DOMAIN rsdt} \ {Absent} : \E i \in DOMAIN t.entries : w = t.entries[i]
    BY <1>1 DEF Windows, WindowsOf
  <2>2. t \in Table
    BY <2>1, TablesTyped
  <2> QED
    BY <2>1, <2>2, EntryTyped
<1> QED
  BY <1>1

\* What a region is made of, in decimal.
LEMMA RegionFacts ==
    ASSUME NEW w \in Regions
    PROVE  /\ w.segment \in Nat /\ w.base \in Nat /\ w.start \in 0 .. 255 /\ w.end \in 0 .. 255
           /\ w.start <= w.end /\ w.base % 4096 = 0
BY Powers, SMT DEF Regions

LEMMA WindowSize ==
    ASSUME NEW w \in Regions
    PROVE  /\ w.end - w.start + 1 \in Nat
           /\ (w.end - w.start + 1) * 2^20 \in Nat
           /\ (w.end - w.start + 1) * 2^20 = (w.end - w.start + 1) * 1048576
<1> DEFINE n == w.end - w.start + 1
<1>0. w.start \in 0 .. 255 /\ w.end \in 0 .. 255 /\ w.end \in Nat /\ w.start <= w.end
  BY RegionFacts
<1>1. n \in Nat
  <2>1. w.end <= w.end
    BY <1>0
  <2> QED
    BY <1>0, <2>1, Differences, Zenon
<1> HIDE DEF n
<1>2. n * 2^20 \in Nat /\ n * 2^20 = n * 1048576
  BY <1>1, Powers, SMT
<1> QED
  BY <1>1, <1>2, SMT DEF n

\* An address belongs to one window at most.
LEMMA WindowUnique ==
    ASSUME Fixed, NEW v \in Windows, NEW w \in Windows, NEW a \in Nat,
           InWindow(v, a), InWindow(w, a)
    PROVE  v = w
<1>1. v \in Regions /\ w \in Regions
  BY WindowsTyped
<1> DEFINE size(x) == (x.end - x.start + 1) * 2^20
<1>2. v.base \in Nat /\ w.base \in Nat /\ size(v) \in Nat /\ size(w) \in Nat
  BY <1>1, WindowSize, RegionFacts
<1>3. v.base <= a /\ a < v.base + size(v) /\ w.base <= a /\ a < w.base + size(w)
  BY DEF InWindow
<1>4. ~(v.base + size(v) <= w.base \/ w.base + size(w) <= v.base)
  <2> HIDE DEF size
  <2> QED
    BY <1>2, <1>3, Overlap
<1>5. ~Disjoint(v, w)
  BY <1>4, Zenon DEF Disjoint
<1> QED
  BY <1>5, TablesTyped

LEMMA DecodeIn ==
    ASSUME Fixed, NEW w \in Windows, NEW a \in Nat, InWindow(w, a)
    PROVE  Decode(a) = <<w.segment, w.start + (a - w.base) \div 2^20,
                         ((a - w.base) \div 2^15) % 32, ((a - w.base) \div 2^12) % 8>>
<1> DEFINE c == CHOOSE x \in Windows : InWindow(x, a)
<1>1. c \in Windows /\ InWindow(c, a)
  OBVIOUS
<1>2. c = w
  <2> HIDE DEF c
  <2> QED
    BY <1>1, WindowUnique
<1> QED
  BY <1>2 DEF Decode

\* The address of a register in a window that covers the bus: the hardware takes
\* it apart into what the code put together.
LEMMA AddressDecoded ==
    ASSUME Fixed, NEW w \in Windows, NEW l \in Locations, NEW o \in Offsets,
           Covers(w, 0, l.bus)
    PROVE  /\ AddressIn(w, l, o) \in Nat
           /\ Decode(AddressIn(w, l, o)) = Key(0, l)
           /\ AddressIn(w, l, o) % 2^12 = o
<1>1. w \in Regions
  BY WindowsTyped
<1>2. /\ w.base \in Nat /\ w.start \in 0 .. 255 /\ w.end \in 0 .. 255
      /\ w.base % 2^12 = 0
  BY <1>1, RegionFacts, SMT DEF Regions
<1>3. w.segment = 0 /\ w.start <= l.bus /\ l.bus <= w.end
  BY DEF Covers
<1>4. l.bus \in Nat /\ l.slot \in 0 .. 31 /\ l.func \in 0 .. 7
  BY PcieAssumption DEF Locations
<1> DEFINE b == l.bus - w.start
           n == w.end - w.start + 1
           r == OffsetOf(b, l.slot, l.func, o)
           a == w.base + r
<1>5. b \in Nat /\ w.start + b = l.bus /\ n \in Nat /\ b < n
  BY <1>2, <1>3, <1>4, Differences, Zenon
<1>6. AddressIn(w, l, o) = a
  <2>1. b * 2^20 \in Nat /\ l.slot * 2^15 \in Nat /\ l.func * 2^12 \in Nat /\ o \in Nat
    <3> HIDE DEF b
    <3> QED
      BY <1>4, <1>5, Powers, SMT DEF Offsets
  <2>2. AddressIn(w, l, o) = w.base + b * 2^20 + l.slot * 2^15 + l.func * 2^12 + o
    BY Zenon DEF AddressIn
  <2> HIDE DEF b
  <2> QED
    BY <1>2, <2>1, <2>2, Associated, SMT DEF OffsetOf
<1>7. InWindow(w, a) <=> w.base <= a /\ a < w.base + n * 2^20
  BY Zenon DEF InWindow
<1>8. InWindow(w, a) /\ a \in Nat => 
        Decode(a) = <<w.segment, w.start + (a - w.base) \div 2^20,
                      ((a - w.base) \div 2^15) % 32, ((a - w.base) \div 2^12) % 8>>
  <2> HIDE DEF a
  <2> QED
    BY DecodeIn, Zenon
<1> HIDE DEF b, n
<1>9. /\ a \in Nat /\ a - w.base = r /\ w.base <= a
      /\ a < w.base + n * 2^20 /\ a % 2^12 = o
  <2>1. InPage(w.base, r, n, o)
    BY <1>2, <1>4, <1>5, AddressBounds, Zenon
  <2> HIDE DEF r
  <2> QED
    BY <2>1, Zenon DEF InPage
<1>10. r \div 2^20 = b /\ (r \div 2^15) % 32 = l.slot /\ (r \div 2^12) % 8 = l.func
  <2>1. Splits(r, b, l.slot, l.func)
    BY <1>4, <1>5, Fields, Zenon
  <2> HIDE DEF r
  <2> QED
    BY <2>1, Zenon DEF Splits
<1> HIDE DEF a, r
<1>11. InWindow(w, a)
  BY <1>7, <1>9, Zenon
<1>12. Decode(a) = <<0, l.bus, l.slot, l.func>>
  BY <1>3, <1>5, <1>8, <1>9, <1>10, <1>11, Zenon
<1> QED
  BY <1>6, <1>9, <1>12, Zenon DEF Key

-----------------------------------------------------------------------------
(* Reading and writing through ECAM or through the ports *)

LEMMA FirstOfIn ==
    ASSUME NEW S \in SUBSET Nat, S # {}
    PROVE  FirstOf(S) \in S
<1>1. \E i \in S : \A j \in S : i <= j
  BY MinExists
<1> QED
  BY <1>1 DEF FirstOf

LEMMA AddressForm ==
    ASSUME Fixed, Mapped, NEW l \in Locations
    PROVE  \/ \A o \in Offsets : get_device_address(0, l, o) = 0
           \/ \E w \in Windows : /\ Covers(w, 0, l.bus)
                                 /\ \A o \in Offsets : get_device_address(0, l, o) = AddressIn(w, l, o)
<1> DEFINE found == {i \in DOMAIN ecam : Covers(ecam[i], 0, l.bus)}
<1>1. ASSUME NEW o \in Offsets
      PROVE  get_device_address(0, l, o) =
                 IF found = {} THEN 0 ELSE AddressIn(ecam[FirstOf(found)], l, o)
  BY DEF get_device_address
<1>2. CASE found = {}
  BY <1>1, <1>2
<1>3. CASE found # {}
  <2>1. ecam \in Seq(Windows)
    BY DEF Mapped
  <2>2. found \in SUBSET Nat
    BY <2>1
  <2>3. FirstOf(found) \in found
    <3> HIDE DEF found
    <3> QED
      BY <1>3, <2>2, FirstOfIn
  <2> DEFINE w == ecam[FirstOf(found)]
  <2>4. w \in Windows /\ Covers(w, 0, l.bus)
    BY <2>1, <2>3
  <2>5. \A o \in Offsets : get_device_address(0, l, o) = AddressIn(w, l, o)
    BY <1>1, <1>3
  <2> HIDE DEF w
  <2> QED
    BY <2>4, <2>5
<1> QED
  BY <1>2, <1>3

\* An address that is not 0 leads to the register of the function itself.
LEMMA AddressExact ==
    ASSUME Fixed, Mapped, NEW l \in Locations, NEW o \in Offsets, NEW p \in Offsets,
           get_device_address(0, l, p) # 0
    PROVE  /\ Decode(get_device_address(0, l, o)) = Key(0, l)
           /\ get_device_address(0, l, o) % 2^12 = o
<1>1. PICK w \in Windows : /\ Covers(w, 0, l.bus)
                           /\ \A q \in Offsets : get_device_address(0, l, q) = AddressIn(w, l, q)
  BY AddressForm, Zenon
<1>2. get_device_address(0, l, o) = AddressIn(w, l, o)
  BY <1>1
<1>3. Decode(AddressIn(w, l, o)) = Key(0, l) /\ AddressIn(w, l, o) % 2^12 = o
  BY <1>1, AddressDecoded
<1> QED
  BY <1>2, <1>3, Zenon

\* ECAM and the ports agree on every register of segment 0, whatever the table
\* says and however many of its entries the map has room for.
LEMMA ReadExact ==
    ASSUME Fixed, Mapped, NEW l \in Locations, NEW o \in Offsets
    PROVE  read32(l, o) = Register(Key(0, l), o)
<1> DEFINE a == get_device_address(0, l, o)
<1>1. a # 0 => Decode(a) = Key(0, l) /\ a % 2^12 = o
  BY AddressExact, Zenon
<1>2. ECAM_read32(l, o) = IF a = 0 THEN Absent ELSE Register(Decode(a), a % 2^12)
  BY Zenon DEF ECAM_read32
<1> HIDE DEF a
<1>3. ECAM_read32(l, o) \in {Absent, Register(Key(0, l), o)}
  BY <1>1, <1>2, Zenon
<1>4. read32(l, o) = IF ECAM_read32(l, o) # Absent THEN ECAM_read32(l, o) ELSE Register(Key(0, l), o)
  BY Zenon DEF read32, config_read32
<1> QED
  BY <1>3, <1>4, Zenon

LEMMA SmallOffsets == {0, 4, 8, 12, 16, 20} \subseteq Offsets
BY DEF Offsets

LEMMA WrittenExact ==
    ASSUME Fixed, Mapped, NEW l \in Locations
    PROVE  Written(l) = Key(0, l)
<1>1. 0 \in Offsets /\ 4 \in Offsets
  BY SmallOffsets
<1>2. CASE get_device_address(0, l, 0) = 0
  <2>1. ECAM_read32(l, 0) = Absent
    BY <1>2 DEF ECAM_read32
  <2> QED
    BY <2>1 DEF Written
<1>3. CASE get_device_address(0, l, 0) # 0
  <2>1. Decode(get_device_address(0, l, 4)) = Key(0, l)
    BY <1>1, <1>3, AddressExact, Zenon
  <2> QED
    BY <2>1 DEF Written
<1> QED
  BY <1>2, <1>3

\* What the scan sees of a function is what is there.
LEMMA SeenExact ==
    ASSUME Fixed, Mapped, NEW l \in Locations
    PROVE  /\ Here(l) <=> Present(l)
           /\ Present(l) => /\ read32(l, 12) = hw[Key(0, l)][12] /\ hw[Key(0, l)][12] \in BOOLEAN
                            /\ IsNvme(l) <=> HasNvmeClass(l)
                            /\ read32(l, 16) = hw[Key(0, l)][16]
                            /\ config_read32(l, 16) = hw[Key(0, l)][16]
                            /\ config_read32(l, 8) = hw[Key(0, l)][8]
<1>1. Key(0, l) \in DOMAIN hw
  BY TablesTyped
<1>2. ASSUME NEW o \in {0, 4, 8, 12, 16, 20}
      PROVE  read32(l, o) = IF Present(l) THEN hw[Key(0, l)][o] ELSE Absent
  BY <1>1, ReadExact, SmallOffsets DEF Register, Present
<1>3. Present(l) => hw[Key(0, l)][0] # Absent /\ hw[Key(0, l)][12] \in BOOLEAN
  BY <1>1, TablesTyped DEF Present
<1>4. Here(l) <=> Present(l)
  BY <1>2, <1>3 DEF Here
<1>5. ASSUME Present(l) PROVE config_read32(l, 16) = hw[Key(0, l)][16] /\ config_read32(l, 8) = hw[Key(0, l)][8]
  BY <1>1, <1>5 DEF config_read32, Register, Present
<1>6. ASSUME Present(l)
      PROVE /\ read32(l, 12) = hw[Key(0, l)][12] /\ read32(l, 16) = hw[Key(0, l)][16]
            /\ read32(l, 8) = hw[Key(0, l)][8]
  BY <1>2, <1>6
<1>7. ASSUME Present(l) PROVE IsNvme(l) <=> HasNvmeClass(l)
  BY <1>6, <1>7 DEF IsNvme, HasNvmeClass
<1> QED
  BY <1>3, <1>4, <1>5, <1>6, <1>7, Zenon

-----------------------------------------------------------------------------
(* The walk of the scan *)

Positions == [bus : 0 .. Buses, slot : 0 .. Slots - 1, func : 0 .. Funcs - 1]

LEMMA SameLocation ==
    ASSUME NEW l \in Locations, NEW m \in Locations,
           l.bus = m.bus, l.slot = m.slot, l.func = m.func
    PROVE  l = m
BY DEF Locations

LEMMA FirstTyped ==
    ASSUME NEW l \in Locations
    PROVE  /\ First(l) \in Locations /\ First(l).func = 0
           /\ First(l).bus = l.bus /\ First(l).slot = l.slot
           /\ l.func = 0 => First(l) = l
BY PcieAssumption DEF Locations, First

LEMMA SlotStep ==
    ASSUME NEW l \in Locations
    PROVE  /\ NextSlot(l) \in Positions /\ NextSlot(l).func = 0
           /\ \A m \in Locations :
                Before(m, NextSlot(l)) <=> Before(m, l) \/ (m.bus = l.bus /\ m.slot = l.slot)
<1>1. l.bus \in 0 .. Buses - 1 /\ l.slot \in 0 .. Slots - 1 /\ l.func \in 0 .. Funcs - 1
  BY DEF Locations
<1>2. Buses \in 1 .. 256 /\ Slots \in 1 .. 32 /\ Funcs \in 1 .. 8
  BY PcieAssumption
<1>3. NextBus(l.bus) = l.bus + 1
  BY <1>1, <1>2, Powers, SMT DEF NextBus
<1>4. CASE l.slot + 1 < Slots
  <2>1. NextSlot(l) = [bus |-> l.bus, slot |-> l.slot + 1, func |-> 0]
    BY <1>4 DEF NextSlot
  <2>2. NextSlot(l) \in Positions /\ NextSlot(l).func = 0
    BY <1>1, <1>2, <1>4, <2>1 DEF Positions
  <2>3. ASSUME NEW m \in Locations
        PROVE  Before(m, NextSlot(l)) <=> Before(m, l) \/ (m.bus = l.bus /\ m.slot = l.slot)
    <3>1. m.bus \in Int /\ m.slot \in Int /\ m.func \in Nat
      BY <1>2 DEF Locations
    <3> QED
      BY <1>1, <1>2, <2>1, <3>1 DEF Before
  <2> QED
    BY <2>2, <2>3
<1>5. CASE ~(l.slot + 1 < Slots)
  <2>1. NextSlot(l) = [bus |-> l.bus + 1, slot |-> 0, func |-> 0]
    BY <1>3, <1>5 DEF NextSlot
  <2>2. NextSlot(l) \in Positions /\ NextSlot(l).func = 0
    BY <1>1, <1>2, <2>1 DEF Positions
  <2>3. ASSUME NEW m \in Locations
        PROVE  Before(m, NextSlot(l)) <=> Before(m, l) \/ (m.bus = l.bus /\ m.slot = l.slot)
    <3>1. m.bus \in Int /\ m.slot \in 0 .. Slots - 1 /\ m.func \in Nat
      BY <1>2 DEF Locations
    <3> QED
      BY <1>1, <1>2, <1>5, <2>1, <3>1 DEF Before
  <2> QED
    BY <2>2, <2>3
<1> QED
  BY <1>4, <1>5

LEMMA FuncStep ==
    ASSUME NEW l \in Locations
    PROVE  /\ NextFunc(l) \in Positions
           /\ NextFunc(l).func > 0 => NextFunc(l).bus < Buses /\ First(NextFunc(l)) = First(l)
           /\ \A m \in Locations : Before(m, NextFunc(l)) <=> Before(m, l) \/ m = l
<1>1. l.bus \in 0 .. Buses - 1 /\ l.slot \in 0 .. Slots - 1 /\ l.func \in 0 .. Funcs - 1
  BY DEF Locations
<1>2. Buses \in 1 .. 256 /\ Slots \in 1 .. 32 /\ Funcs \in 1 .. 8
  BY PcieAssumption
<1>3. CASE l.func + 1 < Funcs
  <2>1. NextFunc(l) = [l EXCEPT !.func = l.func + 1]
    BY <1>3 DEF NextFunc
  <2>2. NextFunc(l) \in Positions /\ NextFunc(l).bus < Buses /\ First(NextFunc(l)) = First(l)
    <3>1. l = [bus |-> l.bus, slot |-> l.slot, func |-> l.func]
      BY DEF Locations
    <3>2. NextFunc(l) = [bus |-> l.bus, slot |-> l.slot, func |-> l.func + 1]
      BY <2>1, <3>1
    <3>3. NextFunc(l) \in Positions /\ NextFunc(l).bus < Buses
      BY <1>1, <1>2, <1>3, <3>2 DEF Positions
    <3>4. First(l) = [bus |-> l.bus, slot |-> l.slot, func |-> 0]
      BY <3>1 DEF First
    <3>5. First(NextFunc(l)) = [bus |-> l.bus, slot |-> l.slot, func |-> 0]
      BY <3>2 DEF First
    <3> QED
      BY <3>3, <3>4, <3>5
  <2>3. NextFunc(l).bus = l.bus /\ NextFunc(l).slot = l.slot /\ NextFunc(l).func = l.func + 1
    BY <2>1 DEF Locations
  <2>4. ASSUME NEW m \in Locations PROVE Before(m, NextFunc(l)) <=> Before(m, l) \/ m = l
    <3>1. m.bus \in Int /\ m.slot \in Int /\ m.func \in Int
      BY <1>2 DEF Locations
    <3>2. m = l <=> m.bus = l.bus /\ m.slot = l.slot /\ m.func = l.func
      BY SameLocation
    <3> QED
      BY <1>1, <2>3, <3>1, <3>2 DEF Before
  <2> QED
    BY <2>2, <2>4
<1>4. CASE ~(l.func + 1 < Funcs)
  <2>1. NextFunc(l) = NextSlot(l)
    BY <1>4 DEF NextFunc
  <2>2. ASSUME NEW m \in Locations PROVE Before(m, NextFunc(l)) <=> Before(m, l) \/ m = l
    <3>1. m.bus \in Int /\ m.slot \in Int /\ m.func \in 0 .. Funcs - 1
      BY <1>2 DEF Locations
    <3>2. m = l <=> m.bus = l.bus /\ m.slot = l.slot /\ m.func = l.func
      BY SameLocation
    <3>3. m.func <= l.func
      BY <1>1, <1>2, <1>4, <3>1
    <3>4. Before(m, l) \/ m = l <=> Before(m, l) \/ (m.bus = l.bus /\ m.slot = l.slot)
      BY <1>1, <3>1, <3>2, <3>3 DEF Before
    <3> QED
      BY <2>1, <3>4, SlotStep
  <2> QED
    BY <2>1, <2>2, SlotStep
<1> QED
  BY <1>3, <1>4

\* Where the loops go after l.
Successor(l) == IF LeavesSlot(l) THEN NextSlot(l) ELSE NextFunc(l)
Behind(p) == {l \in Targets : Before(l, p)}

\* Behind the next location there is what was behind this one, and this one if it
\* is a target: a slot is left early only where nothing else in it is reached.
LEMMA WalkStep ==
    ASSUME Fixed, Mapped, NEW l \in Locations,
           l.func > 0 => Present(First(l)) /\ hw[Key(0, First(l))][12]
    PROVE  /\ Successor(l) \in Positions
           /\ Successor(l).func > 0 =>
                /\ Successor(l).bus < Buses
                /\ Present(First(Successor(l))) /\ hw[Key(0, First(Successor(l)))][12]
           /\ Behind(Successor(l)) =
                IF Here(l) /\ IsNvme(l) THEN Behind(l) \cup {l} ELSE Behind(l)
<1>1. l.func \in Nat
  BY PcieAssumption DEF Locations
<1>2. Here(l) <=> Present(l)
  BY SeenExact
<1>3. Present(l) => (IsNvme(l) <=> HasNvmeClass(l))
  BY SeenExact
<1>4. Present(l) => read32(l, 12) = hw[Key(0, l)][12]
  BY SeenExact
<1>5. Reached(l) <=> Present(l)
  <2>1. CASE l.func = 0
    BY <2>1, FirstTyped DEF Reached
  <2>2. CASE l.func # 0
    BY <1>1, <2>2 DEF Reached
  <2> QED
    BY <2>1, <2>2
<1>6. l \in Targets <=> Here(l) /\ IsNvme(l)
  BY <1>2, <1>3, <1>5 DEF Targets
<1>7. \A m \in Targets : m \in Locations
  BY DEF Targets
<1>8. CASE LeavesSlot(l)
  <2>1. l.func = 0 /\ (Present(l) => ~hw[Key(0, l)][12]) /\ First(l) = l
    BY <1>2, <1>4, <1>8, FirstTyped DEF LeavesSlot
  <2>2. ASSUME NEW m \in Targets, m.bus = l.bus, m.slot = l.slot PROVE m = l
    <3>1. First(m) = l
      BY <1>7, <2>1, <2>2, FirstTyped, SameLocation
    <3>2. Reached(m)
      BY DEF Targets
    <3>3. m.func = 0
      BY <2>1, <3>1, <3>2 DEF Reached
    <3> QED
      BY <1>7, <3>1, <3>3, FirstTyped
  <2>3. Successor(l) = NextSlot(l)
    BY <1>8 DEF Successor
  <2>4. ASSUME NEW m \in Targets PROVE Before(m, Successor(l)) <=> Before(m, l) \/ m = l
    BY <1>7, <2>2, <2>3, SlotStep
  <2>5. Successor(l) \in Positions /\ ~(Successor(l).func > 0)
    BY <2>3, SlotStep
  <2> QED
    BY <1>6, <2>4, <2>5 DEF Behind
<1>9. CASE ~LeavesSlot(l)
  <2>1. Successor(l) = NextFunc(l)
    BY <1>9 DEF Successor
  <2>2. Present(First(l)) /\ hw[Key(0, First(l))][12]
    <3>1. CASE l.func = 0
      BY <1>2, <1>4, <1>9, <3>1, FirstTyped DEF LeavesSlot
    <3>2. CASE l.func # 0
      BY <1>1, <3>2
    <3> QED
      BY <3>1, <3>2
  <2>3. Successor(l) \in Positions
    BY <2>1, FuncStep
  <2>4. Successor(l).func > 0 => Successor(l).bus < Buses /\ First(Successor(l)) = First(l)
    BY <2>1, FuncStep
  <2>5. ASSUME NEW m \in Targets PROVE Before(m, Successor(l)) <=> Before(m, l) \/ m = l
    BY <1>7, <2>1, FuncStep
  <2>6. Behind(Successor(l)) = IF Here(l) /\ IsNvme(l) THEN Behind(l) \cup {l} ELSE Behind(l)
    BY <1>6, <2>5 DEF Behind
  <2> QED
    BY <2>2, <2>3, <2>4, <2>6
<1> QED
  BY <1>8, <1>9

\* The scan starts with nothing behind it and ends with everything.
LEMMA WalkEnds ==
    /\ Behind([bus |-> 0, slot |-> 0, func |-> 0]) = {}
    /\ \A p \in Positions : p.bus = Buses => Behind(p) = Targets
<1>1. ASSUME NEW m \in Targets
      PROVE m.bus \in 0 .. Buses - 1 /\ m.slot \in Nat /\ m.func \in Nat
  BY PcieAssumption DEF Targets, Locations
<1>2. ASSUME NEW m \in Targets PROVE ~Before(m, [bus |-> 0, slot |-> 0, func |-> 0])
  BY <1>1, PcieAssumption DEF Before
<1>3. ASSUME NEW p \in Positions, p.bus = Buses, NEW m \in Targets PROVE Before(m, p)
  BY <1>1, <1>3, PcieAssumption DEF Before
<1> QED
  BY <1>2, <1>3 DEF Behind

LEMMA KeysOf ==
    /\ Keys({}) = {}
    /\ \A S, l : Keys(S \cup {l}) = Keys(S) \cup {Key(0, l)}
BY DEF Keys

-----------------------------------------------------------------------------
(* The loops that fill the lists *)

SelectStep(s, places, k, q) == IF k \in places THEN Append(q, s[k]) ELSE q

\* The values of the list up to the n-th pass.
SelectRun(E, s, places, n, f) ==
    /\ f \in [0 .. n -> Seq(E)]
    /\ \A k \in 0 .. n : f[k] = IF k = 0 THEN <<>> ELSE SelectStep(s, places, k, f[k - 1])

\* After n passes the list holds what was at the places up to n, and nothing else.
Holds(E, s, places, n, q) ==
    /\ q \in Seq(E)
    /\ \A i \in DOMAIN q : \E j \in 1 .. n : j \in places /\ q[i] = s[j]
    /\ \A j \in 1 .. n : j \in places => \E i \in DOMAIN q : q[i] = s[j]

LEMMA AppendFacts ==
    ASSUME NEW E, NEW q \in Seq(E), NEW e \in E
    PROVE  /\ Append(q, e) \in Seq(E)
           /\ DOMAIN q \subseteq DOMAIN Append(q, e)
           /\ Len(q) + 1 \in DOMAIN Append(q, e) /\ Append(q, e)[Len(q) + 1] = e
           /\ \A i \in DOMAIN q : Append(q, e)[i] = q[i]
           /\ \A i \in DOMAIN Append(q, e) : i \in DOMAIN q \/ i = Len(q) + 1
OBVIOUS

LEMMA HoldsStep ==
    ASSUME NEW E, NEW s \in Seq(E), NEW places, NEW n \in 1 .. Len(s), NEW q,
           Holds(E, s, places, n - 1, q)
    PROVE  Holds(E, s, places, n, SelectStep(s, places, n, q))
<1>1. s[n] \in E /\ n \in Nat
  OBVIOUS
<1>2. q \in Seq(E)
  BY DEF Holds
<1>3. \A j \in 1 .. n : j \in 1 .. n - 1 \/ j = n
  BY <1>1
<1>4. 1 .. n - 1 \subseteq 1 .. n /\ n \in 1 .. n
  BY <1>1
<1>5. /\ \A i \in DOMAIN q : \E j \in 1 .. n - 1 : j \in places /\ q[i] = s[j]
      /\ \A j \in 1 .. n - 1 : j \in places => \E i \in DOMAIN q : q[i] = s[j]
  BY DEF Holds
<1>6. CASE n \in places
  <2> DEFINE a == Append(q, s[n])
  <2>1. /\ a \in Seq(E) /\ DOMAIN q \subseteq DOMAIN a
        /\ Len(q) + 1 \in DOMAIN a /\ a[Len(q) + 1] = s[n]
        /\ \A i \in DOMAIN q : a[i] = q[i]
        /\ \A i \in DOMAIN a : i \in DOMAIN q \/ i = Len(q) + 1
    BY <1>1, <1>2, AppendFacts
  <2>2. SelectStep(s, places, n, q) = a
    BY <1>6 DEF SelectStep
  <2> HIDE DEF a
  <2>3. ASSUME NEW i \in DOMAIN a PROVE \E j \in 1 .. n : j \in places /\ a[i] = s[j]
    <3>1. CASE i \in DOMAIN q
      <4>1. PICK j \in 1 .. n - 1 : j \in places /\ q[i] = s[j]
        BY <1>5, <3>1
      <4> QED
        BY <1>4, <2>1, <3>1, <4>1
    <3>2. CASE i = Len(q) + 1
      BY <1>4, <1>6, <2>1, <3>2
    <3> QED
      BY <2>1, <3>1, <3>2
  <2>4. ASSUME NEW j \in 1 .. n, j \in places PROVE \E i \in DOMAIN a : a[i] = s[j]
    <3>1. CASE j \in 1 .. n - 1
      <4>1. PICK i \in DOMAIN q : q[i] = s[j]
        BY <1>5, <2>4, <3>1
      <4> QED
        BY <2>1, <4>1
    <3>2. CASE j = n
      BY <2>1, <3>2
    <3> QED
      BY <1>3, <3>1, <3>2
  <2> QED
    BY <2>1, <2>2, <2>3, <2>4 DEF Holds
<1>7. CASE n \notin places
  <2>1. SelectStep(s, places, n, q) = q
    BY <1>7 DEF SelectStep
  <2>2. \A i \in DOMAIN q : \E j \in 1 .. n : j \in places /\ q[i] = s[j]
    BY <1>4, <1>5
  <2>3. \A j \in 1 .. n : j \in places => \E i \in DOMAIN q : q[i] = s[j]
    BY <1>3, <1>5, <1>7
  <2> QED
    BY <1>2, <2>1, <2>2, <2>3 DEF Holds
<1> QED
  BY <1>6, <1>7

LEMMA HoldsNone == ASSUME NEW E, NEW s, NEW places PROVE Holds(E, s, places, 0, <<>>)
<1>1. DOMAIN <<>> = {} /\ <<>> \in Seq(E)
  OBVIOUS
<1>2. 1 .. 0 = {}
  OBVIOUS
<1> QED
  BY <1>1, <1>2, Zenon DEF Holds

LEMMA SelectRunExists ==
    ASSUME NEW E, NEW s \in Seq(E), NEW places
    PROVE  \E f : SelectRun(E, s, places, Len(s), f)
<1> DEFINE T == {n \in 0 .. Len(s) : ~\E f : SelectRun(E, s, places, n, f)}
<1>1. T = {}
  <2> SUFFICES ASSUME T # {} PROVE FALSE
    OBVIOUS
  <2>0. T \in SUBSET Nat
    OBVIOUS
  <2>1. PICK n \in T : \A y \in T : n <= y
    <3> HIDE DEF T
    <3> QED
      BY <2>0, MinExists
  <2>2. n \in Nat /\ n <= Len(s) /\ ~\E f : SelectRun(E, s, places, n, f)
    BY <2>1
  <2>3. CASE n = 0
    <3>1. SelectRun(E, s, places, 0, [k \in 0 .. 0 |-> <<>>])
      BY DEF SelectRun
    <3> QED
      BY <2>2, <2>3, <3>1
  <2>4. CASE n # 0
    <3>1. n - 1 \in 0 .. Len(s) /\ ~(n <= n - 1)
      BY <2>2, <2>4
    <3>2. PICK f : SelectRun(E, s, places, n - 1, f)
      BY <2>1, <3>1
    <3>3. /\ f[n - 1] \in Seq(E) /\ f \in [0 .. n - 1 -> Seq(E)]
          /\ \A k \in 0 .. n - 1 : f[k] = IF k = 0 THEN <<>> ELSE SelectStep(s, places, k, f[k - 1])
      BY <3>1, <3>2 DEF SelectRun
    <3> DEFINE last == SelectStep(s, places, n, f[n - 1])
               g == [k \in 0 .. n |-> IF k = n THEN last ELSE f[k]]
    <3>4. last \in Seq(E)
      <4>1. s[n] \in E
        BY <2>2, <2>4
      <4> QED
        BY <3>3, <4>1 DEF SelectStep
    <3> HIDE DEF last
    <3>5. g \in [0 .. n -> Seq(E)]
      BY <3>1, <3>3, <3>4
    <3>6. ASSUME NEW k \in 0 .. n PROVE g[k] = IF k = 0 THEN <<>> ELSE SelectStep(s, places, k, g[k - 1])
      <4>1. CASE k = n
        <5>1. g[k] = last /\ g[n - 1] = f[n - 1]
          BY <3>1, <4>1
        <5> HIDE DEF g
        <5> QED
          BY <2>4, <4>1, <5>1 DEF last
      <4>2. CASE k # n
        <5>1. k \in 0 .. n - 1 /\ g[k] = f[k]
          BY <3>1, <4>2
        <5>2. k # 0 => g[k - 1] = f[k - 1]
          BY <3>1, <4>2
        <5>3. f[k] = IF k = 0 THEN <<>> ELSE SelectStep(s, places, k, f[k - 1])
          BY <3>3, <5>1
        <5> HIDE DEF g
        <5> QED
          BY <5>1, <5>2, <5>3
      <4> QED
        BY <4>1, <4>2
    <3>7. SelectRun(E, s, places, n, g)
      <4> HIDE DEF g
      <4> QED
        BY <3>5, <3>6 DEF SelectRun
    <3> QED
      BY <2>2, <3>7
  <2> QED
    BY <2>3, <2>4
<1>2. Len(s) \in 0 .. Len(s)
  OBVIOUS
<1> QED
  BY <1>1, <1>2

\* The list a filling loop leaves holds exactly the elements at the places.
LEMMA SelectedExact ==
    ASSUME NEW E, NEW s \in Seq(E), NEW places
    PROVE  Holds(E, s, places, Len(s), Selected(s, places))
<1> DEFINE P(g) == g = [n \in 0 .. Len(s) |->
                          IF n = 0 THEN <<>>
                          ELSE IF n \in places THEN Append(g[n - 1], s[n]) ELSE g[n - 1]]
           out == CHOOSE g : P(g)
<1>1. \E g : P(g)
  <2>1. PICK f : SelectRun(E, s, places, Len(s), f)
    BY SelectRunExists
  <2>2. P(f)
    BY <2>1 DEF SelectRun, SelectStep
  <2> QED
    BY <2>2
<1>2. P(out)
  BY <1>1
<1>3. Selected(s, places) = out[Len(s)]
  BY DEF Selected
<1> HIDE DEF out
<1>4. \A k \in 0 .. Len(s) : out[k] = IF k = 0 THEN <<>> ELSE SelectStep(s, places, k, out[k - 1])
  BY <1>2 DEF SelectStep
<1> HIDE DEF P
<1> DEFINE T == {n \in 0 .. Len(s) : ~Holds(E, s, places, n, out[n])}
<1>5. T = {}
  <2> SUFFICES ASSUME T # {} PROVE FALSE
    OBVIOUS
  <2>0. T \in SUBSET Nat
    OBVIOUS
  <2>1. PICK n \in T : \A y \in T : n <= y
    <3> HIDE DEF T
    <3> QED
      BY <2>0, MinExists
  <2>2. n \in Nat /\ n <= Len(s) /\ ~Holds(E, s, places, n, out[n])
    BY <2>1
  <2>3. n # 0
    BY <1>4, <2>2, HoldsNone
  <2>4. n - 1 \in 0 .. Len(s) /\ ~(n <= n - 1) /\ n \in 1 .. Len(s)
    BY <2>2, <2>3
  <2>5. Holds(E, s, places, n - 1, out[n - 1])
    BY <2>1, <2>4
  <2>6. out[n] = SelectStep(s, places, n, out[n - 1])
    BY <1>4, <2>2, <2>3
  <2>7. Holds(E, s, places, n, SelectStep(s, places, n, out[n - 1]))
    BY <2>4, <2>5, HoldsStep
  <2> QED
    BY <2>2, <2>6, <2>7
<1>6. Len(s) \in 0 .. Len(s)
  OBVIOUS
<1> QED
  BY <1>3, <1>5, <1>6

-----------------------------------------------------------------------------
(* The order of the loops of IBus *)

LEMMA Quotients ==
    ASSUME NEW q \in Nat, NEW k \in Nat, NEW d \in Nat \ {0}, q * d < k * d
    PROVE  q < k
<1> SUFFICES ASSUME q >= k PROVE FALSE
  OBVIOUS
<1>1. q = k + (q - k) /\ q - k \in Nat
  OBVIOUS
<1>2. q * d = k * d + (q - k) * d /\ (q - k) * d \in Nat /\ k * d \in Nat
  BY <1>1
<1> QED
  BY <1>2

LEMMA DivBounds ==
    ASSUME NEW a \in Nat, NEW d \in Nat \ {0}
    PROVE  a \div d \in Nat /\ a % d \in 0 .. d - 1 /\ (a \div d) * d <= a
<1>1. a \div d \in Nat /\ (a \div d) * d <= a
  OBVIOUS
<1>2. a % d \in 0 .. d - 1
  OBVIOUS
<1> QED
  BY <1>1, <1>2

LEMMA DivUnique ==
    ASSUME NEW q \in Nat, NEW d \in Nat \ {0}, NEW r \in 0 .. d - 1
    PROVE  (q * d + r) \div d = q /\ (q * d + r) % d = r
<1>1. (q * d + r) \div d = q
  OBVIOUS
<1>2. (q * d + r) % d = r
  OBVIOUS
<1> QED
  BY <1>1, <1>2

\* The loop counters after n - 1 rounds, and the round of a location.
IsRound(x, B, S, F, b, s, f) ==
    /\ x \in 0 .. B * S * F - 1
    /\ x \div (S * F) = b /\ (x \div F) % S = s /\ x % F = f

LEMMA Rounds ==
    ASSUME NEW S \in Nat \ {0}, NEW F \in Nat \ {0}, NEW B \in Nat \ {0}
    PROVE  /\ \A x \in 0 .. B * S * F - 1 :
                /\ x \div (S * F) \in 0 .. B - 1
                /\ (x \div F) % S \in 0 .. S - 1 /\ x % F \in 0 .. F - 1
           /\ \A b \in 0 .. B - 1, s \in 0 .. S - 1, f \in 0 .. F - 1 :
                IsRound((b * S + s) * F + f, B, S, F, b, s, f)
<1>1. S * F \in Nat \ {0} /\ B * S * F = B * (S * F) /\ B * S * F \in Nat
  OBVIOUS
<1>2. ASSUME NEW x \in 0 .. B * S * F - 1
      PROVE  /\ x \div (S * F) \in 0 .. B - 1
             /\ (x \div F) % S \in 0 .. S - 1 /\ x % F \in 0 .. F - 1
  <2> DEFINE d == S * F
             q == x \div d
  <2>1. x \in Nat /\ x < B * d /\ d \in Nat \ {0}
    BY <1>1
  <2> HIDE DEF d
  <2>2. q \in Nat /\ q * d <= x /\ q * d \in Nat /\ B * d \in Nat
    BY <2>1, DivBounds
  <2> HIDE DEF q
  <2>3. q * d < B * d
    BY <2>1, <2>2
  <2>4. q < B
    BY <2>1, <2>2, <2>3, Quotients
  <2>5. x \div F \in Nat /\ x % F \in 0 .. F - 1
    BY <2>1, DivBounds
  <2>6. (x \div F) % S \in 0 .. S - 1
    BY <2>5, DivBounds
  <2> QED
    BY <2>2, <2>4, <2>5, <2>6 DEF q, d
<1>3. ASSUME NEW b \in 0 .. B - 1, NEW s \in 0 .. S - 1, NEW f \in 0 .. F - 1
      PROVE  IsRound((b * S + s) * F + f, B, S, F, b, s, f)
  <2> DEFINE y == b * S + s
             x == y * F + f
             z == s * F + f
  <2>1. y \in Nat /\ b \in Nat /\ s \in Nat
    OBVIOUS
  <2>2. y % S = s
    BY <2>1, DivUnique
  <2>3. x = b * (S * F) + z
    <3>1. y * F = b * (S * F) + s * F
      OBVIOUS
    <3> HIDE DEF y
    <3> QED
      BY <3>1
  <2>4. z \in Nat /\ z < S * F
    <3>1. s <= S - 1 /\ s * F \in Nat
      OBVIOUS
    <3>2. (S - 1) * F = S * F - F
      OBVIOUS
    <3>3. (S - 1) - s \in Nat
      OBVIOUS
    <3>4. ((S - 1) - s) * F \in Nat /\ (S - 1) * F = s * F + ((S - 1) - s) * F
      BY <3>3
    <3> QED
      BY <1>1, <3>1, <3>2, <3>4
  <2> HIDE DEF y, z
  <2>5. x \div F = y /\ x % F = f
    BY <2>1, DivUnique
  <2> HIDE DEF x
  <2>6. x \div (S * F) = b
    BY <1>1, <2>1, <2>3, <2>4, DivUnique
  <2>7. x \in Nat /\ x < B * (S * F)
    <3> DEFINE d == S * F
    <3>1. d \in Nat \ {0} /\ x = b * d + z /\ z < d
      BY <1>1, <2>3, <2>4
    <3> HIDE DEF d
    <3>2. b * d \in Nat /\ (b + 1) * d = b * d + d
      BY <2>1, <3>1
    <3>3. B - (b + 1) \in Nat
      OBVIOUS
    <3>4. (B - (b + 1)) * d \in Nat /\ B * d = (b + 1) * d + (B - (b + 1)) * d
      BY <3>1, <3>3
    <3> QED
      BY <2>4, <3>1, <3>2, <3>4 DEF d
  <2>8. x \in 0 .. B * S * F - 1
    BY <1>1, <2>7
  <2> QED
    BY <2>2, <2>5, <2>6, <2>8 DEF x, y, IsRound
<1> QED
  BY <1>2, <1>3

LEMMA InOrderExact ==
    /\ InOrder \in Seq(Locations)
    /\ \A l \in Locations : \E n \in DOMAIN InOrder : InOrder[n] = l
<1> DEFINE N == Buses * Slots * Funcs
           R(x) == [bus |-> x \div (Slots * Funcs), slot |-> (x \div Funcs) % Slots,
                    func |-> x % Funcs]
<1>1. Buses \in Nat \ {0} /\ Slots \in Nat \ {0} /\ Funcs \in Nat \ {0}
  BY PcieAssumption
<1>2. N \in Nat
  BY <1>1
<1>3. ASSUME NEW x \in 0 .. N - 1
      PROVE  /\ x \div (Slots * Funcs) \in 0 .. Buses - 1
             /\ (x \div Funcs) % Slots \in 0 .. Slots - 1 /\ x % Funcs \in 0 .. Funcs - 1
  BY <1>1, Rounds
<1>4. ASSUME NEW x \in 0 .. N - 1 PROVE R(x) \in Locations
  BY <1>3 DEF Locations
<1>5. ASSUME NEW l \in Locations PROVE \E x \in 0 .. N - 1 : R(x) = l
  <2>1. l.bus \in 0 .. Buses - 1 /\ l.slot \in 0 .. Slots - 1 /\ l.func \in 0 .. Funcs - 1
    BY DEF Locations
  <2> DEFINE x == (l.bus * Slots + l.slot) * Funcs + l.func
  <2>2. /\ x \in 0 .. N - 1
        /\ x \div (Slots * Funcs) = l.bus /\ (x \div Funcs) % Slots = l.slot /\ x % Funcs = l.func
    <3>1. IsRound(x, Buses, Slots, Funcs, l.bus, l.slot, l.func)
      BY <1>1, <2>1, Rounds, Zenon
    <3> HIDE DEF x
    <3> QED
      BY <3>1, Zenon DEF IsRound
  <2>3. R(x) = [bus |-> l.bus, slot |-> l.slot, func |-> l.func]
    <3> HIDE DEF x
    <3> QED
      BY <2>2
  <2>4. l = [bus |-> l.bus, slot |-> l.slot, func |-> l.func]
    BY DEF Locations
  <2> HIDE DEF x
  <2> QED
    BY <2>2, <2>3, <2>4
<1>6. InOrder = [n \in 1 .. N |-> R(n - 1)]
  BY DEF InOrder
<1> HIDE DEF N, R
<1>7. ASSUME NEW n \in 1 .. N PROVE n - 1 \in 0 .. N - 1
  BY <1>2
<1>8. InOrder \in Seq(Locations)
  BY <1>2, <1>4, <1>6, <1>7
<1>9. ASSUME NEW l \in Locations PROVE \E n \in DOMAIN InOrder : InOrder[n] = l
  <2>1. PICK x \in 0 .. N - 1 : R(x) = l
    BY <1>5
  <2>2. x + 1 \in 1 .. N /\ (x + 1) - 1 = x
    BY <1>2
  <2> QED
    BY <1>6, <2>1, <2>2
<1> QED
  BY <1>8, <1>9

Infos == {BusDeviceInfo(l) : l \in {m \in Locations : Present(m)}}

\* The scan by ports lists the functions that are there, and only those.
LEMMA ScanExact ==
    ASSUME Fixed
    PROVE  /\ scan_all_buses \in Seq(Infos)
           /\ \A d \in Infos : \E i \in DOMAIN scan_all_buses : scan_all_buses[i] = d
<1> DEFINE places == {n \in DOMAIN InOrder : config_read32(InOrder[n], 0) # Absent}
           found == Selected(InOrder, places)
           list == [i \in DOMAIN found |-> BusDeviceInfo(found[i])]
<1>1. ASSUME NEW l \in Locations PROVE config_read32(l, 0) # Absent <=> Present(l)
  BY TablesTyped DEF config_read32, Register, Present
<1>2. InOrder \in Seq(Locations)
  BY InOrderExact
<1>3. Holds(Locations, InOrder, places, Len(InOrder), found)
  <2> HIDE DEF places
  <2> QED
    BY <1>2, SelectedExact
<1>4. scan_all_buses = <<>> \o list
  BY DEF scan_all_buses, scan_pci_bus
<1> HIDE DEF found
<1>5. /\ found \in Seq(Locations)
      /\ \A i \in DOMAIN found : \E j \in 1 .. Len(InOrder) : j \in places /\ found[i] = InOrder[j]
      /\ \A j \in 1 .. Len(InOrder) : j \in places => \E i \in DOMAIN found : found[i] = InOrder[j]
  BY <1>3 DEF Holds
<1>6. DOMAIN InOrder = 1 .. Len(InOrder) /\ \A n \in DOMAIN InOrder : InOrder[n] \in Locations
  BY <1>2
<1>7. ASSUME NEW i \in DOMAIN found PROVE found[i] \in Locations /\ Present(found[i])
  <2>1. PICK j \in 1 .. Len(InOrder) : j \in places /\ found[i] = InOrder[j]
    BY <1>5
  <2>2. found[i] \in Locations /\ config_read32(found[i], 0) # Absent
    BY <1>6, <2>1
  <2> QED
    BY <1>1, <2>2
<1>8. ASSUME NEW l \in Locations, Present(l) PROVE \E i \in DOMAIN found : found[i] = l
  <2>1. PICK n \in DOMAIN InOrder : InOrder[n] = l
    BY InOrderExact
  <2>2. n \in places
    BY <1>1, <1>8, <2>1
  <2> QED
    BY <1>5, <1>6, <2>1, <2>2
<1> HIDE DEF places
<1>9. ASSUME NEW i \in DOMAIN found PROVE BusDeviceInfo(found[i]) \in Infos
  BY <1>7 DEF Infos
<1>10. list \in Seq(Infos) /\ DOMAIN list = DOMAIN found
  BY <1>5, <1>9
<1>11. ASSUME NEW d \in Infos PROVE \E i \in DOMAIN list : list[i] = d
  <2>1. PICK l \in Locations : Present(l) /\ d = BusDeviceInfo(l)
    BY DEF Infos
  <2>2. PICK i \in DOMAIN found : found[i] = l
    BY <1>8, <2>1
  <2> QED
    BY <1>10, <2>1, <2>2
<1> HIDE DEF list
<1>12. <<>> \o list = list
  BY <1>10
<1> QED
  BY <1>4, <1>10, <1>11, <1>12

LEMMA NvmeIsStorage ==
    ASSUME NEW class, class[1] = 1
    PROVE  deduce_pci_type(class) \in StorageTypes
<1>1. CASE class = <<1, 8, 2>>
  BY <1>1 DEF deduce_pci_type, StorageTypes
<1>2. CASE class = <<1, 6, 1>>
  BY <1>2 DEF deduce_pci_type, StorageTypes
<1>3. CASE class \notin {<<1, 8, 2>>, <<1, 6, 1>>}
  BY <1>3 DEF deduce_pci_type, StorageTypes
<1> QED
  BY <1>1, <1>2, <1>3

\* The list of storage devices has every target in it.
LEMMA StorageHolds ==
    ASSUME Fixed, discovered = scan_all_buses, NEW l \in Targets
    PROVE  \E i \in DOMAIN get_storage_devices : get_storage_devices[i] = BusDeviceInfo(l)
<1>1. l \in Locations /\ Present(l) /\ hw[Key(0, l)][8][1] = 1
  BY DEF Targets, Reached, HasNvmeClass
<1>2. BusDeviceInfo(l) \in Infos
  BY <1>1 DEF Infos
<1>3. BusDeviceInfo(l).deduced_type \in StorageTypes
  <2>1. config_read32(l, 8) = hw[Key(0, l)][8]
    BY <1>1, TablesTyped DEF config_read32, Register, Present
  <2>2. deduce_pci_type(config_read32(l, 8)) \in StorageTypes
    BY <1>1, <2>1, NvmeIsStorage
  <2> QED
    BY <2>2 DEF BusDeviceInfo
<1>4. discovered \in Seq(Infos)
  BY ScanExact
<1>5. PICK j \in DOMAIN discovered : discovered[j] = BusDeviceInfo(l)
  BY <1>2, ScanExact
<1>6. j \in StoragePlaces
  BY <1>3, <1>5 DEF StoragePlaces
<1>7. Holds(Infos, discovered, StoragePlaces, Len(discovered), Selected(discovered, StoragePlaces))
  BY <1>4, SelectedExact
<1>8. j \in 1 .. Len(discovered)
  BY <1>4
<1>9. \E i \in DOMAIN Selected(discovered, StoragePlaces) :
        Selected(discovered, StoragePlaces)[i] = discovered[j]
  BY <1>6, <1>7, <1>8 DEF Holds
<1> QED
  BY <1>5, <1>9 DEF get_storage_devices

-----------------------------------------------------------------------------
(* What depends on the hardware alone stays as it is *)

LEMMA HardwareSame ==
    ASSUME UNCHANGED hardware
    PROVE  /\ Fixed <=> Fixed'
           /\ Windows' = Windows /\ Targets' = Targets /\ DOMAIN hw' = DOMAIN hw
           /\ \A l : Present(l)' <=> Present(l)
           /\ \A k : hw'[k] = hw[k]
           /\ scan_all_buses' = scan_all_buses
<1>1. hw' = hw /\ rsdt' = rsdt
  BY DEF hardware
<1>2. \A l : Present(l)' <=> Present(l)
  BY <1>1 DEF Present
<1>3. Targets' = Targets
  BY <1>1 DEF Targets, Reached, HasNvmeClass, Present
<1>4. Windows' = Windows
  BY <1>1 DEF Windows
<1>5. Fixed <=> Fixed'
  BY <1>1 DEF Fixed
<1>6. scan_all_buses' = scan_all_buses
  BY <1>1 DEF scan_all_buses, scan_pci_bus, config_read32, Register, BusDeviceInfo
<1> QED
  BY <1>1, <1>2, <1>3, <1>4, <1>5, <1>6

LEMMA StorageSame ==
    ASSUME discovered' = discovered
    PROVE  get_storage_devices' = get_storage_devices
BY DEF get_storage_devices, StoragePlaces

-----------------------------------------------------------------------------
(* The invariant *)

LEMMA TableEntries ==
    ASSUME NEW t \in Table, \A i \in DOMAIN t.entries : t.entries[i] \in Windows
    PROVE  /\ parse_mcfg(t.entries) \in Seq(Windows)
           /\ Len(parse_mcfg(t.entries)) <= MaxECAMRegions
<1> DEFINE e == t.entries
           n == IF Len(e) < MaxECAMRegions THEN Len(e) ELSE MaxECAMRegions
<1>1. e \in Seq(Regions)
  BY DEF Table
<1>2. e \in Seq(Windows)
  <2> HIDE DEF e
  <2> SUFFICES \A i \in DOMAIN e : e[i] \in Windows
    BY <1>1
  <2> QED
    BY DEF e
<1>3. n \in Nat /\ n <= Len(e) /\ n <= MaxECAMRegions
  BY <1>1, PcieAssumption
<1>4. parse_mcfg(e) = SubSeq(e, 1, n)
  BY DEF parse_mcfg
<1> HIDE DEF e, n
<1>5. SubSeq(e, 1, n) \in Seq(Windows) /\ Len(SubSeq(e, 1, n)) = n
  BY <1>2, <1>3
<1> QED
  BY <1>3, <1>4, <1>5 DEF e

LEMMA MapTyped ==
    ASSUME Fixed, locate_acpi_table_mcfg # Absent
    PROVE  /\ parse_mcfg(locate_acpi_table_mcfg.entries) \in Seq(Windows)
           /\ Len(parse_mcfg(locate_acpi_table_mcfg.entries)) <= MaxECAMRegions
<1> DEFINE mcfgs == {i \in DOMAIN rsdt : rsdt[i] # Absent /\ rsdt[i].sig = "MCFG"}
           t == rsdt[FirstOf(mcfgs)]
<1>1. rsdt \in Seq({Absent} \cup Table)
  BY TablesTyped
<1>2. mcfgs # {} /\ locate_acpi_table_mcfg = t
  BY DEF locate_acpi_table_mcfg
<1>3. mcfgs \in SUBSET Nat
  BY <1>1
<1>4. FirstOf(mcfgs) \in mcfgs
  <2> HIDE DEF mcfgs
  <2> QED
    BY <1>2, <1>3, FirstOfIn
<1>5. t \in {rsdt[i] : i \in DOMAIN rsdt} \ {Absent} /\ t \in Table
  <2>1. FirstOf(mcfgs) \in DOMAIN rsdt /\ t # Absent
    BY <1>4
  <2> HIDE DEF mcfgs
  <2>2. t \in {Absent} \cup Table
    BY <1>1, <2>1
  <2> QED
    BY <2>1, <2>2, Zenon
<1> HIDE DEF t
<1>6. \A i \in DOMAIN t.entries : t.entries[i] \in Windows
  BY <1>5 DEF Windows, WindowsOf
<1> QED
  BY <1>2, <1>5, <1>6, TableEntries

LEMMA InitIInv == Init => IInv
<1> SUFFICES ASSUME Init PROVE IInv
  OBVIOUS
<1>1. Fixed
  BY DEF Init, Fixed
<1>2. Mapped
  BY PcieAssumption DEF Init, Mapped
<1>3. Control
  <2>1. Buses \in Nat /\ Slots \in Nat \ {0} /\ Funcs \in Nat \ {0}
    BY PcieAssumption
  <2>2. [bus |-> 0, slot |-> 0, func |-> 0] \in
            [bus : 0 .. Buses, slot : 0 .. Slots - 1, func : 0 .. Funcs - 1]
    BY <2>1
  <2>3. at = [bus |-> 0, slot |-> 0, func |-> 0] /\ pc = "initialize" /\ active = FALSE
    BY DEF Init
  <2> QED
    BY <2>2, <2>3, Zenon DEF Control
<1>4. at = [bus |-> 0, slot |-> 0, func |-> 0] /\ pc = "initialize" /\ master = {} /\ active = FALSE
  BY DEF Init
<1>5. Enabled
  <2>1. AtReached
    BY <1>4 DEF AtReached
  <2>2. master = Keys({l \in Targets : Before(l, at)})
    BY <1>4, WalkEnds, KeysOf DEF Behind
  <2>3. ~Scanned
    BY <1>4 DEF Scanned
  <2> QED
    BY <1>4, <2>1, <2>2, <2>3 DEF Enabled
<1>6. Listed
  BY <1>4 DEF Init, Listed
<1> QED
  BY <1>1, <1>2, <1>3, <1>5, <1>6 DEF IInv

LEMMA InitializeStep ==
    ASSUME IInv, initialize, UNCHANGED <<listVars, bar0, first>>
    PROVE  IInv'
<1>1. /\ pc = "initialize" /\ pc' = "scan" /\ UNCHANGED hardware
      /\ active' = active /\ master' = master /\ at' = at
      /\ discovered' = discovered /\ hw' = hw
  BY DEF initialize, listVars, hardware
<1>2. Fixed /\ Fixed' /\ Windows' = Windows /\ Targets' = Targets
  BY <1>1, HardwareSame DEF IInv
<1>3. Mapped'
  <2>1. CASE locate_acpi_table_mcfg = Absent
    <3>1. ecam' = <<>>
      BY <2>1 DEF initialize
    <3> QED
      BY <1>2, <3>1, PcieAssumption DEF Mapped
  <2>2. CASE locate_acpi_table_mcfg # Absent
    <3>1. ecam' = parse_mcfg(locate_acpi_table_mcfg.entries)
      BY <2>2 DEF initialize
    <3> QED
      BY <1>2, <2>2, <3>1, MapTyped DEF Mapped
  <2> QED
    BY <2>1, <2>2
<1>4. Control'
  BY <1>1 DEF IInv, Control
<1>5. Enabled'
  <2>1. ~Scanned /\ ~Scanned'
    BY <1>1 DEF Scanned
  <2>2. /\ AtReached /\ master = Keys({l \in Targets : Before(l, at)})
        /\ active <=> master # {}
    BY <2>1 DEF IInv, Enabled
  <2>3. AtReached'
    BY <1>1, <2>2 DEF AtReached, Present
  <2>4. (master = Keys({l \in Targets : Before(l, at)}))'
    BY <1>1, <1>2, <2>2
  <2> QED
    BY <1>1, <2>1, <2>2, <2>3, <2>4 DEF Enabled
<1>6. Listed'
  BY <1>1 DEF IInv, Listed
<1> QED
  BY <1>2, <1>3, <1>4, <1>5, <1>6 DEF IInv

LEMMA ScanStep ==
    ASSUME IInv, ScanFunction, UNCHANGED <<listVars, bar0, first>>
    PROVE  IInv'
<1>1. /\ pc = "scan" /\ pc' = "scan" /\ UNCHANGED hardware /\ ecam' = ecam
      /\ discovered' = discovered /\ hw' = hw /\ at.bus < Buses /\ at' = Successor(at)
  BY DEF ScanFunction, listVars, hardware, Successor
<1>2. Fixed /\ Mapped /\ Fixed' /\ Windows' = Windows /\ Targets' = Targets
  BY <1>1, HardwareSame DEF IInv
<1>3. Mapped'
  BY <1>1, <1>2 DEF Mapped
<1>4. at \in Locations
  BY <1>1, PcieAssumption DEF IInv, Control, Locations
<1>5. ~Scanned /\ ~Scanned'
  BY <1>1 DEF Scanned
<1>6. /\ AtReached /\ master = Keys(Behind(at))
      /\ active <=> master # {}
  BY <1>5 DEF IInv, Enabled, Behind
<1>7. at.func > 0 => Present(First(at)) /\ hw[Key(0, First(at))][12]
  BY <1>6 DEF AtReached
<1>8. /\ Successor(at) \in Positions
      /\ Successor(at).func > 0 =>
           /\ Successor(at).bus < Buses
           /\ Present(First(Successor(at))) /\ hw[Key(0, First(Successor(at)))][12]
      /\ Behind(Successor(at)) = IF Here(at) /\ IsNvme(at) THEN Behind(at) \cup {at} ELSE Behind(at)
  BY <1>2, <1>4, <1>7, WalkStep
<1>9. /\ master' = Keys(Behind(Successor(at)))
      /\ active' \in BOOLEAN /\ (active' <=> master' # {})
  <2>1. CASE Here(at) /\ IsNvme(at)
    <3>1. active' = TRUE /\ master' = master \cup {Written(at)}
      BY <2>1 DEF ScanFunction
    <3>2. Written(at) = Key(0, at)
      BY <1>2, <1>4, WrittenExact
    <3>3. master' = Keys(Behind(at) \cup {at})
      BY <1>6, <3>1, <3>2, KeysOf
    <3> QED
      BY <1>8, <2>1, <3>1, <3>3
  <2>2. CASE ~(Here(at) /\ IsNvme(at))
    <3>1. active' = active /\ master' = master
      BY <2>2 DEF ScanFunction
    <3>2. active \in BOOLEAN
      BY DEF IInv, Control
    <3> QED
      BY <1>6, <1>8, <2>2, <3>1, <3>2
  <2> QED
    BY <2>1, <2>2
<1>10. Control'
  BY <1>1, <1>8, <1>9, Zenon DEF Control, Positions
<1>11. Enabled'
  <2>1. AtReached'
    BY <1>1, <1>8 DEF AtReached, Present
  <2>2. (master = Keys({l \in Targets : Before(l, at)}))'
    BY <1>1, <1>2, <1>9 DEF Behind
  <2> QED
    BY <1>1, <1>5, <1>9, <2>1, <2>2 DEF Enabled
<1>12. Listed'
  BY <1>1 DEF IInv, Listed
<1> QED
  BY <1>2, <1>3, <1>10, <1>11, <1>12 DEF IInv

LEMMA EndScanStep ==
    ASSUME IInv, EndScan, UNCHANGED <<listVars, bar0, first>>
    PROVE  IInv'
<1>1. /\ pc = "scan" /\ pc' = "kmain" /\ UNCHANGED hardware /\ ecam' = ecam /\ at' = at
      /\ discovered' = discovered /\ at.bus = Buses /\ master' = master /\ active' = active
  BY DEF EndScan, listVars, hardware, pcieVars
<1>2. Fixed' /\ Windows' = Windows /\ Targets' = Targets
  BY <1>1, HardwareSame DEF IInv
<1>3. Mapped'
  BY <1>1, <1>2 DEF Mapped, IInv
<1>4. Control'
  BY <1>1 DEF IInv, Control
<1>5. Enabled'
  <2>1. ~Scanned /\ Scanned' /\ pc' # "initialize"
    BY <1>1 DEF Scanned
  <2>2. master = Keys(Behind(at)) /\ (active <=> master # {})
    BY <2>1 DEF IInv, Enabled, Behind
  <2>3. at \in Positions
    BY DEF IInv, Control, Positions
  <2>4. Behind(at) = Targets
    BY <1>1, <2>3, WalkEnds
  <2>5. (master = Keys(Targets))'
    BY <1>1, <1>2, <2>2, <2>4
  <2> QED
    BY <1>1, <2>1, <2>2, <2>5 DEF Enabled
<1>6. Listed'
  BY <1>1 DEF IInv, Listed
<1> QED
  BY <1>2, <1>3, <1>4, <1>5, <1>6 DEF IInv

\* After the scan only the lists change.
LEMMA LaterStep ==
    ASSUME IInv, Scanned, UNCHANGED hardware, UNCHANGED pcieVars,
           pc' \in {"gaossd", "storage", "first", "running"}
    PROVE  /\ Fixed /\ Fixed' /\ Mapped' /\ Control' /\ Enabled'
           /\ Targets' = Targets /\ scan_all_buses' = scan_all_buses
           /\ active' = active /\ hw' = hw
<1>1. ecam' = ecam /\ at' = at /\ master' = master /\ active' = active /\ hw' = hw
  BY DEF pcieVars, hardware
<1>2. /\ Fixed /\ Fixed' /\ Windows' = Windows /\ Targets' = Targets
      /\ scan_all_buses' = scan_all_buses
  BY HardwareSame DEF IInv
<1>3. Mapped'
  BY <1>1, <1>2 DEF Mapped, IInv
<1>4. Control'
  BY <1>1 DEF IInv, Control
<1>5. Enabled'
  <2>1. Scanned' /\ pc' # "initialize"
    BY DEF Scanned
  <2>2. master = Keys(Targets) /\ (active <=> master # {})
    BY DEF IInv, Enabled
  <2>3. (master = Keys(Targets))'
    BY <1>1, <1>2, <2>2
  <2> QED
    BY <1>1, <2>1, <2>2, <2>3 DEF Enabled
<1> QED
  BY <1>1, <1>2, <1>3, <1>4, <1>5

\* find_nvme_bar0 goes by the same functions as the scan.
LEMMA FoundExact ==
    ASSUME Fixed, Mapped
    PROVE  {l \in Visited : IsNvme(l)} = Targets
<1>1. Visited = {l \in Locations : Here(l) /\ Here(First(l)) /\ (l.func = 0 \/ read32(First(l), 12))}
  BY DEF Visited, First
<1>2. ASSUME NEW l \in Locations
      PROVE  Here(l) /\ Here(First(l)) /\ (l.func = 0 \/ read32(First(l), 12)) /\ IsNvme(l)
               <=> Reached(l) /\ HasNvmeClass(l)
  <2>1. First(l) \in Locations
    BY FirstTyped
  <2>2. (Here(l) <=> Present(l)) /\ (Here(First(l)) <=> Present(First(l)))
    BY <2>1, SeenExact
  <2>3. Present(l) => (IsNvme(l) <=> HasNvmeClass(l))
    BY SeenExact
  <2>4. Present(First(l)) => read32(First(l), 12) = hw[Key(0, First(l))][12]
    BY <2>1, SeenExact
  <2> QED
    BY <2>2, <2>3, <2>4 DEF Reached
<1> QED
  BY <1>1, <1>2 DEF Targets

LEMMA BarExact ==
    ASSUME Fixed, Mapped, active, Targets # {}, NEW r, find_nvme_bar0(r)
    PROVE  \E l \in Targets : r[2] = hw[Key(0, l)][16].address
<1>1. NvmeFound = Targets
  BY FoundExact DEF NvmeFound
<1>2. PICK l \in Targets : r = Bar0(l)
  BY <1>1 DEF find_nvme_bar0
<1>3. l \in Locations /\ Present(l)
  BY DEF Targets, Reached
<1>4. read32(l, 16) = hw[Key(0, l)][16]
  BY <1>3, SeenExact
<1>5. Bar0(l)[2] = read32(l, 16).address
  BY DEF Bar0
<1> QED
  BY <1>2, <1>4, <1>5

LEMMA ScanAllStep == ASSUME IInv, ScanAllBuses PROVE IInv'
<1>1. /\ pc = "kmain" /\ pc' = "gaossd" /\ discovered' = scan_all_buses
      /\ UNCHANGED hardware /\ UNCHANGED pcieVars
  BY DEF ScanAllBuses
<1>2. Scanned
  BY <1>1 DEF Scanned
<1>3. Fixed' /\ Mapped' /\ Control' /\ Enabled' /\ scan_all_buses' = scan_all_buses
  BY <1>1, <1>2, LaterStep
<1>4. Listed'
  BY <1>1, <1>3 DEF Listed
<1> QED
  BY <1>3, <1>4 DEF IInv

LEMMA GaossdStep == ASSUME IInv, ConstructGaossd PROVE IInv'
<1>1. /\ pc = "gaossd" /\ pc' = "storage" /\ find_nvme_bar0(bar0') /\ discovered' = discovered
      /\ UNCHANGED hardware /\ UNCHANGED pcieVars
  BY DEF ConstructGaossd, listVars
<1>2. Scanned
  BY <1>1 DEF Scanned
<1>3. /\ Fixed /\ Fixed' /\ Mapped' /\ Control' /\ Enabled' /\ scan_all_buses' = scan_all_buses
      /\ Targets' = Targets /\ active' = active /\ hw' = hw
  BY <1>1, <1>2, LaterStep
<1>4. ASSUME active PROVE \E l \in Targets : bar0'[2] = hw[Key(0, l)][16].address
  <2>1. master # {} /\ master = Keys(Targets) /\ Mapped
    BY <1>2, <1>4 DEF IInv, Enabled
  <2>2. Targets # {}
    BY <2>1, KeysOf
  <2> QED
    BY <1>1, <1>3, <1>4, <2>1, <2>2, BarExact
<1>5. discovered = scan_all_buses
  BY <1>1 DEF IInv, Listed
<1>6. (active => \E l \in Targets : bar0[2] = hw[Key(0, l)][16].address)'
  BY <1>3, <1>4
<1>7. Listed'
  BY <1>1, <1>3, <1>5, <1>6 DEF Listed
<1> QED
  BY <1>3, <1>7 DEF IInv

\* GetStorageDevices, and every step that keeps what it says.
LEMMA ListedStep ==
    ASSUME IInv, UNCHANGED hardware, UNCHANGED pcieVars, bar0' = bar0,
           pc \in {"storage", "first", "running"}, pc' \in {"first", "running"},
           discovered' \in {discovered, scan_all_buses}, storage' = get_storage_devices
    PROVE  IInv'
<1>1. Scanned
  BY DEF Scanned
<1>2. /\ Fixed /\ Fixed' /\ Mapped' /\ Control' /\ Enabled' /\ scan_all_buses' = scan_all_buses
      /\ Targets' = Targets /\ active' = active /\ hw' = hw
  BY <1>1, LaterStep
<1>3. /\ discovered = scan_all_buses
      /\ active => \E l \in Targets : bar0[2] = hw[Key(0, l)][16].address
  BY DEF IInv, Listed
<1>4. discovered' = discovered
  BY <1>3
<1>5. get_storage_devices' = get_storage_devices
  BY <1>4, StorageSame
<1>6. (active => \E l \in Targets : bar0[2] = hw[Key(0, l)][16].address)'
  BY <1>2, <1>3
<1>7. Listed'
  BY <1>2, <1>3, <1>4, <1>5, <1>6 DEF Listed
<1> QED
  BY <1>2, <1>7 DEF IInv

LEMMA NextIInv == ASSUME IInv, [Next]_vars PROVE IInv'
<1>1. ASSUME pc \in {"first", "running"} PROVE storage = get_storage_devices
  BY <1>1 DEF IInv, Listed
<1>2. CASE initialize /\ UNCHANGED <<listVars, bar0, first>>
  BY <1>2, InitializeStep
<1>3. CASE ScanFunction /\ UNCHANGED <<listVars, bar0, first>>
  BY <1>3, ScanStep
<1>4. CASE EndScan /\ UNCHANGED <<listVars, bar0, first>>
  BY <1>4, EndScanStep
<1>5. CASE ScanAllBuses
  BY <1>5, ScanAllStep
<1>6. CASE ConstructGaossd
  BY <1>6, GaossdStep
<1>7. CASE GetStorageDevices
  BY <1>7, ListedStep DEF GetStorageDevices
<1>8. CASE ReadFirst
  BY <1>1, <1>8, ListedStep DEF ReadFirst, listVars
<1>9. CASE Rescan
  BY <1>1, <1>9, ListedStep DEF Rescan
<1>10. CASE Refill
  BY <1>10, ListedStep DEF Refill
<1>11. ASSUME NEW bus, get_devices_by_bus(bus) PROVE IInv'
  BY <1>1, <1>11, ListedStep DEF get_devices_by_bus
<1>12. ASSUME NEW type, get_devices_by_deduced_type(type) PROVE IInv'
  BY <1>1, <1>12, ListedStep DEF get_devices_by_deduced_type
<1>13. CASE UNCHANGED vars
  <2>1. /\ UNCHANGED hardware /\ UNCHANGED pcieVars /\ pc' = pc /\ discovered' = discovered
        /\ storage' = storage /\ bar0' = bar0
    BY <1>13 DEF vars, listVars
  <2>2. ecam' = ecam /\ at' = at /\ master' = master /\ active' = active /\ hw' = hw
    BY <2>1 DEF pcieVars, hardware
  <2>3. /\ Fixed' /\ Windows' = Windows /\ Targets' = Targets
        /\ scan_all_buses' = scan_all_buses /\ get_storage_devices' = get_storage_devices
    BY <2>1, HardwareSame, StorageSame DEF IInv
  <2>4. Mapped' /\ Control'
    BY <2>1, <2>2, <2>3 DEF IInv, Mapped, Control
  <2>5. AtReached <=> AtReached'
    BY <2>2 DEF AtReached, Present
  <2>6. Enabled'
    BY <2>1, <2>2, <2>3, <2>5 DEF IInv, Enabled, Scanned
  <2>7. Listed'
    BY <2>1, <2>2, <2>3 DEF IInv, Listed
  <2> QED
    BY <2>3, <2>4, <2>6, <2>7 DEF IInv
<1> QED
  BY <1>2, <1>3, <1>4, <1>5, <1>6, <1>7, <1>8, <1>9, <1>10, <1>11, <1>12, <1>13 DEF Next, Boot

LEMMA Invariant == Spec => []IInv
<1>1. Init => IInv
  BY InitIInv
<1>2. IInv /\ [Next]_vars => IInv'
  BY NextIInv
<1> QED
  BY <1>1, <1>2, PTL DEF Spec

-----------------------------------------------------------------------------
(* Theorems *)

LEMMA IInvTypeOK == IInv => TypeOK
<1> SUFFICES ASSUME IInv PROVE TypeOK
  OBVIOUS
<1>1. /\ Len(ecam) <= MaxECAMRegions /\ active \in BOOLEAN
      /\ at \in [bus : 0 .. Buses, slot : 0 .. Slots - 1, func : 0 .. Funcs - 1]
      /\ pc \in {"initialize", "scan", "kmain", "gaossd", "storage", "first", "running"}
  BY DEF IInv, Mapped, Control
<1>2. master \subseteq DOMAIN hw
  <2>1. master \subseteq Keys(Targets)
    BY DEF IInv, Enabled, Keys
  <2>2. \A l \in Targets : Key(0, l) \in DOMAIN hw
    BY TablesTyped DEF IInv, Targets
  <2> QED
    BY <2>1, <2>2 DEF Keys
<1>3. ASSUME NEW i \in DOMAIN discovered PROVE discovered[i].location \in Locations
  <2>1. discovered = <<>> \/ discovered = scan_all_buses
    BY <1>1 DEF IInv, Listed
  <2>2. discovered # <<>>
    OBVIOUS
  <2>3. discovered \in Seq(Infos)
    BY <2>1, <2>2, ScanExact DEF IInv
  <2>4. discovered[i] \in Infos
    BY <2>3
  <2> QED
    BY <2>4 DEF Infos, BusDeviceInfo
<1> QED
  BY <1>1, <1>2, <1>3 DEF TypeOK

\* The loop counters of the scan stay in their ranges, the map never holds more
\* regions than it has room for, and the scan of IBus lists functions of segment 0.
THEOREM TypeCorrect == Spec => []TypeOK
BY Invariant, IInvTypeOK, PTL

LEMMA IInvBusMasterExact == IInv => BusMasterExact
<1> SUFFICES ASSUME IInv, Scanned
             PROVE  /\ master = Keys(Targets)
                    /\ active <=> master # {}
  BY DEF BusMasterExact, Keys, Targets, Reached, HasNvmeClass, First
<1> QED
  BY DEF IInv, Enabled

\* scan_and_leach_resources enables bus mastering on exactly the NVMe functions of
\* segment 0 that are reached from function 0 of their slot, through whichever
\* windows the MCFG table describes.
THEOREM BusMastersExact == Spec => []BusMasterExact
BY Invariant, IInvBusMasterExact, PTL

LEMMA IInvDriverDeviceListed == IInv => DriverDeviceListed
<1> SUFFICES ASSUME IInv, pc \in {"first", "running"}, active
             PROVE  \E i \in DOMAIN storage :
                        /\ Key(0, storage[i].location) \in master
                        /\ storage[i].base_address = bar0[2]
  BY DEF DriverDeviceListed
<1>1. /\ discovered = scan_all_buses /\ storage = get_storage_devices
      /\ \E l \in Targets : bar0[2] = hw[Key(0, l)][16].address
  BY DEF IInv, Listed
<1>2. Fixed /\ Mapped /\ master = Keys(Targets)
  BY DEF IInv, Enabled, Scanned
<1>3. PICK l \in Targets : bar0[2] = hw[Key(0, l)][16].address
  BY <1>1
<1>4. PICK i \in DOMAIN storage : storage[i] = BusDeviceInfo(l)
  BY <1>1, <1>2, StorageHolds
<1>5. l \in Locations /\ Present(l) /\ Key(0, l) \in master
  BY <1>2 DEF Targets, Reached, Keys
<1>6. config_read32(l, 16) = hw[Key(0, l)][16]
  BY <1>2, <1>5, SeenExact
<1>7. storage[i].location = l /\ storage[i].base_address = hw[Key(0, l)][16].address
  BY <1>4, <1>6 DEF BusDeviceInfo
<1> QED
  BY <1>3, <1>5, <1>7

\* The function whose base address find_nvme_bar0 hands to gaossd is a bus master,
\* and get_storage_devices has it in its list: the scan through ECAM and the scan by
\* ports agree on it.
THEOREM DriverDeviceIsListed == Spec => []DriverDeviceListed
BY Invariant, IInvDriverDeviceListed, PTL

LEMMA StepStable == IInv /\ [Next]_vars => [pc = "running" => storage' = storage]_vars
<1> SUFFICES ASSUME IInv, Next, pc = "running" PROVE storage' = storage
  OBVIOUS
<1>1. storage = get_storage_devices
  BY DEF IInv, Listed
<1>2. ~Boot
  BY DEF Boot, initialize, ScanFunction, EndScan, ScanAllBuses, ConstructGaossd,
         GetStorageDevices, ReadFirst
<1> QED
  BY <1>1, <1>2 DEF Next, Rescan, Refill, get_devices_by_bus, get_devices_by_deduced_type

\* The list that kmain holds a reference to keeps its contents while AVFS::Init
\* scans again and has it filled again.
THEOREM StorageListStable == Spec => StorageStable
<1>1. IInv /\ [Next]_vars => [pc = "running" => storage' = storage]_vars
  BY StepStable
<1> QED
  BY <1>1, Invariant, PTL DEF Spec, StorageStable

=============================================================================
