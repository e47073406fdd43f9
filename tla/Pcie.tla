-------------------------------- MODULE Pcie --------------------------------
(***************************************************************************)
(* Configuration space and the PCIe scan (src/src/PCI/pcie.cpp,            *)
(* src/src/ACPI): the MCFG table is found in the RSDT and gives the memory *)
(* windows (ECAM) through which the registers of functions are reached;    *)
(* the ports CF8/CFC reach segment 0 without it.  The scan looks for NVMe  *)
(* functions and enables bus mastering on them, and find_nvme_bar0 later   *)
(* looks for the first one again.                                          *)
(*                                                                         *)
(* A function is at <<segment, bus, slot, func>>.  Its registers are known *)
(* by their offsets: 0 vendor and device, 8 the class codes, 12 the header *)
(* (TRUE for a multi-function device), 16 and 20 the first base address.   *)
(* Of the command register (4) the model keeps the bus master bit.         *)
(* Reading where nothing is gives all ones, here Absent.                   *)
(***************************************************************************)
EXTENDS Integers, Sequences

CONSTANTS
    Buses, Slots, Funcs,    \* the numbers of each (256, 32 and 8 in the code)
    MaxECAMRegions,
    Absent

ASSUME PcieAssumption ==
    /\ Buses \in 1 .. 256 /\ Slots \in 1 .. 32 /\ Funcs \in 1 .. 8
    /\ MaxECAMRegions \in Nat \ {0}

Locations == [bus : 0 .. Buses - 1, slot : 0 .. Slots - 1, func : 0 .. Funcs - 1]
Key(segment, l) == <<segment, l.bus, l.slot, l.func>>

VARIABLES
    hw,         \* [keys -> registers or Absent]
    rsdt,       \* the tables: [sig, entries]; Absent for a null pointer
    ecam,       \* g_ecam_map
    active,
    master,     \* the keys of the functions with bus mastering
    at,         \* the loop counters of the scan
    pc

hardware == <<hw, rsdt>>
pcieVars == <<ecam, active, master, at>>

-----------------------------------------------------------------------------
(* The hardware *)

Register(key, offset) ==
    IF key \in DOMAIN hw /\ hw[key] # Absent THEN hw[key][offset] ELSE Absent

\* The entries of all tables.
WindowsOf(tables) ==
    UNION {{t.entries[i] : i \in DOMAIN t.entries} :
             t \in {tables[i] : i \in DOMAIN tables} \ {Absent}}
Windows == WindowsOf(rsdt)
InWindow(w, a) == w.base <= a /\ a < w.base + (w.end - w.start + 1) * 2^20

\* The function that answers at an address of memory.
Decode(a) ==
    LET w == CHOOSE x \in Windows : InWindow(x, a)
        r == a - w.base
    IN  <<w.segment, w.start + r \div 2^20, (r \div 2^15) % 32, (r \div 2^12) % 8>>

-----------------------------------------------------------------------------
(* ACPI *)

\* Where a loop that returns what it finds stops.
FirstOf(places) == CHOOSE i \in places : \A j \in places : i <= j

\* The first table with the signature, null pointers left out.
locate_acpi_table_mcfg ==
    LET mcfgs == {i \in DOMAIN rsdt : rsdt[i] # Absent /\ rsdt[i].sig = "MCFG"}
    IN  IF mcfgs = {} THEN Absent ELSE rsdt[FirstOf(mcfgs)]

\* No more entries than the map has room for.
parse_mcfg(entries) ==
    SubSeq(entries, 1, IF Len(entries) < MaxECAMRegions THEN Len(entries) ELSE MaxECAMRegions)

Covers_AnySegment(region, segment, bus) == region.start <= bus /\ bus <= region.end   \* mutant
Covers(region, segment, bus) ==
    region.segment = segment /\ region.start <= bus /\ bus <= region.end

AddressIn(region, l, offset) ==
    region.base + (l.bus - region.start) * 2^20 + l.slot * 2^15 + l.func * 2^12 + offset

\* The first region that covers the bus gives the address; 0 for none.
get_device_address(segment, l, offset) ==
    LET found == {i \in DOMAIN ecam : Covers(ecam[i], segment, l.bus)}
    IN  IF found = {} THEN 0 ELSE AddressIn(ecam[FirstOf(found)], l, offset)

ECAM_read32(l, offset) ==
    LET a == get_device_address(0, l, offset)
    IN  IF a = 0 THEN Absent ELSE Register(Decode(a), a % 2^12)

-----------------------------------------------------------------------------
(* PCIe *)

config_read32(l, offset) == Register(Key(0, l), offset)

\* ECAM first, the ports if that gives all ones.
read32(l, offset) ==
    LET value == ECAM_read32(l, offset)
    IN  IF value # Absent THEN value ELSE config_read32(l, offset)

\* write32: the vendor register decides whether ECAM or the ports are used.
Written(l) ==
    IF ECAM_read32(l, 0) # Absent THEN Decode(get_device_address(0, l, 4)) ELSE Key(0, l)

\* Class 1, subclass 8; the programming interface is not looked at.
IsNvme(l) == read32(l, 8)[1] = 1 /\ read32(l, 8)[2] = 8

initialize ==
    /\ pc = "initialize"
    /\ ecam' = IF locate_acpi_table_mcfg = Absent THEN <<>>
               ELSE parse_mcfg(locate_acpi_table_mcfg.entries)
    /\ pc' = "scan"
    /\ UNCHANGED <<hardware, active, master, at>>

\* The counter of buses is a u16, so that it can reach the number of them.
NextBus_u8(bus) == (bus + 1) % Buses                    \* mutant
NextBus(bus) == (bus + 1) % 2^16
NextSlot(l) ==
    IF l.slot + 1 < Slots THEN [bus |-> l.bus, slot |-> l.slot + 1, func |-> 0]
    ELSE [bus |-> NextBus(l.bus), slot |-> 0, func |-> 0]
NextFunc(l) == IF l.func + 1 < Funcs THEN [l EXCEPT !.func = @ + 1] ELSE NextSlot(l)

Here(l) == read32(l, 0) # Absent

\* The loop over functions ends at function 0 if that is not there or is alone.
LeavesSlot(l) == l.func = 0 /\ (~Here(l) \/ ~read32(l, 12))

\* One round of scan_and_leach_resources.
ScanFunction ==
    /\ pc = "scan" /\ at.bus < Buses
    /\ IF Here(at) /\ IsNvme(at)
       THEN active' = TRUE /\ master' = master \cup {Written(at)}
       ELSE UNCHANGED <<active, master>>
    /\ at' = IF LeavesSlot(at) THEN NextSlot(at) ELSE NextFunc(at)
    /\ UNCHANGED <<hardware, ecam, pc>>

EndScan ==
    /\ pc = "scan" /\ at.bus = Buses
    /\ pc' = "kmain"
    /\ UNCHANGED <<hardware, pcieVars>>

\* The functions that this loop looks at.
Visited ==
    {l \in Locations :
        LET first == [l EXCEPT !.func = 0]
        IN  Here(l) /\ Here(first) /\ (l.func = 0 \/ read32(first, 12))}

Rank(l) == (l.bus * Slots + l.slot) * Funcs + l.func

\* find_nvme_bar0 goes the same way and stops at the first: <<high, low>> of its
\* base address, <<0, 0>> for none.
NvmeFound == IF active THEN {l \in Visited : IsNvme(l)} ELSE {}
Bar0(l) == <<IF read32(l, 16).wide THEN read32(l, 20) ELSE 0, read32(l, 16).address>>
find_nvme_bar0(result) ==
    \/ NvmeFound = {} /\ result = <<0, 0>>
    \/ \E l \in NvmeFound : result = Bar0(l) /\ \A m \in NvmeFound : Rank(l) <= Rank(m)

=============================================================================
