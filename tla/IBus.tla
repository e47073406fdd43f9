-------------------------------- MODULE IBus --------------------------------
(***************************************************************************)
(* Device discovery (src/src/AlopexIBus/AlopexIBus.cpp) and its use by     *)
(* kmain.  IBus has a scan of its own, by ports alone and over all eight   *)
(* functions of each slot, besides the one of PCIe that its constructor    *)
(* runs.  It hands out references to lists that a later call fills again.  *)
(***************************************************************************)
EXTENDS Pcie

CONSTANTS Hardware      \* the machines: [hw, rsdt]

Regions == {w \in [segment : Nat, start : 0 .. 255, end : 0 .. 255, base : Nat] :
                w.start <= w.end /\ w.base % 2^12 = 0}
Disjoint(v, w) ==
    \/ v.base + (v.end - v.start + 1) * 2^20 <= w.base
    \/ w.base + (w.end - w.start + 1) * 2^20 <= v.base

\* A function that is there answers with its vendor and its header; the windows
\* that firmware describes start at a page and do not overlap.
ASSUME HardwareAssumption ==
    \A machine \in Hardware :
        /\ \A l \in Locations : Key(0, l) \in DOMAIN machine.hw
        /\ \A k \in DOMAIN machine.hw :
              machine.hw[k] # Absent => machine.hw[k][0] # Absent /\ machine.hw[k][12] \in BOOLEAN
        /\ machine.rsdt \in Seq({Absent} \cup [sig : STRING, entries : Seq(Regions)])
        /\ \A v, w \in WindowsOf(machine.rsdt) : v # w => Disjoint(v, w)

VARIABLES
    discovered,     \* _discovered_devices
    storage,        \* _storage_devices; kmain keeps a reference to it
    filtered,       \* _filtered_results
    bar0,           \* what the gaossd of kmain got from find_nvme_bar0
    first           \* what kmain read as storage_devices[0]

listVars == <<discovered, storage, filtered>>
vars == <<hardware, pcieVars, pc, listVars, bar0, first>>

Init ==
    /\ \E machine \in Hardware : hw = machine.hw /\ rsdt = machine.rsdt
    /\ ecam = <<>> /\ active = FALSE /\ master = {}
    /\ at = [bus |-> 0, slot |-> 0, func |-> 0]
    /\ pc = "initialize"
    /\ discovered = <<>> /\ storage = <<>> /\ filtered = <<>>
    /\ bar0 = <<0, 0>> /\ first = Absent

-----------------------------------------------------------------------------
(* Scanning *)

deduce_pci_type_Known(class) ==             \* mutant: only the known subclasses
    CASE class = <<1, 8, 2>> -> "NVME"
      [] class = <<1, 6, 1>> -> "AHCI_SATA"
      [] class[1] = 12 /\ class[2] = 3 -> "USB_HOST"
      [] OTHER -> "Unknown"
deduce_pci_type(class) ==
    CASE class = <<1, 8, 2>> -> "NVME"
      [] class = <<1, 6, 1>> -> "AHCI_SATA"
      [] class[1] = 1 /\ class \notin {<<1, 8, 2>>, <<1, 6, 1>>} -> "RAW_BLOCK_STORAGE"
      [] class[1] = 12 /\ class[2] = 3 -> "USB_HOST"
      [] OTHER -> "Unknown"

\* BusDeviceInfo: of the base address only the low half.
BusDeviceInfo(l) ==
    [bus_type |-> "PCIe", location |-> l, base_address |-> config_read32(l, 16).address,
     deduced_type |-> deduce_pci_type(config_read32(l, 8))]

\* All locations in the order of the loops.
InOrder ==
    [n \in 1 .. Buses * Slots * Funcs |->
        [bus |-> (n - 1) \div (Slots * Funcs), slot |-> ((n - 1) \div Funcs) % Slots,
         func |-> (n - 1) % Funcs]]

\* What a loop over s that appends the elements at some places leaves.
Selected(s, places) ==
    LET out[n \in 0 .. Len(s)] ==
            IF n = 0 THEN <<>>
            ELSE IF n \in places THEN Append(out[n - 1], s[n]) ELSE out[n - 1]
    IN  out[Len(s)]

scan_pci_bus(list) ==
    LET found == Selected(InOrder, {n \in DOMAIN InOrder : config_read32(InOrder[n], 0) # Absent})
    IN  list \o [i \in DOMAIN found |-> BusDeviceInfo(found[i])]

scan_all_buses == scan_pci_bus(<<>>)

StorageTypes == {"NVME", "AHCI_SATA", "RAW_BLOCK_STORAGE"}
StoragePlaces == {i \in DOMAIN discovered : discovered[i].deduced_type \in StorageTypes}
get_storage_devices_NoClear == storage \o Selected(discovered, StoragePlaces)     \* mutant
get_storage_devices == Selected(discovered, StoragePlaces)

-----------------------------------------------------------------------------
(* kmain, up to the call of format *)

ScanAllBuses ==
    /\ pc = "kmain"
    /\ discovered' = scan_all_buses
    /\ pc' = "gaossd"
    /\ UNCHANGED <<hardware, pcieVars, storage, filtered, bar0, first>>

ConstructGaossd ==
    /\ pc = "gaossd"
    /\ find_nvme_bar0(bar0')
    /\ pc' = "storage"
    /\ UNCHANGED <<hardware, pcieVars, listVars, first>>

GetStorageDevices ==
    /\ pc = "storage"
    /\ storage' = get_storage_devices
    /\ pc' = "first"
    /\ UNCHANGED <<hardware, pcieVars, discovered, filtered, bar0, first>>

\* storage_devices[0], of an empty list too: Absent stands for what is read then.
ReadFirst ==
    /\ pc = "first"
    /\ first' = IF storage = <<>> THEN Absent ELSE storage[1]
    /\ pc' = "running"
    /\ UNCHANGED <<hardware, pcieVars, listVars, bar0>>

-----------------------------------------------------------------------------
(* Later calls: AVFS::Init scans again and asks for the storage devices *)

Rescan ==
    /\ pc = "running"
    /\ discovered' = scan_all_buses
    /\ UNCHANGED <<hardware, pcieVars, pc, storage, filtered, bar0, first>>

Refill ==
    /\ pc = "running"
    /\ storage' = get_storage_devices
    /\ UNCHANGED <<hardware, pcieVars, pc, discovered, filtered, bar0, first>>

get_devices_by_bus(bus) ==
    /\ pc = "running"
    /\ filtered' = Selected(discovered, {i \in DOMAIN discovered : discovered[i].bus_type = bus})
    /\ UNCHANGED <<hardware, pcieVars, pc, discovered, storage, bar0, first>>

get_devices_by_deduced_type(type) ==
    /\ pc = "running"
    /\ filtered' = Selected(discovered,
                          {i \in DOMAIN discovered : discovered[i].deduced_type = type})
    /\ UNCHANGED <<hardware, pcieVars, pc, discovered, storage, bar0, first>>

Boot ==
    \/ initialize /\ UNCHANGED <<listVars, bar0, first>>
    \/ ScanFunction /\ UNCHANGED <<listVars, bar0, first>>
    \/ EndScan /\ UNCHANGED <<listVars, bar0, first>>
    \/ ScanAllBuses \/ ConstructGaossd \/ GetStorageDevices \/ ReadFirst

Next ==
    \/ Boot
    \/ Rescan \/ Refill
    \/ \E bus \in {"PCIe", "GPIO"} : get_devices_by_bus(bus)
    \/ \E type \in StorageTypes \cup {"USB_HOST"} : get_devices_by_deduced_type(type)

\* kmain is the only thread; nothing in it blocks.
Spec == Init /\ [][Next]_vars /\ WF_vars(Boot)

-----------------------------------------------------------------------------
(* Properties *)

TypeOK ==
    /\ Len(ecam) <= MaxECAMRegions
    /\ active \in BOOLEAN /\ master \subseteq DOMAIN hw
    /\ at \in [bus : 0 .. Buses, slot : 0 .. Slots - 1, func : 0 .. Funcs - 1]
    /\ pc \in {"initialize", "scan", "kmain", "gaossd", "storage", "first", "running"}
    /\ \A i \in DOMAIN discovered : discovered[i].location \in Locations

Scanned == pc \notin {"initialize", "scan"}
Present(l) == hw[Key(0, l)] # Absent

\* However much of segment 0 the MCFG table describes, and whatever it says of
\* other segments or leaves out, the scan enables bus mastering on exactly the
\* NVMe functions of segment 0 that can be reached from function 0 of their
\* slot, and on no function of another segment; it is active iff there is one.
BusMasterExact ==
    Scanned =>
        /\ master = {Key(0, l) : l \in
             {l \in Locations :
                /\ Present(l) /\ Present([l EXCEPT !.func = 0])
                /\ hw[Key(0, l)][8][1] = 1 /\ hw[Key(0, l)][8][2] = 8
                /\ l.func = 0 \/ hw[Key(0, [l EXCEPT !.func = 0])][12]}}
        /\ active <=> master # {}

\* The two scans agree on what the NVMe driver is given: the function whose base
\* address find_nvme_bar0 returns is a bus master, and the list of storage
\* devices that AVFS makes drives of holds it.
DriverDeviceListed ==
    pc \in {"first", "running"} /\ active =>
        \E i \in DOMAIN storage :
            /\ Key(0, storage[i].location) \in master
            /\ storage[i].base_address = bar0[2]

\* The list that kmain holds a reference to is not changed by later scans and
\* calls once it is filled.
StorageStable == [][pc = "running" => storage' = storage]_vars

\* Both scans come to an end and kmain goes on.
BootReturns == <>(pc = "running")

=============================================================================
