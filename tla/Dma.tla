--------------------------------- MODULE Dma ---------------------------------
(***************************************************************************)
(* The addresses of a block transfer.  AbtrFS::read_block and write_block  *)
(* turn a file-system block into sectors and the virtual address of a      *)
(* buffer into a physical one, NVMe::Controller::read and write put them   *)
(* into a command, and the device follows the command by the rules of the  *)
(* NVMe specification: dptr[0] names memory up to the end of its page, and *)
(* what is left of the transfer goes to the page named by dptr[1], which   *)
(* the driver leaves 0.                                                    *)
(*                                                                         *)
(* A cell stands for 512 bytes of memory and of a sector; the rings, which *)
(* carry the command, are NvmeIo.                                          *)
(***************************************************************************)
EXTENDS Naturals

CONSTANTS
    Cells,      \* contents of a cell
    Page,       \* cells in a page, which is also the sectors in a block (8)
    Frames,     \* pages of physical memory
    LBAs,       \* file-system blocks of the medium
    Half,       \* one more than the largest value of cdw10 (2^32)
    Hhdm,       \* virtual address at which all physical memory is mapped
    KVirt,      \* virtual address of the kernel image, above Hhdm
    KPhys,      \* physical address of the kernel image
    Answered,   \* whether the boot loader told the kernel KVirt and KPhys
    Buffers     \* the virtual addresses at which the kernel has block buffers

\* Physical memory, its image at Hhdm and the kernel image follow each other, all
\* from the start of a page; a transfer's count fits into 16 bits and a sector
\* number into the two halves.
Layout ==
    /\ Page \in 1 .. 2^16 /\ Half \in Nat \ {0}
    /\ {Frames, Hhdm, KVirt, KPhys} \subseteq Nat
    /\ Page * Frames <= Hhdm /\ Hhdm + Page * Frames <= KVirt
    /\ Hhdm % Page = 0 /\ KVirt % Page = 0 /\ KPhys % Page = 0
    /\ \A l \in LBAs : l \in Nat /\ l * Page < Half * Half

ASSUME DmaAssumption == Layout

VARIABLES
    mem,        \* physical memory
    medium,     \* sectors of the device
    at,         \* virtual address of the caller's buffer
    req,        \* the request of read_block or write_block, in file-system blocks
    sqe,        \* the command
    pc,         \* "idle", "submitted", "completed"
    status,     \* whether the command succeeded
    ret         \* what the last call returned

vars == <<mem, medium, at, req, sqe, pc, status, ret>>

Addresses == 0 .. Page * Frames - 1
Sectors == {l * Page + i : l \in LBAs, i \in 0 .. Page - 1}
Contents == [0 .. Page - 1 -> Cells]

-----------------------------------------------------------------------------
(* The memory as the kernel sees it *)

\* The page tables the boot loader leaves: the image at KVirt, all memory at Hhdm.
Translate(v) == IF v >= KVirt THEN v - KVirt + KPhys ELSE v - Hhdm
Target(v) == {Translate(v + i) : i \in 0 .. Page - 1}
Content(v) == [i \in 0 .. Page - 1 |-> mem[Translate(v + i)]]

\* A buffer for one block that is in memory from end to end, wherever it begins: on
\* the heap and on a stack, at any address; in the image, where the kernel knows that.
Mapped(v) ==
    /\ v \in Nat
    /\ IF v >= KVirt THEN Answered /\ v - KVirt + KPhys + Page <= Page * Frames
       ELSE v >= Hhdm /\ v - Hhdm + Page <= Page * Frames

Init ==
    /\ \E c \in Cells :
        /\ mem = [a \in Addresses |-> c]
        /\ medium = [s \in Sectors |-> c]
    /\ at \in Buffers
    /\ \E l \in LBAs : req = [opc |-> "read", lba |-> l]
    /\ sqe = [opc |-> "read", dptr |-> <<0, 0>>, cdw10 |-> 0, cdw11 |-> 0, cdw12 |-> 0]
    /\ pc = "idle" /\ status = TRUE /\ ret = "Success"

-----------------------------------------------------------------------------
(* The driver *)

virt_to_phys_HhdmFirst(v) == IF v >= Hhdm THEN v - Hhdm ELSE v       \* mutant: the other order
virt_to_phys(v) ==
    IF Answered /\ v >= KVirt THEN v - KVirt + KPhys
    ELSE IF v >= Hhdm THEN v - Hhdm
    ELSE v

\* An address that still looks virtual is translated once more.
PhysTarget(phys) == IF phys > Hhdm THEN virt_to_phys(phys) ELSE phys

Sector_Unscaled(l) == l                                 \* mutant: blocks are taken for sectors
Sector(l) == l * Page

\* The count is sent zero-based.
ZeroBased(count) == (count - 1) % 2^16

Command(opc, phys, lba, count) ==
    [opc |-> opc, dptr |-> <<PhysTarget(phys), 0>>,
     cdw10 |-> lba % Half, cdw11 |-> (lba \div Half) % Half, cdw12 |-> ZeroBased(count)]

\* read_block and write_block up to the doorbell; the writer has filled its buffer.
Call(opc, l, v, c) ==
    /\ pc = "idle"
    /\ pc' = "submitted"
    /\ at' = v
    /\ req' = [opc |-> opc, lba |-> l]
    /\ IF opc = "write"
       THEN mem' = [a \in Addresses |-> IF a \in Target(v)
                                        THEN c[CHOOSE i \in 0 .. Page - 1 : Translate(v + i) = a]
                                        ELSE mem[a]]
       ELSE UNCHANGED mem
    /\ sqe' = Command(opc, virt_to_phys(v), Sector(l), Page)
    /\ UNCHANGED <<medium, status, ret>>

Return ==
    /\ pc = "completed"
    /\ pc' = "idle"
    /\ ret' = IF status THEN "Success" ELSE "Generic_Error"
    /\ status' = TRUE
    /\ UNCHANGED <<mem, medium, at, req, sqe>>

-----------------------------------------------------------------------------
(* The device *)

\* The i-th cell of a transfer: in the page of the first pointer or of the second.
Pointed(i) ==
    LET room == Page - (sqe.dptr[1] % Page)
    IN  IF i < room THEN sqe.dptr[1] + i ELSE sqe.dptr[2] + (i - room)
Slba == sqe.cdw11 * Half + sqe.cdw10
Moved == 0 .. sqe.cdw12

Execute ==
    /\ pc = "submitted"
    /\ pc' = "completed"
    /\ \A i \in Moved : Slba + i \in Sectors /\ Pointed(i) \in Addresses
    /\ status' = TRUE
    /\ IF sqe.opc = "write"
       THEN /\ medium' = [s \in Sectors |->
                            IF s - Slba \in Moved /\ s >= Slba THEN mem[Pointed(s - Slba)] ELSE medium[s]]
            /\ UNCHANGED mem
       ELSE /\ mem' = [a \in Addresses |->
                            IF \E i \in Moved : Pointed(i) = a
                            THEN medium[Slba + (CHOOSE i \in Moved : Pointed(i) = a)]
                            ELSE mem[a]]
            /\ UNCHANGED medium
    /\ UNCHANGED <<at, req, sqe, ret>>

\* Any command may fail, and one that names sectors or memory that do not exist does.
Refuse ==
    /\ pc = "submitted"
    /\ pc' = "completed"
    /\ status' = FALSE
    /\ UNCHANGED <<mem, medium, at, req, sqe, ret>>

Next ==
    \/ \E opc \in {"read", "write"}, l \in LBAs, v \in Buffers, c \in Contents : Call(opc, l, v, c)
    \/ Execute
    \/ Refuse
    \/ Return

Spec == Init /\ [][Next]_vars

-----------------------------------------------------------------------------
(* Properties *)

\* Pointers stay inside memory and a command moves one block.
TypeOK ==
    /\ mem \in [Addresses -> Cells] /\ medium \in [Sectors -> Cells]
    /\ at \in Buffers
    /\ req \in [opc : {"read", "write"}, lba : LBAs]
    /\ sqe.dptr[1] \in Addresses /\ sqe.cdw10 \in 0 .. Half - 1 /\ sqe.cdw12 < Page
    /\ pc \in {"idle", "submitted", "completed"} /\ status \in BOOLEAN

Block(l) == [i \in 0 .. Page - 1 |-> medium[l * Page + i]]
Phase == IF pc = "idle" THEN "idle" ELSE IF pc = "submitted" THEN "busy" ELSE "served"

\* The memory that a command with no second page names for a buffer, cell by cell: the
\* buffer up to the end of the page it begins in, then the start of physical memory.
\* It is the buffer itself when that begins at a page.
Room(v) == Page - (v % Page)
Place(v, i) == IF i < Room(v) THEN Translate(v + i) ELSE i - Room(v)
Named(v) == [i \in 0 .. Page - 1 |-> mem[Place(v, i)]]

Promise == INSTANCE BlockDevice
             WITH Values <- Contents,
                  media <- [l \in LBAs |-> Block(l)],
                  buffer <- Named(at),
                  phase <- Phase,
                  outcome <- status

\* From buffers anywhere, in the kernel image and outside it, the commands of
\* read and write move exactly the block that was asked for, between that block
\* and the memory they name; for a buffer that begins at a page this is the
\* memory the kernel sees at its address.
ImplementsBlockDevice == Promise!SafeSpec

\* While it serves a call the device writes the buffer no further than to the
\* end of the page it begins in, and of all other memory only as many cells at
\* the start of physical memory as the buffer has beyond that page: none for a
\* buffer that begins at a page.
OnlyBufferWritten ==
    [][pc = "submitted" =>
         \A a \in Addresses :
           mem'[a] # mem[a] =>
             \/ \E i \in 0 .. Room(at) - 1 : a = Translate(at + i)
             \/ a < at % Page]_vars

\* A transfer that returned Success left buffer and block the same, wherever
\* the buffer begins.
BlockMoved == pc = "completed" /\ status => Content(at) = Block(req.lba)

=============================================================================
