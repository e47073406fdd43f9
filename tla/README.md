# A TLA+ verification of AlopexOS

AlopexOS is a small freestanding x86-64 kernel in C++: it finds an NVMe
controller, initialises it, lays its own file system AbtrFS on it and offers
files through a virtual file system.  This directory models the parts of it in
which an error would be silent and expensive, checks them with TLC on small
instances and proves the central invariants with TLAPS for all instances.  Paths
below are relative to the repository root, which `PROJECT.json` calls `src/`.

## 1. The system

    kmain (main.cpp)
      |-- AlopexIBus ---- PCIe / ECAM / ACPI      what is on the bus
      |-- gaossd -------- NVMe::Controller::init   bring the controller up
      |     `-- submit_request, process_queue -> Controller::read / write
      |-- AbtrFS::format
      `-- AVFS  Init, mount, write, read, exists, dismount
            `-- a fresh AbtrFS object per call: mount_existing, then
                write_file / read_file / exists -> read_block / write_block
                  `-- gaossd -> Controller

The kernel has one thread and takes no interrupts.  What runs beside it is the
NVMe device: it reads and writes the rings and the data buffers by DMA while the
driver spins.  Nothing survives a boot, because `init` sends Format NVM and `kmain`
formats AbtrFS every time; so there is failure (a refused command) to model but
no recovery.

| Component | State | Operations | What makes it correct |
|---|---|---|---|
| NVMe I/O path (`src/PCI/nvme/nvme.cpp`) | two rings, `m_io_sq_tail`, `m_io_cq_head`, `m_io_cq_phase` | `read`, `write` | a call ends, with the completion of its own command; nothing of it is left in the device; errors are passed on |
| NVMe start-up (same file) | admin rings and indices, `m_initialized`, CC/CSTS | `init`, `enable`, six admin commands | success means both I/O queues exist; a repeated `init` is harmless; it ends |
| AbtrFS (`src/abtrfs/abtrfs.cpp`) | block 0, a chain of header and payload blocks; per call a copy of block 0 | `format`, `mount_existing`, `write_file`, `read_file`, `exists` | what was written is read; other files are untouched; a failing block damages no more than the file being written |
| Heap (`src/kernel/new.cpp`) | block headers in a 16 MiB buffer, free list | `new`, `delete` | live blocks do not overlap; nothing is lost; the free list is the set of free blocks |
| gaossd (`src/gaossd`) | device table, queue of request pointers | constructor, `submit_request`, `process_queue` | every request is served once by the device it names, no pointer outlives its request, no constructor formats a medium in use |
| AVFS (`src/AVFS`) | list of drives | `Init`, `mount`, `write`, `read`, `exists`, `dismount` | a path reaches the drive it names; only a formatted device is mounted |
| IBus, PCIe, ECAM, ACPI | lists of discovered devices, ECAM regions | `scan_all_buses`, `get_storage_devices`, `find_nvme_bar0`, config reads and writes | bus mastering goes to the NVMe functions and no other; the two scans agree; lists survive being refilled |
| SystemX | pointer to AVFS; the registers behind a call | `attachAVFS`, `syscall` and its handlers | a caller that sees Success has what it asked for, and keeps its buffer |
| dynarr, string | pointer, size, capacity, ownership; inline storage of short strings | constructors, assignments, growth, `append` | content is what was put there; each block has one owner |
| Display | list of screens, framebuffer geometry | `set_pixel`, `clear`, `draw_line`, `draw_rect`, `fill_rect` | stays inside the framebuffer; shapes are exact; lines end |

The behaviours that are hard here: the device working concurrently with the
polling loop; rings that wrap and keep the entries of the round before; a start-up
sequence that may fail at each of eight points and is called again, by every
`write_block`; a write of a file that is several block writes, each of which may fail;
virtual addresses that become physical ones by two different rules; queues of
pointers to stack frames; objects that share, move and borrow memory; long sequences
of allocations.  `PROJECT.json` lists them as hazards with their lines.

## 2. The modules

| Module | Models | Uses |
|---|---|---|
| `BlockDevice` | abstract: one request at a time, served or failed, then answered | |
| `NvmeIo` | the driver's I/O path and the device, down to ring entries, doorbells and phase bits | implements `BlockDevice` |
| `NvmeAdmin` | controller start-up and its repetition | |
| `Dma` | sector numbers, address translation and page pointers of a transfer | implements `BlockDevice` |
| `Gaossd` | the storage layer, `read_block` and `write_block` | over `BlockDevice`, implements `BlockDevice` |
| `FileStore` | abstract: a function from paths to byte strings | |
| `AbtrFS` | the file system block by block | implements `FileStore`, within limits |
| `Avfs` | kmain's start and the virtual file system | over `FileStore`, with its exceptions |
| `SystemX` | the system calls | extends `Avfs` |
| `Pcie`, `IBus` | ACPI, ECAM, the PCIe scan; IBus's own scan and lists | `IBus` extends `Pcie` |
| `Heap` | the allocator | |
| `Dynarr`, `BasicString` | the containers over blocks of memory | |
| `Containers` | some arrays and some strings, and what is said of both | instances of `Dynarr` and `BasicString` |
| `Display` | screens and drawing | |
| `NvmeIoProofs`, `NvmeAdminProofs`, `GaossdProofs`, `AbtrFSProofs`, `SystemXProofs`, `IBusProofs`, `HeapProofs`, `DisplayProofs` | theorems, each about the module it is named after; `NvmeIoProofs` also about `Dma`, `HeapProofs` also about `Containers` | extend it |
| `MC...` | instances for TLC | |

The storage stack is verified layer by layer, each layer against the promise of the one
below: `NvmeIo` and `Dma` show that the driver is a `BlockDevice`; `Gaossd`, built on a
`BlockDevice`, is one again; `AbtrFS`, whose blocks are moved by such a device, is
a `FileStore` until a file is to grow or an error is ignored; `Avfs` and `SystemX` are built on a `FileStore` with these exceptions.

Names in the modules are those of the source (`m_io_cq_phase`, `find_file_header`'s
`curr_block`, `free_list_head`); the map in `PROJECT.json` gives lines for every definition.

**NvmeIo.**  One call is the steps `Read`/`Write` (fill the slot, advance the tail),
`RingSqDoorbell`, `Consume` (the iteration of the loop that sees the phase it waits
for) and `RingCqDoorbell` (ring and return); iterations that see nothing are stuttering.
The device fetches an entry when the doorbell is ahead of it, executes it with
success or failure - transferring the whole block or nothing - and posts a
completion if the ring has room, as the NVMe protocol has it.  Device actions are
external, derived from what the driver relies on.  `issued` is a history variable, a
tag counted modulo `TagSpace`, that tells commands apart where the 16-bit command
identifier, which the driver never looks at, repeats.

**NvmeAdmin.**  `pc` and `step` are the place in `init`; the six commands, whose code
is six copies of one pattern, are the sequence `Commands` and two actions `Submit` and
`Poll`.  A failed command ends the call.  A later call resets the controller; the
device then starts at slot 0 of a submission ring that still has the old commands in it
and, since the driver keeps its tail, executes them again.  This is what the code
does, and the properties hold in spite of it: the driver waits at a slot of the completion
ring that is filled only after every replayed command has completed.  (Commands finish in any
order, so the first answer of a repeated attempt may belong to a replayed command.)

**Dma.**  What `NvmeIo` takes as one atomic transfer: `Call` is `read_block`/`write_block` with
`virt_to_phys` (kernel image first, then the direct map), the scaling of blocks to sectors and
the split of the sector number into two words; `Execute` is the device, which follows the
two page pointers of the command.  A cell stands for 512 bytes.  The device may refuse any
command.  A buffer may begin anywhere (`Mapped`), since the callers' buffers are on the stack, in the image and from `operator new`.
What the code promises then is stated over `Place` and `Named`, the memory that a command without second page pointer names: the
buffer to the end of the page it begins in, then the start of physical memory.  The boot loader is taken to answer the request for the kernel's address, as it always does.

**Gaossd.**  `kept` is kmain's object, `temp` the one that `write_block` builds for each block; both
have a device table (the number of its entries) and a queue of request pointers.  `Construct` includes
`Controller::init` by its outcomes: nothing if the controller is up, else success or failure, with the
medium formatted or not.  `submit_request`, `process_queue`, the work of the driver (a `BlockDevice`),
`Complete` and `ClearQueue` are steps, so that what each leaves behind is visible.

**AbtrFS.**  One step moves one block.  `Call` chooses the operation AVFS makes;
`mount_existing` reads block 0; `ScanBlock` and `ScanEnd` are `find_file_header`;
`LoadBlock` is the loop of `read_file`; `AllocateNew`/`AllocateMore` are the part of
`write_file` between the last read and the first write; `WriteHeader`, `WritePayload` and
`WriteSuper` are its writes, in its order.  A block of the device can be refused, and a
refused write may or may not have reached the medium.  `grewBlocks` is a history variable:
some file was given more blocks than it had.  `MCAbtrFS` adds another, `asStore`: nothing has
happened yet after which the code is no `FileStore` any more.

**Avfs and SystemX.**  `ConstructGaossd`, `Format` and `AvfsInit` are kmain's start; `Registration`
is the loop of `AVFS::Init`.  A path is a record of its parts, since the only question is how the drive's name is
cut out, trimmed and compared.  `write` and `read` end in a call of `FileStore`, which
`Serve` works on; `mount`, `dismount` and `exists` are one step.  `Serve` keeps the promise of `FileStore` only as far as AbtrFS does (`Kept`):
a write beyond the end of a file that needs no further block returns `Success` and leaves the file as long as it was (`CutShort`);
a write that takes blocks of the next file, and a refused block that is taken for an absent file, may be followed by any
answer, and from then on nothing is said of the files (`Strays`, `astray`).  A system call enters
through `Handler`, makes the AVFS call and comes back in `SysReturn`, which says what is then in `rcx`
- the handlers of `write` and `read` run a destructor behind the assembler statement that sets it, so that it may hold
anything, 0 for `Success` included (`Disturbed`) - and whether the caller's buffer has been deleted (`deleted`).  Dismounting only clears a flag that `write` and `read`
never look at; the model has it so.

**Pcie and IBus.**  Configuration space is a function from `<<segment, bus, slot, function>>` to registers.
The MCFG walk, the ECAM address computation and its decoding by the machine are modelled with the real shifts; a read
that finds all ones falls back to ports.  One step of the PCIe scan is one function; IBus's scan, which nothing can
interleave with, is one step.  As in the code, an MCFG base is the address of its start bus, ECAM memory is mapped one to one,
the programming interface is not looked at by the PCIe scan, and IBus keeps only the low half of a base address.

**Dynarr and BasicString.**  Objects and blocks of memory; each member function is an operator on the whole state, since members call
each other, and each call is one step.  `value` is what the caller expects of each object.  A source of `append` is an address, read
at the time the code reads it, so that appending a string to itself is not assumed to work.  An array over external memory may be
enlarged, assigned to and moved into like any other; the code then gives the memory it borrowed to `operator delete`, and copies `size_`
elements even into a smaller block.  Both are faults that the model records.  What the heap does with memory that is not
its own is not modelled: the calls end there (`Sound`).  Which system call does this to which buffer is in `SystemX`.

**Display.**  Coordinates are words that wrap at `Word`.  `clear`, `draw_rect` and `fill_rect` give the set of pixels
they write; `draw_line` is a loop of steps with its error term.  As in the code, its distances, its point and the error are
ints (`AsInt`: the upper half of the words is negative, and what leaves the range wraps, as it does in this build, which does not
optimise) while its directions come from comparing words.  All lines are drawn in the model; the properties are about those whose ends int
and word order alike and which are near enough for the error term (`Drawable`).

**Heap.**  A heap is a record of memory and list head, and the source's helper functions are
operators from heaps to heaps, so that `New` and `Delete` are one step each - there is one
thread.  The first `New` also runs `init_heap`.  Headers swallowed by `coalesce` stay in
`memory`, as they stay in the buffer.  When nothing fits, `operator new` halts the machine.

### Abstractions

- A block transfer is atomic in `NvmeIo`, `Gaossd` and `AbtrFS`, and moves the caller's buffer.  `Dma` looks inside it, with buffers anywhere,
  and shows that the buffer is what is moved only if it begins at a page.
- A payload block never begins with the two magic bytes of a header.  (The walk skips
  payload by the count in the header, so it meets one only behind a cut chain.)
- Paths are compared as wholes.  `LongPaths` are those of 255 characters and more, for
  which `is_path_equal` never says yes; `RootPaths` have no segment.
- The tree that `find_or_create_node` builds is never read and is left out.
- Byte strings are sequences over a small set; `MetaByte` stands for the bytes of a header
  or partition header read as payload.
- The size of a last block, a `u16`, holds 4096 without overflow; block counts are `u64`
  and bounded by the partition.
- kmain reads `storage_devices[0]` of an empty list when the bus has no storage.  What it reads is undefined; the models
  go on with no device, since a fault only ends the behaviour.

## 3. Runs

| Run | Shows |
|---|---|
| `nvme_io` | `OwnCompletion`: the completion taken is that of the call's own command. `NoDmaAfterReturn`: between calls the device holds no command. `QueueInv`: the inductive invariant of the proofs. `CallReturns` and `ImplementsBlockDevice`, under fairness |
| `nvme_admin` | `ReadyMeansUp`: `m_initialized` implies an enabled controller with both I/O queues, through every later call. `NothingOutstanding`: when the driver takes a completion the device has nothing left to do, replayed commands included, and that completion is the last one posted. `InitReturns` |
| `dma` | `ImplementsBlockDevice`: from buffers that begin anywhere, in the kernel image and elsewhere, exactly the block asked for is moved between the medium and the memory the command names - the buffer itself when it begins at a page. `OnlyBufferWritten`: the device writes no other memory: none outside a buffer that begins at a page; of any other the part up to the end of its page, and the start of physical memory by what lies beyond |
| `gaossd` | `QueueDrained`: no request pointer outlives the stack frame it points into. `WritesReachDevice`: a temporary object knows the device if the kept one does. `ImplementsBlockDevice`: whatever `init` answers each time, success means done and no constructor wipes a medium in use. `BlockOpReturns` |
| `abtrfs` | `StoreUntilGrowth`: calls are answered as by a store of byte strings - a write whose blocks are refused leaves old or new bytes at each place and may leave the file absent if it was new - until a write reaches beyond the end of a file or goes to a name too long to be found, or a read error is ignored. `ChainIntact`, `OthersUntouched` until a file is given more blocks. `CallReturns` |
| `system_calls` | `NameFindsDrive`: once the controller is up, its model number, however padded, leads to it, the default name if it has none. `MountedMeansFormatted`. `SuccessMeansDone`: Success in `rcx` after `mount` and `dismount`, and Success from AVFS after `write`, mean that it is done: a written file has every nonzero byte of the buffer, in order, up to the length it was created with, as long as AbtrFS has not run into another file or ignored a refused block |
| `ibus` | `BusMasterExact`: whatever the MCFG table describes or leaves out, bus mastering goes to exactly the NVMe functions of segment 0 that the scan can see. `DriverDeviceListed`: the function the driver is given is in the list AVFS makes drives of, although another scan by another mechanism made that list. `StorageStable`: the list kmain holds a reference to survives being refilled. `BootReturns` |
| `heap` | `NothingLost`: the headers walked from the start partition the buffer exactly. `FreeListExact`: the list, in both directions, is the set of free blocks. `LiveApart`: what was handed out is large enough and does not overlap |
| `containers` | `ContentsExact`, `BlocksOwnedOnce`: over arrays and strings, of arrays until external memory is deleted under one. `BorrowedLeftAlone`: that is done only by a call that gives the borrowing array other memory instead, never by its destructor, by emptying or shortening it, by copying it or moving it elsewhere. `StringsOrdered`: `<` and `==` are a total order |
| `display` | `StaysInside`, for all arguments but those for which the right edge of `fill_rect` wraps. `RectExact`. `LineAccurate`: a drawable line is never more than half a pixel off, nor outside the box of its ends, and twice its error term stays an int. `LineEnds`, of drawable lines |
| `abtrfs_neighbour`, `dma_unaligned` | two properties the code does not have; see below |

Each property of a passing run comes with a mutant, a plausible mistake in the code
(`..._NoHeader`, `PhaseKept` and so on, defined next to the original) under which TLC
finds it violated.  The modules whose `TypeOK` no run lists keep it as the statement of their variables' ranges.

### What the code does not do

Shown by runs:

- **Growing a file by a block destroys the next file** (`abtrfs_neighbour`).  The extra blocks are counted at the end of the
  partition and written behind the old payload (`abtrfs.cpp:257-304`).
- **A buffer that does not begin at a page is transferred only to the end of its page** (`dma_unaligned`).  The rest goes to or comes from
  physical page 0, because the second page pointer stays 0 (`nvme.cpp:475`).  AbtrFS's buffers are on the stack and from `operator new`, which
  aligns to 16 bytes; `serial.log:60` has the header with its second part missing.

Seen while modelling; each is in the model as the code has it, and the properties above are stated around it:

- A file cannot grow: `write_file` writes the header only of a new file (`abtrfs.cpp:281`), so a longer
  write returns `Success` and reads back short.
- A read error is "not found" (`abtrfs.cpp:180`), makes `write_file` create a duplicate, and an error in reading the old
  content clears it (`abtrfs.cpp:235`).
- A path of 255 characters or more is stored and never found (`abtrfs.cpp:164`, `276`).
- `AVFS::Init` compares addresses where it means to compare names (`avfs.cpp:119`): two storage devices are two drives of one name.
  Both lead to the same device, so paths still work.
- `AVFS::exists` never asks for the file (`avfs.cpp:432`); `AVFS::write` drops zero bytes (`avfs.cpp:352`); a read into an empty buffer
  delivers the whole file (`abtrfs.cpp:363`).
- If the first `init` fails and a later one succeeds, the medium is formatted and AVFS has no drive for it (`avfs.cpp:109`).
- `storage_devices[0]` is read of an empty list (`main.cpp:125`).
- A `dynarr` over external memory deletes that memory when it grows (`arr.hpp:325`) and copies all its elements into the new block even
  if that is smaller (`arr.hpp:314-331`); the `read` system call does this to the
  caller's buffer and leaves the bytes out of reach (`SystemX.cpp:87`).
- `push_back` of an element of the array itself reads it after the block is deleted (`arr.hpp:201`); no caller does.
- The destructor that runs behind the assembler statement may leave anything in `rcx` after `write` and `read` (`SystemX.cpp:77`, `89`), also
  the 0 of `Success` when AVFS answered with an error.  No property can hold of `rcx` there.
- `draw_line` takes distances from ints and directions from words (`display.cpp:60-67`): from an end at 2^31 or beyond, which a program gets
  by going left of 0, it walks away from the other end; and if the ends are too far apart for the error term it may miss it.  It then paints on
  until it happens to meet the end, if it ever does.
- Handlers without a body leave in `rcx` what was there (`SystemX.cpp:128`), and `os_arch` answers in `rcx` where `ABI.hpp:78` says `RAX`.
- `get_screen_size` of a screen without framebuffer reads through a null pointer (`display.cpp:32`); `fill_rect` with a right edge that wraps
  writes outside the row (`display.cpp:131`); `draw_rect` of no height at the top edge wraps (`display.cpp:104`).

### Bounds

- `NvmeIo`: rings of 3 instead of 64, so that the wrap and the phase flip
  come at every third command and in every alignment of the two rings; the driver has one command
  outstanding, so larger rings add no new situation, which is what the proof confirms.  Two
  blocks and two values tell a wrong block and a stale buffer apart.  `TagSpace` is one more than
  the ring, enough to tell all entries in memory apart.
- `NvmeAdmin`: rings of 16 and three calls.  `kmain` makes at most two real attempts - the gaossd it
  keeps, and the temporary one of the first `write_block`; after two failures AVFS has no device and
  asks nothing more - and they send at most twelve commands, so rings of 64 do not wrap either.
- `Dma`: pages of two cells, six frames with the image, a stack and page 0 apart; a buffer at a page and one beyond the start of a page in the
  image, and one beyond the start of a page on the stack; two blocks of which the second has a sector number with a high half (`Half` is 4 instead of 2^32).
- `Gaossd`: two blocks, two contents, one of them what a format leaves; every bus and every sequence of outcomes of `init`.
- `AbtrFS`: blocks of two bytes, so that lengths 1 to 4 cover one and two blocks, full and not; a partition of
  seven blocks, room for two files and for running out of it; a device of six, one less than the
  partition claims, since `format` writes a constant; one refused block, read or written; a name of each kind: the root, two files, and one
  that is too long to be found again.
- `SystemX`: a bus with no storage, and one with two devices of which one has the address in gaossd's table (0) and one differs, so that matching and fallback
  both happen; a model number and none; one file; buffers that come to one, two and three bytes without their zeros, in blocks of two, so that
  a later write fits, reaches beyond the end inside the block, or takes another block; all call numbers and one beyond on each side.
- `IBus`: two buses of one slot with two functions, a second segment; every choice of functions and four MCFG tables: none, complete, partial, and one with more
  entries than the map holds.
- `Containers`: two objects of each kind and three blocks; arrays of up to three elements grow twice; strings with one inline character move to
  the heap at two and grow there at five; an external memory of two cells, enough to be copied into a smaller block.
  Objects of a kind are symmetric, and so are blocks: a free block is chosen, but no state tells free blocks apart.
- `Display`: 3 x 2 pixels in rows of 4, words of five bits; coordinates and sizes 0, 1, 2, 5, 16, 28 and 31: on the screen, at its edges and off it,
  on both sides of the largest int, which is 15, and up to the largest word; so there are lines that are drawable and lines that are not, for each reason.
- `Heap`: 40 bytes with headers of 4 and alignment 2, at most six blocks, requests that round to 2, 4
  and 8: enough for splitting, refusal to split, coalescing, dead headers and exhaustion.

### Fairness

`NvmeIo` and `NvmeAdmin`: weak fairness of the driver, which is a single thread that nothing preempts, and of
the device, which serves every command in the end (it may fail it).  `AbtrFS`, `Gaossd`, `IBus` and `Display`: weak fairness
of the kernel's own steps, for the same reason; a block operation ends by `CallReturns` of `NvmeIo`.  Calls themselves are
never assumed to happen.  Deadlock is not checked in `Heap` (the machine halts when memory is exhausted) and in `NvmeAdmin`
(nothing is left to do after `MaxCalls`).

## 4. Proofs

All proofs are checked by tlapm with Z3, Zenon and LS4.

`NvmeIoProofs`, from `QueueDepth >= 2`, `TagSpace > QueueDepth` and a set of addresses that has 0:
`IInv = TypeOK /\ QueueInv` is inductive.  `OwnCompletion` alone is not: one has to know where the command
is.  `QueueInv` says that the completion ring is split at the head, entries before it carrying the phase waited
for last and those after it the opposite (`PhaseBits`), and that the one command of a call is in exactly one place -
at the doorbell, in the device, done, or in the ring - with the other places empty (`CallInv`).  From it
follow `CompletionIsOwn`, `BufferIsReleased` and, step by step, `ImplementsSafely`: every step of driver or device is a step
of `BlockDevice` or a stutter, the served request being the one the call made.

The same module proves what `NvmeIo` takes for granted, that a transfer is the block asked for, about an instance of `Dma`: for every page size, frame map, kernel image and
number of sectors per block, and buffers that begin anywhere, provided that they are in memory (`MappedBuffers`).
`BufferIsThere` and `PageIsNamed` show that the address in the first page pointer is that of the buffer whichever of the two rules of `virt_to_phys` applies,
and that device and kernel mean the same memory up to the end of its page; `HalvesJoin` that the
two words of the sector number join to it again; `BlocksApart` that two blocks share no sector.  From `TransferInv`, that the command in flight is the one of the call
(`CommandExact`), `ReadMoves` and `WriteMoves` give the step of the abstract device, hence `TransferImplementsBlockDevice`, and
`OnlyTheBufferIsWritten`.

`AbtrFSProofs`, for every block size, device and partition size, set of paths and of calls and number of refused
blocks: `IInv = TypeOK /\ HeaderKnown /\ ChainIntact /\ (~grewBlocks => Stage)`.  `ChainIntact` says nothing of a write under way;
`Stage` says, for each label of `write_file`, that the blocks being written are either payload of the file that was
found (`InPlace`) or lie at and behind the end of the chain (`AtEnd`, `NewWritten`), and `HeaderKnown` that the header
in memory is the one on the medium.  The lemma `HarmlessWrite` is the heart: a write of payload inside a file, or of anything
behind the end, keeps the chain; `CommitChain` then shows that the partition header write appends exactly one file.
`FilesKept` uses `FilesApart`, that two files of a chain share no block.

`StoreRefined` is the refinement of `FileStore`, about `MCAbtrFS` with its history variable `asStore`.  The invariant, `StoreInv`, says what a call
knows of its file: the search has passed no header of the path (`NoneBefore`); the header found is the first one (`TheFile`); the buffer is what
the file holds up to the block that comes next (`Loaded`); of a file being overwritten the blocks before `blk` are done and the expanded data differs from the
old content only where the call names bytes (`Overwrites`); of a new one they lie behind the end of the chain (`Creates`).  Since a step
is seen from both sides, the operators that look at the medium are restated for any medium (`HeadersOf`, `ContentOf`, `FileOf`), and three lemmas say what a write does to
all files: one behind the chain nothing (`WrittenBeyond`), one of payload changes those bytes of one file (`WrittenOver`), and the partition header
makes the new file appear (`Committed`).  Bytes are found in blocks by `DivMod` and `PlaceOf`, and `SizeOfNew` and `SizeAgain`
show that block count and size of the last block say the same as the length.  Each action then has a lemma that it is `Call`, `Patch` or `Return` of `FileStore`, or
changes nothing a caller sees.  Where the provisos of `asStore` come in: growth in `AllocateMoreStep`, long names
in `HeldIsThere`, ignored errors in `ScanStep` and `LoadStep`.

`NvmeAdminProofs`, for every number of calls and every depth of the admin rings greater than 12, twice the commands of
an attempt (the code has 64).  `ReadyMeansUp` says what holds when `init` has succeeded and nothing about how a second attempt
comes through the commands that the device repeats; `AdminInv` counts them.  Before success there are at most two attempts,
which move the rings by six entries each (`Attempts`, `Positions`); what was fetched and not answered is being worked on, and the number
of answers and of commands at work add up to the number fetched (`AtWork`, with cardinalities of finite sets); the phase bits from the
driver's head on say what was posted since the reset (`PhaseBits`).  So the slot the driver waits at is filled when nothing is left
at work, which is `NothingLeftOutstanding`.

`GaossdProofs`, for every medium, set of contents and bus: `GaossdInv` says which objects live when (`Lifetimes`), in whose queue the
pointer to the request is (`Pointers`), that objects have a device only after an `init` that succeeded (`Reachable`), and that the driver works for the
request of the call (`DriverWorksForCall`).  `GaossdImplementsBlockDevice` goes through the steps: the work of the driver is the step of the abstract device,
everything else stutters, formatting included, since it can only happen before the first call.

`HeapProofs`, for every buffer, header size, alignment and set of requests with a header that is a multiple of the alignment and smaller than the buffer.
The properties are about two walks, recursive functions in `Heap`; the invariant is about what they ought to find: there are a set `B` of blocks
that cuts the buffer without a gap (`Layout`), and a repetition-free list `L` of length `n`, linked in both directions (`Linked`), whose members are the
free blocks of `B` (`FreeLinked`), and the other blocks are held, one by one (`Held`).  `SplitGood`, `TakeGood`, `AddGood` and `GiveBackGood` follow the
helper functions of the source through it, with the new `B` and `L` as witnesses; headers swallowed by `coalesce` are in no `B` and
harmless.  `BlocksWalked` and `ListWalked` then show that the recursive walks find `B` and `L`.  They are inductions: a set of counterexamples
has a least element (`MinExists`, from the library's well-founded sets), which is refuted.

The second half of `HeapProofs` is about `Containers`, for any number of objects, more blocks than objects (growing holds one more for a moment), every set of values and every
inline capacity.  The properties are stated over reads through pointers; the invariants, `ArrayInv` and `StringInv`, over records: each live object has a record
whose cells begin with its value (`ArrayHolds`, `StringHolds`, the latter with terminator and room), no two have the same block, and every allocated block has an owner.
A call on an array over external memory that makes it grow breaks this for good: `ArrayNext` says that each call keeps `ArrayInv` or puts other memory in the place of
external memory that it deletes (`TakesOver`).  So what holds of every state is `ArrayFine`, the invariant or that fault, and `BorrowedIsLeftAlone` is the second half of `ArrayNext`.
`ArrayUpdate` and `StringUpdate` say when a change of one object keeps this for all; the members are then followed one by one, each as what it does to a state that
is as the invariant has it (`ArrayGrow`, `ArrayResize`, `ArrayAssign`, `StringAppend`), since they call each other in the middle of a step.  `StringAppend` reads
its source in the state in which the code reads it; that this is still what the caller meant when the source lies in the string itself, or in one that was not
cleared, is `StringViews`.  `LessIsTotal` takes the first position at which two strings differ (`MinExists` again).

`IBusProofs`, for every number of buses, slots and functions within 256, 32 and 8, every machine and every MCFG table whose windows start at a page
and do not overlap (`HardwareAssumption`).  `AddressDecoded` shows that the address built from the first region that covers a bus is decoded by the machine to the very function
meant, so that reads through ECAM and through ports agree (`ReadExact`).  `BusMasterExact` is about the end of a scan; the invariant `Enabled` says it of each moment: the bus masters are
exactly the targets that lie lexicographically before the loop counters, and `WalkStep` shows that each iteration moves that frontier by one function.  That the loops that fill the lists select exactly the functions
of a class, in order (`SelectedExact`, `InOrderExact`), are inductions; with them `DriverDeviceIsListed` compares the two scans, and `StorageListStable`
that refilling a list gives it again.

`SystemXProofs`, for every bus, model number, block size, set of paths and set of buffers; of `Absent`, which stands for the content of a file that is not there,
it is assumed that it is no sequence, and nothing of what a disturbed `rcx` holds.  gaossd's table has one device or none, so all drives have its name (`DriveTable`, with `RegisteredAll`, an induction over the storage devices) and
paths reach the first drive or none (`Retrieved`).  `ServesCall` ties the request in the file system to the call that made it, and `Answered` carries what `Success`
stands for from the moment AVFS has a code until the program goes on, in the code for `write` and `read` and in `rcx` for the others (`Told`): without it `SuccessMeansDone` is not inductive, since the code is set several steps before
`rcx`.  For `write`, `CleanDataExact`, an induction over the buffer, shows that the loop that drops zero bytes keeps the others in order; the
property is stated without that loop, by the number of bytes to keep before each.  `CutPatches` says what a write beyond the end of a file leaves of the buffer in it,
and `StoredHolds` that what `FileStore` or `CutShort` leave is what the property asks for; a step of `Strays` makes `astray` true and nothing more to be shown.

`DisplayProofs`, for every screen, word and argument: rectangles by arithmetic over `%` and the clipped extents; drawable lines by an invariant that gives the point by its
distances from the start along both axes and says that `err` is its distance from the line, one point ahead (`ErrorTerm`), and that this is at
most half a pixel (`Near`).  `NoOvershoot` and `StaysNear` are the two facts about the tests of the loop, over products of variables.

Every inductive invariant was checked by TLC on the instance of the run before it was proved, the parts that range over infinite sets left out.

Every invariant that a run checks is proved.  Only model-checked are:

- liveness (`CallReturns`, `InitReturns`, `BlockOpReturns`, `BootReturns`, `LineEnds`, and the fairness in `ImplementsBlockDevice` of `NvmeIo`), which the prover does not reach;
- the two violations, which are counterexamples.

## 5. Not modelled

Left out, and why: the Limine boot loader and its headers, the build scripts (third party, tooling); the C++ runtime
stubs and request records, the table of error names, `arr<T, N>` and `Expected` (no behaviour to get wrong over time); the former driver in
`src/drivers/nvme`, `AlopexOS.cpp`, `NVMe::Controller::reset` and `shutdown`, the 8 and 16 bit accessors of ECAM, `executeProgram` and the
permission flags (nothing calls them); the in-memory tree of `find_or_create_node` (nothing reads it); serial output.
No module runs all of `kmain`; its order is the control of `IBus`, of `Avfs` with `SystemX`, and of `Display`.

What would come next is a module of all of `kmain`, if the kernel ever does more than run its parts one after the other.

## 6. Running

    tlc -config NvmeIo.cfg MCNvmeIo
    tlapm AbtrFSProofs.tla

The longest runs (`abtrfs`, about 570,000 states, and `system_calls`, about 370,000) take a minute or two.
