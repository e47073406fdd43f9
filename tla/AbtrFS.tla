------------------------------- MODULE AbtrFS -------------------------------
(***************************************************************************)
(* The file system AbtrFS (src/src/abtrfs/abtrfs.cpp) on a block device    *)
(* that may refuse a block.                                                *)
(*                                                                         *)
(* Block 0 is the partition header; from block 1 on the partition is a     *)
(* chain of files, each a header block followed by its payload blocks.     *)
(* There is no directory and no allocation map: a file is found by walking *)
(* the chain, and the number of used blocks, total minus free, is both the *)
(* end of the chain and the place of the next file.                        *)
(*                                                                         *)
(* One action is one block moved, so that an error can come between any    *)
(* two of them.  Every call comes from AVFS, which builds an AbtrFS        *)
(* object, calls mount_existing and then the operation, and drops the      *)
(* object: the variables of a call are those of one such object.           *)
(*                                                                         *)
(* A block is moved entirely or not at all (BlockDevice), a payload block  *)
(* does not begin with the magic number of a header, and names are         *)
(* compared as wholes; which names are the same is is_path_equal.          *)
(***************************************************************************)
EXTENDS Naturals, Sequences

CONSTANTS
    BLOCK,          \* ABTRFS_HEADER_BLOCK_SIZE, 4096 in format.hpp
    TotalBlocks,    \* header.total_blocks, 204800 in format()
    DevBlocks,      \* what the device really has
    Bytes, MetaByte,
    Paths,
    RootPaths,      \* paths with no segment for chopPath to find
    LongPaths,      \* paths of 255 characters or more
    Calls,          \* [op, path, data, off, max]
    FaultKinds,     \* subset of {"read", "write"}
    MaxFaults,      \* bound: blocks the device refuses in a behaviour
    NoHeader, Absent

ASSUME SizesAssumption ==
    /\ BLOCK \in Nat \ {0}
    /\ TotalBlocks \in Nat \ {0}
    /\ DevBlocks \in Nat \ {0}
    /\ MaxFaults \in Nat
ASSUME BytesAssumption == 0 \in Bytes /\ MetaByte \in Bytes
ASSUME PathsAssumption == RootPaths \subseteq Paths /\ LongPaths \subseteq Paths
ASSUME CallsAssumption ==
    Calls \subseteq [op : {"write", "read", "exists"}, path : Paths,
                     data : Seq(Bytes), off : Nat, max : Nat]

Blocks == 0 .. DevBlocks - 1

\* A block is told apart by its magic number.
Superblocks == [kind : {"super"}, free : 0 .. TotalBlocks - 1]
Headers == [kind : {"header"}, path : Paths, count : Nat \ {0},
            size : 1 .. BLOCK, off : Nat \ {0, 1}]
Payloads == [kind : {"data"}, bytes : [1 .. BLOCK -> Bytes]]
Contents == Superblocks \cup Headers \cup Payloads

ASSUME NoHeaderAssumption == NoHeader \notin Headers
ASSUME AbsentAssumption == Absent \notin Seq(Bytes)

VARIABLES
    disk,               \* [Blocks -> Contents]
    pc,                 \* where the call is
    call,               \* the current or last call
    free_blocks_count,  \* of _partition_header, the object's copy of block 0
    curr_block,         \* of find_file_header
    file_header,        \* what it found, or NoHeader
    buffer,             \* the bytes read_file has collected
    expanded_data,
    blk,                \* loop counter over payload blocks
    ret, result,        \* what the last call returned, "none" before the first
    faults,             \* blocks refused so far
    grewBlocks          \* history: some file was given more blocks

locals == <<free_blocks_count, curr_block, file_header, buffer, expanded_data, blk>>
vars == <<disk, pc, call, locals, ret, result, faults, grewBlocks>>

ZeroPayload == [kind |-> "data", bytes |-> [k \in 1 .. BLOCK |-> 0]]

\* The state of kmain before it formats: NVMe::Controller::init has just
\* formatted the namespace, and a formatted namespace reads as zeros.
Init ==
    /\ disk = [b \in Blocks |-> ZeroPayload]
    /\ pc = "boot"
    /\ call \in Calls
    /\ free_blocks_count = 0 /\ curr_block = 0 /\ file_header = NoHeader
    /\ buffer = <<>> /\ expanded_data = <<>> /\ blk = 0
    /\ ret = "none" /\ result = <<>>
    /\ faults = 0
    /\ grewBlocks = FALSE

-----------------------------------------------------------------------------
(* The device under read_block and write_block *)

Refuse(kind) ==
    /\ kind \in FaultKinds
    /\ faults < MaxFaults
    /\ faults' = faults + 1

read_block(b, ok) ==
    IF b \in Blocks
    THEN (ok /\ UNCHANGED faults) \/ (~ok /\ Refuse("read"))
    ELSE ~ok /\ UNCHANGED faults

\* A refused write may have reached the medium all the same.
write_block(b, content, ok) ==
    LET landed == [disk EXCEPT ![b] = content]
    IN  IF b \in Blocks
        THEN \/ ok /\ disk' = landed /\ UNCHANGED faults
             \/ ~ok /\ disk' \in {disk, landed} /\ Refuse("write")
        ELSE ~ok /\ UNCHANGED <<disk, faults>>

-----------------------------------------------------------------------------
(* Arithmetic and layout *)

\* total_blocks - free_blocks_count, of the object and of the medium
used_blocks == TotalBlocks - free_blocks_count
UsedOnDisk == IF disk[0].kind = "super" THEN TotalBlocks - disk[0].free ELSE 0

assigned_header_block_LastUsed == used_blocks - 1   \* mutant: one block too low
assigned_header_block == used_blocks

BlocksFor(n) == (n + BLOCK - 1) \div BLOCK

\* What a new file of n payload blocks takes.
BlocksTaken_NoHeader(n) == n                        \* mutant: the header is not counted
BlocksTaken(n) == 1 + n

TotalSize(h) == (h.count - 1) * BLOCK + h.size

LastBlockSize_Remainder(n) == n % BLOCK             \* mutant: a full block has size 0
LastBlockSize(n) == IF n % BLOCK = 0 THEN BLOCK ELSE n % BLOCK

\* A stored path is cut to 255 characters, and the comparison gives up before
\* it has seen the end of one that long.
is_path_equal(path, header) == path = header.path /\ path \notin LongPaths

\* How far find_file_header moves on from a block that is not the one.
Skip_OnlyHeaders(block) ==                          \* mutant: stays on a payload block
    IF block.kind = "header" THEN 1 + block.count ELSE 0
Skip(block) == IF block.kind = "header" THEN 1 + block.count ELSE 1

\* What a payload read delivers, whatever the block is.
BytesOf(block) ==
    IF block.kind = "data" THEN block.bytes ELSE [k \in 1 .. BLOCK |-> MetaByte]

-----------------------------------------------------------------------------
(* The end of a call *)

Return(code, bytes) ==
    /\ pc' = "idle"
    /\ ret' = code
    /\ result' = bytes
    /\ free_blocks_count' = 0 /\ curr_block' = 0 /\ file_header' = NoHeader
    /\ buffer' = <<>> /\ expanded_data' = <<>> /\ blk' = 0
    /\ UNCHANGED <<call, grewBlocks>>

Goto(label) ==
    /\ pc' = label
    /\ UNCHANGED <<call, ret, result>>

-----------------------------------------------------------------------------
(* Formatting, calls and mounting *)

\* kmain formats at every boot and goes on even if that failed.
format(ok) ==
    /\ pc = "boot"
    /\ write_block(0, [kind |-> "super", free |-> TotalBlocks - 1], ok)
    /\ Goto("idle")
    /\ UNCHANGED <<locals, grewBlocks>>

\* The headers that find_file_header can find for a path.
HeaderBlocks(p) ==
    {b \in 1 .. UsedOnDisk - 1 :
        b \in Blocks /\ disk[b].kind = "header" /\ is_path_equal(p, disk[b])}

Call(c) ==
    /\ pc = "idle"
    /\ pc' = "mount"
    /\ call' = c
    /\ UNCHANGED <<disk, locals, ret, result, faults, grewBlocks>>

\* mount_existing, then the checks that every operation begins with.
mount_existing(ok) ==
    /\ pc = "mount"
    /\ read_block(0, ok)
    /\ UNCHANGED disk
    /\ IF ~ok \/ disk[0].kind # "super" THEN Return("DeviceNotMounted", <<>>)
       ELSE IF call.path \in RootPaths THEN Return("InvalidPath", <<>>)
       ELSE /\ free_blocks_count' = disk[0].free
            /\ curr_block' = 1
            /\ Goto(IF call.op = "read" THEN "rscan" ELSE "find")
            /\ UNCHANGED <<file_header, buffer, expanded_data, blk, grewBlocks>>

-----------------------------------------------------------------------------
(* find_file_header.  "find" is the search of write_file and exists, "rscan"  *)
(* that of read_file, which write_file calls for the old content.             *)

NotFound ==
    IF call.op = "write"
    THEN /\ Goto("alloc")
         /\ UNCHANGED <<locals, grewBlocks>>
    ELSE Return("FileNotFound", <<>>)

\* write_file goes on to read the old content; read_file to load payload blocks,
\* from the one that read_offset falls into (0 when write_file is the caller).
ReadOffset == IF call.op = "read" THEN call.off ELSE 0

Found(header) ==
    IF pc = "find" /\ call.op = "exists" THEN Return("Success", <<>>)
    ELSE IF pc = "rscan" /\ ReadOffset >= TotalSize(header) THEN Return("Success", <<>>)
    ELSE /\ file_header' = header
         /\ IF pc = "find"
            THEN Goto("rscan") /\ curr_block' = 1 /\ UNCHANGED blk
            ELSE Goto("rload") /\ blk' = ReadOffset \div BLOCK /\ UNCHANGED curr_block
         /\ UNCHANGED <<free_blocks_count, buffer, expanded_data, grewBlocks>>

ScanBlock(ok) ==
    /\ pc \in {"find", "rscan"}
    /\ curr_block < used_blocks
    /\ read_block(curr_block, ok)
    /\ UNCHANGED disk
    /\ IF ~ok THEN NotFound
       ELSE IF disk[curr_block].kind = "header" /\ is_path_equal(call.path, disk[curr_block])
            THEN Found(disk[curr_block])
       ELSE /\ curr_block' = curr_block + Skip(disk[curr_block])
            /\ Goto(pc)
            /\ UNCHANGED <<free_blocks_count, file_header, buffer, expanded_data, blk, grewBlocks>>

ScanEnd ==
    /\ pc \in {"find", "rscan"}
    /\ curr_block >= used_blocks
    /\ NotFound
    /\ UNCHANGED <<disk, faults>>

-----------------------------------------------------------------------------
(* read_file: the loop over payload blocks *)

BytesToRead ==
    LET avail == TotalSize(file_header) - ReadOffset
    IN  IF call.op = "read" /\ call.max > 0 /\ call.max < avail THEN call.max ELSE avail

\* The part of a payload block that belongs to what was asked for.
Piece(block) ==
    LET from == IF buffer = <<>> THEN ReadOffset % BLOCK ELSE 0
        left == BytesToRead - Len(buffer)
        upto == IF from + left < BLOCK THEN from + left ELSE BLOCK
    IN  SubSeq(BytesOf(block), from + 1, upto)

LoadBlock(ok) ==
    /\ pc = "rload"
    /\ read_block(file_header.off + blk, ok)
    /\ UNCHANGED disk
    /\ LET bytes == buffer \o Piece(disk[file_header.off + blk])
           last == Len(bytes) >= BytesToRead \/ blk + 1 >= file_header.count
       IN  IF ~ok
           THEN IF call.op = "read" THEN Return("IOError", <<>>)
                ELSE /\ buffer' = <<>>
                     /\ Goto("alloc")
                     /\ UNCHANGED <<free_blocks_count, curr_block, file_header,
                                    expanded_data, blk, grewBlocks>>
           ELSE IF last /\ call.op = "read" THEN Return("Success", bytes)
           ELSE /\ buffer' = bytes
                /\ blk' = blk + 1
                /\ Goto(IF last THEN "alloc" ELSE "rload")
                /\ UNCHANGED <<free_blocks_count, curr_block, file_header,
                               expanded_data, grewBlocks>>

-----------------------------------------------------------------------------
(* write_file: allocation, then header, payload and partition header *)

file_exists == file_header # NoHeader

final_size ==
    LET target == call.off + Len(call.data)
        existing == IF file_exists THEN TotalSize(file_header) ELSE 0
    IN  IF target > existing THEN target ELSE existing

\* Zeros, over them the old content as far as it could be read, and the data.
Expanded_OverZeros ==                               \* mutant: the old content is not kept
    [i \in 1 .. final_size |->
        IF call.off < i /\ i <= call.off + Len(call.data) THEN call.data[i - call.off] ELSE 0]
Expanded ==
    [i \in 1 .. final_size |->
        IF call.off < i /\ i <= call.off + Len(call.data) THEN call.data[i - call.off]
        ELSE IF i <= Len(buffer) THEN buffer[i] ELSE 0]

NewHeader(offset) ==
    [kind |-> "header", path |-> call.path, count |-> BlocksFor(final_size),
     size |-> LastBlockSize(final_size), off |-> offset]

Prepared(header, taken) ==
    /\ file_header' = header
    /\ free_blocks_count' = free_blocks_count - taken
    /\ expanded_data' = Expanded
    /\ blk' = 0
    /\ buffer' = <<>>
    /\ UNCHANGED curr_block

AllocateNew ==
    LET n == BlocksFor(final_size)
    IN  /\ pc = "alloc" /\ ~file_exists
        /\ UNCHANGED <<disk, faults>>
        /\ IF final_size = 0 THEN Return("InvalidParameters", <<>>)
           ELSE IF \/ free_blocks_count < BlocksTaken(n)
                   \/ assigned_header_block + 1 + n > TotalBlocks
                THEN Return("NoSpaceLeft", <<>>)
           ELSE /\ Prepared(NewHeader(assigned_header_block + 1), BlocksTaken(n))
                /\ Goto("header")
                /\ UNCHANGED grewBlocks

\* The header of an existing file is brought up to date in memory only.
AllocateMore ==
    LET n == BlocksFor(final_size)
        extra == IF n > file_header.count THEN n - file_header.count ELSE 0
    IN  /\ pc = "alloc" /\ file_exists
        /\ UNCHANGED <<disk, faults>>
        /\ IF free_blocks_count < extra THEN Return("NoSpaceLeft", <<>>)
           ELSE /\ Prepared(NewHeader(file_header.off), extra)
                /\ Goto("payload")
                /\ grewBlocks' = (grewBlocks \/ extra > 0)

\* After a refused block the call is over.
WriteStep(b, content, ok, label) ==
    /\ write_block(b, content, ok)
    /\ IF ~ok THEN Return("WriteFailed", <<>>)
       ELSE /\ Goto(label)
            /\ UNCHANGED <<free_blocks_count, curr_block, file_header, buffer,
                           expanded_data, grewBlocks>>

WriteHeader(ok) ==
    /\ pc = "header"
    /\ WriteStep(file_header.off - 1, file_header, ok, "payload")
    /\ ok => UNCHANGED blk

\* The b-th block of the expanded data, zeros after its end.
Chunk(b) ==
    [kind |-> "data",
     bytes |-> [k \in 1 .. BLOCK |->
                  IF b * BLOCK + k <= Len(expanded_data) THEN expanded_data[b * BLOCK + k]
                  ELSE 0]]

WritePayload(ok) ==
    /\ pc = "payload"
    /\ WriteStep(file_header.off + blk, Chunk(blk), ok,
                 IF blk + 1 < file_header.count THEN "payload" ELSE "super")
    /\ ok => blk' = blk + 1

WriteSuper(ok) ==
    /\ pc = "super"
    /\ write_block(0, [kind |-> "super", free |-> free_blocks_count], ok)
    /\ Return(IF ok THEN "Success" ELSE "WriteFailed", <<>>)

-----------------------------------------------------------------------------
Step ==
    \/ ScanEnd
    \/ AllocateNew
    \/ AllocateMore
    \/ \E ok \in BOOLEAN :
          \/ format(ok)
          \/ mount_existing(ok)
          \/ ScanBlock(ok)
          \/ LoadBlock(ok)
          \/ WriteHeader(ok)
          \/ WritePayload(ok)
          \/ WriteSuper(ok)

Next == Step \/ \E c \in Calls : Call(c)

Spec == Init /\ [][Next]_vars

\* The kernel has one thread: a call that can go on does.
FairSpec == Spec /\ WF_vars(Step)

-----------------------------------------------------------------------------
(* Properties *)

Labels == {"boot", "idle", "mount", "find", "rscan", "rload", "alloc",
           "header", "payload", "super"}
Codes == {"none", "Success", "FileNotFound", "DeviceNotMounted", "InvalidPath",
          "InvalidParameters", "NoSpaceLeft", "WriteFailed", "IOError"}

TypeOK ==
    /\ disk \in [Blocks -> Contents]
    /\ pc \in Labels
    /\ call \in Calls
    /\ free_blocks_count \in 0 .. TotalBlocks - 1
    /\ curr_block \in Nat
    /\ file_header \in Headers \cup {NoHeader}
    /\ buffer \in Seq(Bytes) /\ expanded_data \in Seq(Bytes) /\ result \in Seq(Bytes)
    /\ blk \in Nat
    /\ ret \in Codes
    /\ faults \in 0 .. MaxFaults
    /\ grewBlocks \in BOOLEAN

\* The chain that find_file_header walks: every committed file is a header and
\* its payload blocks, the next file follows at once, and the last one ends
\* where the used blocks end.  No refused block, and no call that gave up half
\* way, breaks it; giving a file more blocks does.
ChainFrom(b) ==
    \/ b = UsedOnDisk
    \/ /\ b < UsedOnDisk
       /\ disk[b].kind = "header"
       /\ disk[b].off = b + 1
       /\ b + 1 + disk[b].count <= UsedOnDisk
       /\ \A d \in b + 1 .. b + disk[b].count : disk[d].kind = "data"
ChainIntact ==
    ~grewBlocks /\ disk[0].kind = "super" =>
        /\ UsedOnDisk <= DevBlocks
        /\ ChainFrom(1)
        /\ \A b \in 1 .. UsedOnDisk - 1 :
              disk[b].kind = "header" => ChainFrom(b) /\ ChainFrom(b + 1 + disk[b].count)

\* The contents of a file as a read of the whole of it would deliver them.
Content(header) ==
    [i \in 1 .. TotalSize(header) |->
        BytesOf(disk[header.off + (i - 1) \div BLOCK])[((i - 1) % BLOCK) + 1]]
FirstHeader(p) == CHOOSE b \in HeaderBlocks(p) : \A c \in HeaderBlocks(p) : b <= c
FileAt(p) == IF HeaderBlocks(p) = {} THEN Absent ELSE Content(disk[FirstHeader(p)])

\* What a caller sees of it, as a FileStore.
Store == INSTANCE FileStore
    WITH files <- [p \in Paths |-> FileAt(p)],
         busy <- pc \notin {"boot", "idle"}

\* A step leaves every committed file where it is and, but for the file that
\* the current call is for, as it is.
CommittedKept ==
    \A b \in Blocks \cap (1 .. UsedOnDisk - 1) :
        disk[b].kind = "header" =>
            /\ b < UsedOnDisk' /\ disk'[b] = disk[b]
            /\ disk[b].path # call.path =>
                 \A d \in Blocks \cap (b + 1 .. b + disk[b].count) : disk'[d] = disk[d]

\* No call, whatever blocks the device refuses it, destroys a committed file or
\* changes one that it is not for, as long as no file is given more blocks.
OthersUntouched == [][~grewBlocks' => CommittedKept]_vars

\* The same without the proviso.
NeighboursKept == [][CommittedKept]_vars

\* Every call comes to an end; the walk over the blocks cannot go round.
CallReturns == pc # "idle" ~> pc = "idle"

-----------------------------------------------------------------------------
(* The inductive invariant behind ChainIntact and OthersUntouched: how far a  *)
(* call has come, and what it may therefore assume of the medium.             *)

Mounted == {"find", "rscan", "rload", "alloc", "header", "payload", "super"}

HeaderKnown ==
    /\ pc \in Mounted => disk[0].kind = "super"
    /\ pc \in {"rload", "header", "payload", "super"} => file_header # NoHeader
    /\ pc \in {"header", "payload"} => blk < file_header.count
    /\ pc = "header" => blk = 0

\* The header is that of a committed file of the path of the call, which has
\* at least as many blocks as the call is going to write.
InPlace ==
    /\ free_blocks_count = disk[0].free
    /\ \E b \in 1 .. UsedOnDisk - 1 :
         /\ disk[b].kind = "header" /\ disk[b].path = call.path
         /\ file_header.off = b + 1
         /\ file_header.count <= disk[b].count

\* The header is that of a file being created after the last committed one,
\* and the blocks it needs are already taken from the object's free count.
AtEnd ==
    /\ file_header.off = UsedOnDisk + 1
    /\ free_blocks_count + 1 + file_header.count = disk[0].free
NewWritten(n) ==
    /\ UsedOnDisk \in Blocks /\ disk[UsedOnDisk] = file_header
    /\ \A d \in UsedOnDisk + 1 .. UsedOnDisk + n : d \in Blocks /\ disk[d].kind = "data"

Stage ==
    /\ pc = "boot" => disk[0].kind # "super"
    /\ pc \in {"boot", "idle", "mount"} => file_header = NoHeader
    /\ pc \in {"find", "rscan", "rload", "alloc"} =>
         /\ free_blocks_count = disk[0].free
         /\ curr_block >= 1
         /\ file_header # NoHeader => InPlace
    /\ pc = "header" => AtEnd
    /\ pc = "payload" => InPlace \/ (AtEnd /\ NewWritten(blk))
    /\ pc = "super" => InPlace \/ (AtEnd /\ NewWritten(file_header.count))

IInv == TypeOK /\ HeaderKnown /\ ChainIntact /\ (~grewBlocks => Stage)

=============================================================================
