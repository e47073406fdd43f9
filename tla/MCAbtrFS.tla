------------------------------ MODULE MCAbtrFS ------------------------------
(***************************************************************************)
(* AbtrFS for TLC: blocks of two bytes, so that a file of one to four      *)
(* bytes has one or two payload blocks, the last one full or not.          *)
(*                                                                         *)
(* The history variable asStore is true until one of the things has        *)
(* happened after which AbtrFS is no FileStore: a write that reaches       *)
(* beyond the end of a file, a write under a name that is too long to be   *)
(* found again, or a refused read that is taken for something else (an     *)
(* absent file, or one without old content).                               *)
(***************************************************************************)
EXTENDS AbtrFS

VARIABLE asStore

\* A write that stays inside the file, if there is one.
WithinFile(c) ==
    \A b \in HeaderBlocks(c.path) : c.off + Len(c.data) <= TotalSize(disk[b])

WritesBeyond == pc = "idle" /\ pc' = "mount" /\ call'.op = "write" /\ ~WithinFile(call')
WritesLongName == pc = "idle" /\ pc' = "mount" /\ call'.op = "write" /\ call'.path \in LongPaths
ErrorIgnored ==
    /\ faults' > faults
    /\ pc \in {"find", "rscan"} \/ (pc = "rload" /\ call.op = "write")

MCInit == Init /\ asStore = TRUE
MCNext == Next /\ asStore' = (asStore /\ ~WritesBeyond /\ ~WritesLongName /\ ~ErrorIgnored)
MCSpec == MCInit /\ [][MCNext]_<<vars, asStore>> /\ WF_vars(Step)

\* The file system is the map from paths to contents that FileStore describes,
\* whatever blocks the device refuses, until a file is written beyond its end
\* or under a name that is not found again, or an error is taken for an absent
\* file.
StoreUntilGrowth ==
    /\ Store!Init
    /\ [][asStore' => [Store!Next]_(Store!vars)]_<<vars, asStore>>

-----------------------------------------------------------------------------
(* The inductive invariant behind StoreUntilGrowth: what a call, as far as it *)
(* has come, knows of the file it is for.                                     *)

NoneBefore == \A b \in HeaderBlocks(call.path) : curr_block <= b

\* The header that was found is that of the file.
TheFile ==
    /\ HeaderBlocks(call.path) # {}
    /\ file_header = disk[FirstHeader(call.path)]

\* The buffer is what the file holds from read_offset on, up to the end of the
\* block before blk, and not yet all that was asked for.
Loaded ==
    /\ ReadOffset < TotalSize(file_header)
    /\ Len(buffer) < BytesToRead
    /\ IF buffer = <<>> THEN blk = ReadOffset \div BLOCK
       ELSE ReadOffset + Len(buffer) = blk * BLOCK
    /\ \A i \in 1 .. Len(buffer) : buffer[i] = Content(file_header)[ReadOffset + i]

Named(i) == call.off < i /\ i <= call.off + Len(call.data)

\* The file is being overwritten: the blocks before blk are done, and nothing
\* but the bytes that the call names is going to change.
Overwrites ==
    /\ TheFile
    /\ free_blocks_count = disk[0].free
    /\ Len(expanded_data) = TotalSize(file_header)
    /\ \A i \in 1 .. TotalSize(file_header) :
          expanded_data[i] = IF Named(i) THEN call.data[i - call.off]
                             ELSE Content(file_header)[i]
    /\ \A i \in 1 .. TotalSize(file_header) :
          i <= blk * BLOCK => Content(file_header)[i] = expanded_data[i]

\* There is no such file yet: the blocks before blk are written, where nobody
\* looks for them before the partition header counts them.
Creates ==
    /\ HeaderBlocks(call.path) = {}
    /\ AtEnd
    /\ file_header.path = call.path
    /\ TotalSize(file_header) = call.off + Len(call.data)
    /\ Len(expanded_data) = TotalSize(file_header)
    /\ \A i \in 1 .. TotalSize(file_header) :
          expanded_data[i] = IF Named(i) THEN call.data[i - call.off] ELSE 0
    /\ \A d \in 0 .. blk - 1 : disk[file_header.off + d] = Chunk(d)
    /\ pc # "header" => disk[UsedOnDisk] = file_header

StoreStage ==
    /\ pc \in Mounted => call.path \notin RootPaths
    /\ pc \in Mounted \cup {"mount"} /\ call.op = "write" =>
         WithinFile(call) /\ call.path \notin LongPaths
    /\ pc \in {"alloc", "header", "payload", "super"} => call.op = "write"
    /\ pc = "find" => call.op # "read"
    /\ pc = "rscan" => call.op # "exists"
    /\ pc = "rload" => call.op # "exists"
    /\ pc \in {"boot", "idle", "mount", "find", "rscan"} => buffer = <<>>
    /\ pc \in {"find", "rscan"} => NoneBefore
    /\ pc = "rscan" /\ call.op = "write" => TheFile
    /\ pc = "rload" => TheFile /\ Loaded
    /\ pc = "alloc" => IF file_exists
                       THEN TheFile /\ buffer = Content(file_header)
                       ELSE HeaderBlocks(call.path) = {} /\ buffer = <<>>
    /\ pc = "header" => Creates
    /\ pc = "payload" => Overwrites \/ Creates
    /\ pc = "super" => (Overwrites \/ Creates) /\ blk = file_header.count

StoreInv == asStore => ~grewBlocks /\ StoreStage

-----------------------------------------------------------------------------
write(p, d, o) == [op |-> "write", path |-> p, data |-> d, off |-> o, max |-> 0]
read(p, o, m) == [op |-> "read", path |-> p, data |-> <<>>, off |-> o, max |-> m]
exists(p) == [op |-> "exists", path |-> p, data |-> <<>>, off |-> 0, max |-> 0]

\* Two files, the root and a name too long to be found; creation with and
\* without a hole, overwriting in place of a part and of the whole, growth
\* within the last block and beyond it, an empty write, reads of all of a file,
\* of a part and beyond the end.
MixedCalls ==
    {write("/a", <<1, 2, 1>>, 0), write("/a", <<1>>, 1),
     write("/b", <<1>>, 0), write("/b", <<2>>, 1), write("/b", <<>>, 0),
     write("/", <<1>>, 0), write("/long", <<1>>, 0), exists("/long"),
     read("/a", 0, 0), read("/a", 1, 1), read("/a", 2, 0), read("/b", 0, 1),
     read("/b", 5, 0), exists("/a"), exists("/b")}

\* As AVFS calls: offset 0, and a buffer of some size to read into.
AvfsCalls ==
    {write("/a", <<1>>, 0), write("/a", <<2, 1>>, 0), write("/a", <<1, 2, 1>>, 0),
     write("/b", <<2>>, 0), read("/a", 0, 0), read("/a", 0, 2), read("/b", 0, 1),
     exists("/a")}

=============================================================================
