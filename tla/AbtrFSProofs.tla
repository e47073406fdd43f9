----------------------------- MODULE AbtrFSProofs -----------------------------
(***************************************************************************)
(* What AbtrFS satisfies for every block size, partition, device, set of   *)
(* calls and number of refused blocks.                                     *)
(***************************************************************************)
EXTENDS MCAbtrFS, SequenceTheorems, WellFoundedInduction, TLAPS

-----------------------------------------------------------------------------
(* Blocks and sizes *)

\* The magic number tells what a block is.
LEMMA BlockByKind ==
    ASSUME NEW x \in Contents
    PROVE  /\ x.kind = "super" => x \in Superblocks
           /\ x.kind = "header" => x \in Headers
           /\ x.kind = "data" => x \in Payloads
BY DEF Contents, Superblocks, Headers, Payloads

LEMMA BlockZero == 0 \in Blocks
BY SizesAssumption DEF Blocks

\* A file that is not empty has payload blocks.
LEMMA BlocksForPositive ==
    ASSUME NEW n \in Nat \ {0}
    PROVE  BlocksFor(n) \in Nat \ {0}
<1>1. BLOCK \in Nat \ {0}
  BY SizesAssumption
<1> DEFINE m == n + BLOCK - 1
<1>2. m \in Nat /\ m >= BLOCK
  BY <1>1
<1> HIDE DEF m
<1>3. m \div BLOCK \in Nat /\ m \div BLOCK >= 1
  BY <1>1, <1>2, Z3
<1> QED
  BY <1>3 DEF BlocksFor, m

\* The last one holds at least one byte and at most a block of them.
LEMMA LastBlockSizeInBlock ==
    ASSUME NEW n \in Nat \ {0}
    PROVE  LastBlockSize(n) \in 1 .. BLOCK
BY SizesAssumption DEF LastBlockSize

LEMMA TotalSizePositive ==
    ASSUME NEW h \in Headers
    PROVE  TotalSize(h) \in Nat \ {0}
<1>1. h.count - 1 \in Nat /\ h.size \in Nat \ {0} /\ BLOCK \in Nat
  BY SizesAssumption DEF Headers
<1>2. (h.count - 1) * BLOCK \in Nat
  BY <1>1
<1> QED
  BY <1>1, <1>2 DEF TotalSize

LEMMA CallTyped ==
    ASSUME NEW c \in Calls
    PROVE  /\ c.op \in {"write", "read", "exists"} /\ c.path \in Paths
           /\ c.data \in Seq(Bytes) /\ c.off \in Nat /\ c.max \in Nat
BY CallsAssumption

\* What a block delivers is bytes, whatever it is.
LEMMA BytesOfTyped ==
    ASSUME NEW x \in Contents
    PROVE  BytesOf(x) \in [1 .. BLOCK -> Bytes]
BY BlockByKind, BytesAssumption DEF BytesOf, Payloads

-----------------------------------------------------------------------------
(* Type correctness, together with what a call knows of its header *)

TypeInv == TypeOK /\ HeaderKnown

LEMMA EmptyBytes == <<>> \in Seq(Bytes)
BY EmptySeq

LEMMA InitType == Init => TypeInv
<1> SUFFICES ASSUME Init PROVE TypeInv
  OBVIOUS
<1>1. ZeroPayload \in Contents
  BY BytesAssumption DEF ZeroPayload, Contents, Payloads
<1>2. disk \in [Blocks -> Contents]
  BY <1>1 DEF Init
<1>3. TypeOK
  <2>1. /\ pc \in Labels /\ ret \in Codes /\ grewBlocks \in BOOLEAN
        /\ call \in Calls /\ file_header \in Headers \cup {NoHeader}
    BY DEF Init, Labels, Codes
  <2>2. /\ free_blocks_count \in 0 .. TotalBlocks - 1 /\ faults \in 0 .. MaxFaults
        /\ curr_block \in Nat /\ blk \in Nat
    BY SizesAssumption DEF Init
  <2>3. buffer \in Seq(Bytes) /\ expanded_data \in Seq(Bytes) /\ result \in Seq(Bytes)
    BY EmptyBytes DEF Init
  <2> QED
    BY <1>2, <2>1, <2>2, <2>3 DEF TypeOK
<1>4. HeaderKnown
  BY DEF Init, HeaderKnown, Mounted
<1> QED
  BY <1>3, <1>4 DEF TypeInv

\* A block that goes to the device, or does not, is a block.
LEMMA WriteBlockTyped ==
    ASSUME disk \in [Blocks -> Contents], faults \in 0 .. MaxFaults,
           NEW b, NEW x \in Contents, NEW ok \in BOOLEAN, write_block(b, x, ok)
    PROVE  disk' \in [Blocks -> Contents] /\ faults' \in 0 .. MaxFaults
BY SizesAssumption DEF write_block, Refuse

LEMMA ReadBlockTyped ==
    ASSUME faults \in 0 .. MaxFaults, NEW b, NEW ok \in BOOLEAN, read_block(b, ok)
    PROVE  faults' \in 0 .. MaxFaults /\ (ok => b \in Blocks)
BY SizesAssumption DEF read_block, Refuse

\* A call that ends leaves nothing behind but its answer.
LEMMA ReturnTyped ==
    ASSUME TypeOK, NEW code \in Codes, NEW bytes \in Seq(Bytes), Return(code, bytes),
           disk' \in [Blocks -> Contents], faults' \in 0 .. MaxFaults
    PROVE  TypeInv'
BY SizesAssumption, EmptyBytes DEF TypeInv, TypeOK, HeaderKnown, Return, Labels, Mounted

LEMMA FinalSizeTyped ==
    ASSUME TypeOK
    PROVE  /\ final_size \in Nat
           /\ file_exists => final_size # 0
<1>1. call.off + Len(call.data) \in Nat
  BY CallTyped, LenProperties DEF TypeOK
<1>2. file_exists => TotalSize(file_header) \in Nat \ {0}
  BY TotalSizePositive DEF TypeOK, file_exists
<1> QED
  BY <1>1, <1>2 DEF final_size

LEMMA NewHeaderTyped ==
    ASSUME TypeOK, final_size # 0, NEW o \in Nat \ {0, 1}
    PROVE  NewHeader(o) \in Headers
BY FinalSizeTyped, BlocksForPositive, LastBlockSizeInBlock, CallTyped
   DEF NewHeader, Headers, TypeOK

LEMMA ExpandedTyped ==
    ASSUME TypeOK
    PROVE  Expanded \in Seq(Bytes)
<1>1. final_size \in Nat
  BY FinalSizeTyped
<1>2. call.data \in Seq(Bytes) /\ call.off \in Nat /\ buffer \in Seq(Bytes)
  BY CallTyped DEF TypeOK
<1>3. \A i \in 1 .. final_size :
        call.off < i /\ i <= call.off + Len(call.data) => call.data[i - call.off] \in Bytes
  BY <1>1, <1>2, ElementOfSeq, LenProperties
<1>4. \A i \in 1 .. final_size : i <= Len(buffer) => buffer[i] \in Bytes
  BY <1>1, <1>2, ElementOfSeq, LenProperties
<1>5. Expanded \in [1 .. final_size -> Bytes]
  BY <1>1, <1>2, <1>3, <1>4, BytesAssumption DEF Expanded
<1> QED
  BY <1>1, <1>5, SeqDef

LEMMA PieceTyped ==
    ASSUME TypeOK, file_header \in Headers, NEW x \in Contents
    PROVE  Piece(x) \in Seq(Bytes)
<1> DEFINE from == IF buffer = <<>> THEN ReadOffset % BLOCK ELSE 0
           left == BytesToRead - Len(buffer)
           upto == IF from + left < BLOCK THEN from + left ELSE BLOCK
<1>1. BLOCK \in Nat \ {0} /\ ReadOffset \in Nat
  BY SizesAssumption, CallTyped DEF ReadOffset, TypeOK
<1>2. from \in Nat
  BY <1>1
<1>3. BytesToRead \in Int
  BY <1>1, TotalSizePositive, CallTyped DEF BytesToRead, TypeOK
<1>4. left \in Int
  BY <1>3, LenProperties DEF TypeOK
<1>5. upto \in Int /\ upto <= BLOCK
  BY <1>1, <1>2, <1>4
<1>6. \A i \in from + 1 .. upto : BytesOf(x)[i] \in Bytes
  BY <1>1, <1>2, <1>5, BytesOfTyped
<1> HIDE DEF from, upto, left
<1>7. SubSeq(BytesOf(x), from + 1, upto) \in Seq(Bytes)
  BY <1>2, <1>5, <1>6, SubSeqProperties
<1> QED
  BY <1>7 DEF Piece, from, upto, left

LEMMA ChunkTyped ==
    ASSUME TypeOK, NEW b \in Nat
    PROVE  Chunk(b) \in Payloads
<1>1. BLOCK \in Nat \ {0} /\ expanded_data \in Seq(Bytes) /\ b * BLOCK \in Nat
  BY SizesAssumption DEF TypeOK
<1> DEFINE base == b * BLOCK
<1>2. base \in Nat
  BY <1>1
<1> HIDE DEF base
<1>3. \A k \in 1 .. BLOCK : base + k <= Len(expanded_data) => expanded_data[base + k] \in Bytes
  BY <1>1, <1>2, ElementOfSeq, LenProperties
<1> QED
  BY <1>3, BytesAssumption DEF Chunk, Payloads, base

\* The search of a file ends in one of these ways.
LEMMA NotFoundTyped ==
    ASSUME TypeInv, pc \in {"find", "rscan"}, NotFound, UNCHANGED disk,
           faults' \in 0 .. MaxFaults
    PROVE  TypeInv'
<1>1. CASE call.op = "write"
  BY <1>1 DEF TypeInv, TypeOK, HeaderKnown, NotFound, Goto, locals, Labels, Mounted
<1>2. CASE call.op # "write"
  BY <1>2, ReturnTyped, EmptyBytes DEF TypeInv, TypeOK, NotFound, Codes
<1> QED
  BY <1>1, <1>2

LEMMA FoundTyped ==
    ASSUME TypeInv, pc \in {"find", "rscan"}, NEW h \in Headers, Found(h), UNCHANGED disk,
           faults' \in 0 .. MaxFaults
    PROVE  TypeInv'
<1>1. CASE Return("Success", <<>>)
  BY <1>1, ReturnTyped, EmptyBytes DEF TypeInv, TypeOK, Codes
<1>2. CASE ~Return("Success", <<>>)
  <2>0. ReadOffset \in Nat /\ BLOCK \in Nat \ {0}
    BY SizesAssumption, CallTyped DEF ReadOffset, TypeInv, TypeOK
  <2>1. ReadOffset \div BLOCK \in Nat
    BY <2>0, Z3
  <2>2. /\ file_header' = h
        /\ pc' \in {"rscan", "rload"}
        /\ curr_block' \in {1, curr_block} /\ blk' \in {ReadOffset \div BLOCK, blk}
        /\ UNCHANGED <<call, ret, result, free_blocks_count, buffer, expanded_data, grewBlocks>>
    BY <1>2 DEF Found, Goto
  <2>3. h # NoHeader
    BY NoHeaderAssumption
  <2>4. TypeOK'
    BY <2>1, <2>2 DEF TypeInv, TypeOK, Labels
  <2>5. HeaderKnown'
    BY <2>2, <2>3 DEF TypeInv, HeaderKnown, Mounted
  <2> QED
    BY <2>4, <2>5 DEF TypeInv
<1> QED
  BY <1>1, <1>2

LEMMA NextType == TypeInv /\ [Next]_vars => TypeInv'
<1> SUFFICES ASSUME TypeInv, [Next]_vars PROVE TypeInv'
  OBVIOUS
<1>t. TypeOK /\ HeaderKnown
  BY DEF TypeInv
<1>d. disk \in [Blocks -> Contents] /\ disk[0] \in Contents
  BY <1>t, BlockZero DEF TypeOK
<1>1. CASE \E c \in Calls : Call(c)
  BY <1>1, <1>t DEF Call, TypeInv, TypeOK, HeaderKnown, Labels, Mounted, locals
<1>2. ASSUME NEW ok \in BOOLEAN, format(ok) PROVE TypeInv'
  <2>1. [kind |-> "super", free |-> TotalBlocks - 1] \in Contents
    BY SizesAssumption DEF Contents, Superblocks
  <2>2. disk' \in [Blocks -> Contents] /\ faults' \in 0 .. MaxFaults
    BY <1>2, <1>t, <2>1, WriteBlockTyped DEF format, TypeOK
  <2> QED
    BY <1>2, <1>t, <2>2
       DEF format, Goto, locals, TypeInv, TypeOK, HeaderKnown, Labels, Mounted
<1>3. ASSUME NEW ok \in BOOLEAN, mount_existing(ok) PROVE TypeInv'
  <2>1. faults' \in 0 .. MaxFaults /\ UNCHANGED disk
    BY <1>3, <1>t, ReadBlockTyped DEF mount_existing, TypeOK
  <2>2. CASE Return("DeviceNotMounted", <<>>) \/ Return("InvalidPath", <<>>)
    BY <2>1, <2>2, <1>t, <1>d, ReturnTyped, EmptyBytes DEF Codes
  <2>3. CASE ~Return("DeviceNotMounted", <<>>) /\ ~Return("InvalidPath", <<>>)
    <3>1. /\ disk[0].kind = "super" /\ free_blocks_count' = disk[0].free
          /\ curr_block' = 1 /\ pc' \in {"rscan", "find"}
          /\ UNCHANGED <<call, ret, result, file_header, buffer, expanded_data, blk, grewBlocks>>
      BY <1>3, <2>3 DEF mount_existing, Goto
    <3>2. free_blocks_count' \in 0 .. TotalBlocks - 1
      BY <3>1, <1>d, BlockByKind DEF Superblocks
    <3> QED
      BY <2>1, <3>1, <3>2, <1>t DEF TypeInv, TypeOK, HeaderKnown, Labels, Mounted
  <2> QED
    BY <2>2, <2>3
<1>4. ASSUME NEW ok \in BOOLEAN, ScanBlock(ok) PROVE TypeInv'
  <2>1. faults' \in 0 .. MaxFaults /\ UNCHANGED disk /\ (ok => curr_block \in Blocks)
    BY <1>4, <1>t, ReadBlockTyped DEF ScanBlock, TypeOK
  <2>2. CASE NotFound
    BY <1>4, <2>1, <2>2, NotFoundTyped DEF ScanBlock
  <2>3. CASE ok /\ disk[curr_block].kind = "header" /\ Found(disk[curr_block])
    <3>1. disk[curr_block] \in Headers
      BY <2>1, <2>3, <1>d, BlockByKind
    <3> QED
      BY <1>4, <2>1, <2>3, <3>1, FoundTyped DEF ScanBlock
  <2>4. CASE /\ ok /\ curr_block' = curr_block + Skip(disk[curr_block])
             /\ Goto(pc)
             /\ UNCHANGED <<free_blocks_count, file_header, buffer, expanded_data, blk, grewBlocks>>
    <3>1. Skip(disk[curr_block]) \in Nat
      BY <2>1, <2>4, <1>d, BlockByKind DEF Skip, Headers
    <3> QED
      BY <1>4, <2>1, <2>4, <3>1, <1>t
         DEF ScanBlock, Goto, TypeInv, TypeOK, HeaderKnown, Labels, Mounted
  <2> QED
    BY <1>4, <2>2, <2>3, <2>4 DEF ScanBlock
<1>5. CASE ScanEnd
  BY <1>5, <1>t, NotFoundTyped DEF ScanEnd, TypeOK
<1>6. ASSUME NEW ok \in BOOLEAN, LoadBlock(ok) PROVE TypeInv'
  <2>1. faults' \in 0 .. MaxFaults /\ UNCHANGED disk /\ (ok => file_header.off + blk \in Blocks)
    BY <1>6, <1>t, ReadBlockTyped DEF LoadBlock, TypeOK
  <2>2. pc = "rload" /\ file_header \in Headers
    BY <1>6, <1>t DEF LoadBlock, TypeOK, HeaderKnown
  <2> DEFINE bytes == buffer \o Piece(disk[file_header.off + blk])
             last == Len(bytes) >= BytesToRead \/ blk + 1 >= file_header.count
  <2>3. CASE ~ok /\ call.op = "read"
    BY <1>6, <2>1, <2>3, <1>t, <1>d, ReturnTyped, EmptyBytes DEF LoadBlock, Codes
  <2>4. CASE ~ok /\ call.op # "read"
    BY <1>6, <2>1, <2>2, <2>4, <1>t, EmptyBytes
       DEF LoadBlock, Goto, TypeInv, TypeOK, HeaderKnown, Labels, Mounted
  <2>5. CASE ok
    <3>1. bytes \in Seq(Bytes)
      BY <2>1, <2>2, <2>5, <1>t, <1>d, PieceTyped, ConcatProperties DEF TypeOK
    <3>2. CASE last /\ call.op = "read"
      BY <1>6, <2>1, <2>5, <3>1, <3>2, <1>t, <1>d, ReturnTyped DEF LoadBlock, Codes
    <3>3. CASE ~(last /\ call.op = "read")
      <4>1. /\ buffer' = bytes /\ blk' = blk + 1 /\ pc' \in {"alloc", "rload"}
            /\ UNCHANGED <<call, ret, result, free_blocks_count, curr_block, file_header,
                           expanded_data, grewBlocks>>
        BY <1>6, <2>5, <3>3 DEF LoadBlock, Goto
      <4> HIDE DEF bytes, last
      <4> QED
        BY <4>1, <2>1, <2>2, <3>1, <1>t DEF TypeInv, TypeOK, HeaderKnown, Labels, Mounted
    <3> QED
      BY <3>2, <3>3
  <2> QED
    BY <2>3, <2>4, <2>5
<1>7. CASE AllocateNew
  <2> DEFINE n == BlocksFor(final_size)
  <2>1. UNCHANGED <<disk, faults>> /\ pc = "alloc"
    BY <1>7 DEF AllocateNew
  <2>2. CASE Return("InvalidParameters", <<>>) \/ Return("NoSpaceLeft", <<>>)
    BY <2>1, <2>2, <1>t, ReturnTyped, EmptyBytes DEF Codes, TypeOK
  <2>3. CASE ~Return("InvalidParameters", <<>>) /\ ~Return("NoSpaceLeft", <<>>)
    <3>1. /\ final_size # 0 /\ ~(free_blocks_count < 1 + n)
          /\ Prepared(NewHeader(used_blocks + 1), 1 + n) /\ Goto("header") /\ UNCHANGED grewBlocks
      BY <1>7, <2>3 DEF AllocateNew, BlocksTaken, assigned_header_block
    <3>2. n \in Nat \ {0}
      BY <3>1, <1>t, FinalSizeTyped, BlocksForPositive
    <3>3. NewHeader(used_blocks + 1) \in Headers /\ NewHeader(used_blocks + 1).count = n
      BY <3>1, <1>t, NewHeaderTyped, SizesAssumption DEF used_blocks, TypeOK, NewHeader
    <3>4. NewHeader(used_blocks + 1) # NoHeader
      BY <3>3, NoHeaderAssumption
    <3>5. free_blocks_count - (1 + n) \in 0 .. TotalBlocks - 1
      BY <3>1, <3>2, <1>t, SizesAssumption DEF TypeOK
    <3> HIDE DEF n
    <3>6. TypeOK'
      BY <2>1, <3>1, <3>3, <3>5, <1>t, ExpandedTyped, EmptyBytes DEF Prepared, Goto, TypeOK, Labels
    <3>7. HeaderKnown'
      BY <2>1, <3>1, <3>2, <3>3, <3>4, <1>t DEF Prepared, Goto, HeaderKnown, Mounted
    <3> QED
      BY <3>6, <3>7 DEF TypeInv
  <2> QED
    BY <2>2, <2>3
<1>8. CASE AllocateMore
  <2> DEFINE n == BlocksFor(final_size)
             extra == IF n > file_header.count THEN n - file_header.count ELSE 0
  <2>1. UNCHANGED <<disk, faults>> /\ pc = "alloc" /\ file_exists
    BY <1>8 DEF AllocateMore
  <2>2. CASE Return("NoSpaceLeft", <<>>)
    BY <2>1, <2>2, <1>t, ReturnTyped, EmptyBytes DEF Codes, TypeOK
  <2>3. CASE ~Return("NoSpaceLeft", <<>>)
    <3>0. file_header \in Headers
      BY <2>1, <1>t DEF file_exists, TypeOK
    <3>1. /\ ~(free_blocks_count < extra)
          /\ Prepared(NewHeader(file_header.off), extra) /\ Goto("payload")
          /\ grewBlocks' = (grewBlocks \/ extra > 0)
      BY <1>8, <2>3 DEF AllocateMore
    <3>2. n \in Nat \ {0} /\ final_size # 0
      BY <2>1, <1>t, FinalSizeTyped, BlocksForPositive
    <3>3. NewHeader(file_header.off) \in Headers /\ NewHeader(file_header.off).count = n
      BY <3>0, <3>2, <1>t, NewHeaderTyped DEF Headers, NewHeader
    <3>4. NewHeader(file_header.off) # NoHeader
      BY <3>3, NoHeaderAssumption
    <3>5. extra \in Nat
      BY <3>0, <3>2 DEF Headers
    <3>6. free_blocks_count - extra \in 0 .. TotalBlocks - 1 /\ grewBlocks' \in BOOLEAN
      <4>1. grewBlocks' \in BOOLEAN
        BY <3>1
      <4> HIDE DEF extra
      <4>2. free_blocks_count - extra \in 0 .. TotalBlocks - 1
        BY <3>1, <3>5, <1>t, SizesAssumption DEF TypeOK
      <4> QED
        BY <4>1, <4>2
    <3> HIDE DEF n, extra
    <3>7. TypeOK'
      BY <2>1, <3>1, <3>3, <3>6, <1>t, ExpandedTyped, EmptyBytes DEF Prepared, Goto, TypeOK, Labels
    <3>8. HeaderKnown'
      BY <2>1, <3>1, <3>2, <3>3, <3>4, <1>t DEF Prepared, Goto, HeaderKnown, Mounted
    <3> QED
      BY <3>7, <3>8 DEF TypeInv
  <2> QED
    BY <2>2, <2>3
<1>9. ASSUME NEW ok \in BOOLEAN, WriteHeader(ok) PROVE TypeInv'
  <2>1. pc = "header" /\ file_header \in Headers
    BY <1>9, <1>t DEF WriteHeader, HeaderKnown, TypeOK
  <2>2. disk' \in [Blocks -> Contents] /\ faults' \in 0 .. MaxFaults
    BY <1>9, <2>1, <1>t, WriteBlockTyped DEF WriteHeader, WriteStep, TypeOK, Contents
  <2>3. CASE ~ok
    BY <1>9, <2>2, <2>3, <1>t, ReturnTyped, EmptyBytes DEF WriteHeader, WriteStep, Codes
  <2>4. CASE ok
    <3>1. disk'[0].kind = "super"
      BY <1>9, <2>1, <2>4, <1>t, BlockZero DEF WriteHeader, WriteStep, write_block, TypeOK,
         HeaderKnown, Mounted, Headers
    <3> QED
      BY <1>9, <2>1, <2>2, <2>4, <3>1, <1>t
         DEF WriteHeader, WriteStep, Goto, TypeInv, TypeOK, HeaderKnown, Labels, Mounted
  <2> QED
    BY <2>3, <2>4
<1>10. ASSUME NEW ok \in BOOLEAN, WritePayload(ok) PROVE TypeInv'
  <2>1. pc = "payload" /\ file_header \in Headers
    BY <1>10, <1>t DEF WritePayload, HeaderKnown, TypeOK
  <2>2. Chunk(blk) \in Contents
    BY <1>t, ChunkTyped DEF TypeOK, Contents
  <2>3. disk' \in [Blocks -> Contents] /\ faults' \in 0 .. MaxFaults
    BY <1>10, <2>2, <1>t, WriteBlockTyped DEF WritePayload, WriteStep, TypeOK
  <2>4. CASE ~ok
    BY <1>10, <2>3, <2>4, <1>t, ReturnTyped, EmptyBytes DEF WritePayload, WriteStep, Codes
  <2>5. CASE ok
    <3>1. file_header.off + blk # 0
      BY <2>1, <1>t DEF Headers, TypeOK
    <3>2. disk'[0].kind = "super"
      BY <1>10, <2>1, <2>5, <3>1, <1>t, BlockZero DEF WritePayload, WriteStep, write_block, TypeOK,
         HeaderKnown, Mounted
    <3>3. /\ pc' = IF blk + 1 < file_header.count THEN "payload" ELSE "super"
          /\ blk' = blk + 1
          /\ UNCHANGED <<call, ret, result, free_blocks_count, curr_block, file_header,
                         buffer, expanded_data, grewBlocks>>
      BY <1>10, <2>5 DEF WritePayload, WriteStep, Goto
    <3> QED
      BY <2>1, <2>3, <3>2, <3>3, <1>t DEF TypeInv, TypeOK, HeaderKnown, Labels, Mounted
  <2> QED
    BY <2>4, <2>5
<1>11. ASSUME NEW ok \in BOOLEAN, WriteSuper(ok) PROVE TypeInv'
  <2>1. [kind |-> "super", free |-> free_blocks_count] \in Contents
    BY <1>t DEF TypeOK, Contents, Superblocks
  <2>2. disk' \in [Blocks -> Contents] /\ faults' \in 0 .. MaxFaults
    BY <1>11, <1>t, <2>1, WriteBlockTyped DEF WriteSuper, TypeOK
  <2> QED
    BY <1>11, <2>2, <1>t, ReturnTyped, EmptyBytes DEF WriteSuper, Codes
<1>12. CASE UNCHANGED vars
  BY <1>12, <1>t DEF vars, locals, TypeInv, TypeOK, HeaderKnown
<1> QED
  BY <1>1, <1>2, <1>3, <1>4, <1>5, <1>6, <1>7, <1>8, <1>9, <1>10, <1>11, <1>12 DEF Next, Step

\* Whatever is asked and whatever the device refuses, the medium holds only
\* well-formed blocks, the free count stays within the partition, a file never
\* has zero blocks or an empty last block, and no header points at block 0.
THEOREM TypeCorrect == Spec => []TypeOK
<1>1. Spec => []TypeInv
  BY InitType, NextType, PTL DEF Spec
<1>2. TypeInv => TypeOK
  BY DEF TypeInv
<1> QED
  BY <1>1, <1>2, PTL

-----------------------------------------------------------------------------
(* The chain of files *)

LEMMA UsedTyped ==
    ASSUME TypeOK
    PROVE  /\ UsedOnDisk \in Nat /\ UsedOnDisk <= TotalBlocks
           /\ disk[0].kind = "super" => UsedOnDisk >= 1 /\ UsedOnDisk = TotalBlocks - disk[0].free
           /\ disk[0].kind = "super" => disk[0].free \in 0 .. TotalBlocks - 1
           /\ disk[0].kind # "super" => UsedOnDisk = 0
<1>1. disk[0] \in Contents
  BY BlockZero DEF TypeOK
<1>2. disk[0].kind = "super" => disk[0].free \in 0 .. TotalBlocks - 1
  BY <1>1, BlockByKind DEF Superblocks
<1> QED
  BY <1>2, SizesAssumption DEF UsedOnDisk

\* What ChainIntact says of a committed header, in the form the steps use.
LEMMA CommittedHeader ==
    ASSUME TypeOK, ChainIntact, ~grewBlocks, disk[0].kind = "super",
           NEW b \in 1 .. UsedOnDisk - 1, disk[b].kind = "header"
    PROVE  /\ b \in Blocks /\ disk[b] \in Headers
           /\ disk[b].off = b + 1
           /\ b + 1 + disk[b].count <= UsedOnDisk
           /\ \A d \in b + 1 .. b + disk[b].count :
                 d \in Blocks /\ d \in 1 .. UsedOnDisk - 1 /\ disk[d].kind = "data"
<1>1. UsedOnDisk \in Nat /\ UsedOnDisk <= DevBlocks /\ ChainFrom(b) /\ b < UsedOnDisk
  BY UsedTyped DEF ChainIntact
<1>2. b \in Blocks
  BY <1>1, SizesAssumption DEF Blocks
<1>3. disk[b] \in Headers
  BY <1>2, BlockByKind DEF TypeOK
<1>4. /\ disk[b].off = b + 1 /\ b + 1 + disk[b].count <= UsedOnDisk
      /\ \A d \in b + 1 .. b + disk[b].count : disk[d].kind = "data"
  BY <1>1 DEF ChainFrom
<1>5. disk[b].count \in Nat
  BY <1>3 DEF Headers
<1>6. \A d \in b + 1 .. b + disk[b].count : d \in Blocks /\ d \in 1 .. UsedOnDisk - 1
  BY <1>1, <1>4, <1>5, SizesAssumption DEF Blocks
<1> QED
  BY <1>2, <1>3, <1>4, <1>6

\* The chain does not depend on what the payload blocks hold, nor on what lies
\* beyond the used blocks.
LEMMA ChainKept ==
    ASSUME TypeOK, TypeOK', ChainIntact, grewBlocks' = grewBlocks,
           disk'[0] = disk[0],
           ~grewBlocks /\ disk[0].kind = "super" =>
               \A b \in 1 .. UsedOnDisk - 1 :
                   /\ disk'[b].kind = disk[b].kind
                   /\ disk[b].kind = "header" => disk'[b] = disk[b]
    PROVE  ChainIntact'
<1> SUFFICES ASSUME ~grewBlocks, disk[0].kind = "super" PROVE ChainIntact'
  BY DEF ChainIntact
<1>1. UsedOnDisk' = UsedOnDisk /\ UsedOnDisk \in Nat
  BY UsedTyped DEF UsedOnDisk
<1>2. ASSUME NEW b \in Nat \ {0}, ChainFrom(b) PROVE ChainFrom(b)'
  <2>1. CASE b = UsedOnDisk
    BY <1>1, <2>1 DEF ChainFrom
  <2>2. CASE b # UsedOnDisk
    <3>1. b \in 1 .. UsedOnDisk - 1 /\ disk[b].kind = "header"
      BY <1>1, <1>2, <2>2 DEF ChainFrom
    <3>2. disk'[b] = disk[b]
      BY <3>1
    <3>3. \A d \in b + 1 .. b + disk[b].count : disk'[d].kind = "data"
      BY <3>1, CommittedHeader
    <3> QED
      BY <1>1, <1>2, <2>2, <3>2, <3>3 DEF ChainFrom
  <2> QED
    BY <2>1, <2>2
<1>3. ChainFrom(1)'
  BY <1>2 DEF ChainIntact
<1>4. ASSUME NEW b \in 1 .. UsedOnDisk - 1, disk'[b].kind = "header"
      PROVE  ChainFrom(b)' /\ ChainFrom(b + 1 + disk[b].count)'
  <2>1. disk[b].kind = "header" /\ disk'[b] = disk[b]
    BY <1>4
  <2>2. ChainFrom(b) /\ ChainFrom(b + 1 + disk[b].count)
    BY <2>1 DEF ChainIntact
  <2>3. b + 1 + disk[b].count \in Nat \ {0} /\ b \in Nat \ {0}
    BY <1>1, <2>1, CommittedHeader DEF Headers
  <2>4. ChainFrom(b)'
    BY <1>2, <2>2, <2>3
  <2>5. \A x \in Nat \ {0} : ChainFrom(x) => ChainFrom(x)'
    BY <1>2
  <2>6. ChainFrom(b + 1 + disk[b].count)'
    BY <2>1, <2>2, <2>3, <2>5
  <2> QED
    BY <2>1, <2>4, <2>6
<1> QED
  BY <1>1, <1>3, <1>4 DEF ChainIntact

\* A block written beyond the used blocks, or payload over payload.
LEMMA HarmlessWrite ==
    ASSUME TypeOK, TypeOK', ChainIntact, grewBlocks' = grewBlocks,
           NEW t \in Nat \ {0}, NEW x \in Contents,
           disk' = disk \/ (t \in Blocks /\ disk' = [disk EXCEPT ![t] = x]),
           ~grewBlocks /\ disk[0].kind = "super" =>
               t >= UsedOnDisk \/ (disk[t].kind = "data" /\ x.kind = "data")
    PROVE  ChainIntact' /\ UsedOnDisk' = UsedOnDisk /\ disk'[0] = disk[0]
<1>1. disk'[0] = disk[0]
  BY BlockZero DEF TypeOK
<1>2. UsedOnDisk' = UsedOnDisk /\ UsedOnDisk \in Nat
  BY <1>1, UsedTyped DEF UsedOnDisk
<1>3. ASSUME ~grewBlocks, disk[0].kind = "super", NEW b \in 1 .. UsedOnDisk - 1
      PROVE  /\ disk'[b].kind = disk[b].kind
             /\ disk[b].kind = "header" => disk'[b] = disk[b]
  <2>1. b \in Blocks
    BY <1>2, <1>3, SizesAssumption DEF ChainIntact, Blocks
  <2> QED
    BY <1>2, <1>3, <2>1 DEF TypeOK
<1> QED
  BY <1>1, <1>2, <1>3, ChainKept

\* Where write_file puts a payload block: after the end of the chain, or over
\* a payload block of the file that it is for.
LEMMA PayloadTarget ==
    ASSUME TypeInv, ChainIntact, ~grewBlocks, Stage, pc = "payload"
    PROVE  /\ file_header.off + blk \in Nat \ {0}
           /\ \/ AtEnd /\ NewWritten(blk) /\ file_header.off + blk = UsedOnDisk + 1 + blk
              \/ \E b \in 1 .. UsedOnDisk - 1 :
                    /\ InPlace
                    /\ disk[b].kind = "header" /\ disk[b].path = call.path
                    /\ file_header.off + blk \in b + 1 .. b + disk[b].count
                    /\ disk[file_header.off + blk].kind = "data"
<1>1. /\ TypeOK /\ file_header \in Headers /\ blk < file_header.count
      /\ disk[0].kind = "super"
  BY DEF TypeInv, TypeOK, HeaderKnown, Mounted
<1>2. file_header.off \in Nat \ {0, 1} /\ blk \in Nat /\ file_header.count \in Nat
  BY <1>1 DEF Headers, TypeOK
<1>3. UsedOnDisk \in Nat
  BY <1>1, UsedTyped
<1>4. CASE AtEnd /\ NewWritten(blk)
  BY <1>2, <1>3, <1>4 DEF AtEnd
<1>5. CASE InPlace
  <2>1. PICK b \in 1 .. UsedOnDisk - 1 :
          /\ disk[b].kind = "header" /\ disk[b].path = call.path
          /\ file_header.off = b + 1 /\ file_header.count <= disk[b].count
    BY <1>5 DEF InPlace
  <2>2. disk[b].count \in Nat
    BY <1>1, <2>1, CommittedHeader DEF Headers
  <2>3. file_header.off + blk \in b + 1 .. b + disk[b].count
    BY <1>1, <1>2, <1>3, <2>1, <2>2
  <2>4. disk[file_header.off + blk].kind = "data"
    BY <1>1, <2>1, <2>3, CommittedHeader
  <2> QED
    BY <1>2, <1>5, <2>1, <2>3, <2>4
<1> QED
  BY <1>4, <1>5 DEF Stage

\* The partition header that makes a new file part of the chain.
LEMMA CommitChain ==
    ASSUME TypeInv, TypeOK', ChainIntact, ~grewBlocks, grewBlocks' = grewBlocks,
           pc = "super", AtEnd, NewWritten(file_header.count),
           disk' = [disk EXCEPT ![0] = [kind |-> "super", free |-> free_blocks_count]]
    PROVE  ChainIntact' /\ UsedOnDisk' = UsedOnDisk + 1 + file_header.count
<1>1. TypeOK /\ file_header \in Headers /\ disk[0].kind = "super"
  BY DEF TypeInv, TypeOK, HeaderKnown, Mounted
<1>u. PICK U : U = UsedOnDisk
  OBVIOUS
<1>n. PICK n : n = file_header.count
  OBVIOUS
<1>2. U \in Nat /\ U >= 1 /\ U = TotalBlocks - disk[0].free /\ disk[0].free \in Nat
  BY <1>1, <1>u, UsedTyped
<1>3. n \in Nat \ {0} /\ free_blocks_count \in Nat
  BY <1>1, <1>n DEF Headers, TypeOK
<1>4. disk'[0] = [kind |-> "super", free |-> free_blocks_count]
  BY <1>1, BlockZero DEF TypeOK
<1>5. UsedOnDisk' = TotalBlocks - free_blocks_count
  BY <1>4 DEF UsedOnDisk
<1>6. UsedOnDisk' = U + 1 + n
  BY <1>2, <1>3, <1>5, <1>n, SizesAssumption DEF AtEnd
<1>7. \A d \in Blocks : d # 0 => disk'[d] = disk[d]
  BY <1>1 DEF TypeOK
<1>8. /\ U \in Blocks /\ disk'[U] = file_header
      /\ file_header.off = U + 1 /\ file_header.kind = "header"
  BY <1>1, <1>2, <1>7, <1>u DEF NewWritten, AtEnd, Headers
<1>9. \A d \in U + 1 .. U + n : d \in Blocks /\ disk'[d].kind = "data"
  BY <1>2, <1>3, <1>7, <1>u, <1>n DEF NewWritten
<1>10. U + n \in Blocks
  BY <1>2, <1>3, <1>9
<1>11. UsedOnDisk' <= DevBlocks
  BY <1>2, <1>3, <1>6, <1>10, SizesAssumption DEF Blocks
<1>12. \A x : x = U + 1 + n => ChainFrom(x)'
  BY <1>6 DEF ChainFrom
<1>13. \A x : x = U => ChainFrom(x)'
  <2> SUFFICES ASSUME NEW x, x = U PROVE ChainFrom(x)'
    OBVIOUS
  <2>1. x < UsedOnDisk' /\ x + 1 + n <= UsedOnDisk'
    BY <1>2, <1>3, <1>6
  <2> QED
    BY <2>1, <1>n, <1>8, <1>9 DEF ChainFrom
<1>14. ASSUME NEW b \in 1 .. U - 1, disk[b].kind = "header"
       PROVE  /\ disk'[b] = disk[b] /\ ChainFrom(b)' /\ disk[b].count \in Nat
              /\ b + 1 + disk[b].count <= U
  <2>1. /\ b \in Blocks /\ disk[b] \in Headers /\ disk[b].off = b + 1
        /\ b + 1 + disk[b].count <= U
        /\ \A d \in b + 1 .. b + disk[b].count : d \in Blocks /\ disk[d].kind = "data"
    BY <1>1, <1>14, <1>u, CommittedHeader
  <2>2. disk'[b] = disk[b] /\ disk[b].count \in Nat
    BY <1>2, <1>7, <2>1 DEF Headers
  <2>3. \A d \in b + 1 .. b + disk[b].count : disk'[d].kind = "data"
    <3> TAKE d \in b + 1 .. b + disk[b].count
    <3>1. d # 0 /\ d \in Blocks
      BY <1>2, <2>1, <2>2
    <3> QED
      BY <2>1, <1>7, <3>1
  <2>4. b < UsedOnDisk' /\ b + 1 + disk[b].count <= UsedOnDisk'
    BY <1>2, <1>3, <1>6, <2>1, <2>2
  <2> QED
    BY <1>14, <2>1, <2>2, <2>3, <2>4 DEF ChainFrom
<1>15. ASSUME NEW x \in 1 .. U, ChainFrom(x) PROVE ChainFrom(x)'
  <2>1. CASE x = U
    BY <1>13, <2>1
  <2>2. CASE x # U
    <3>1. x \in 1 .. U - 1 /\ disk[x].kind = "header"
      BY <1>2, <1>15, <1>u, <2>2 DEF ChainFrom
    <3> QED
      BY <1>14, <3>1
  <2> QED
    BY <2>1, <2>2
<1>16. ChainFrom(1)'
  <2>1. ChainFrom(1)
    BY <1>1 DEF ChainIntact
  <2> QED
    BY <1>2, <1>15, <2>1
<1>17. ASSUME NEW b \in 1 .. U + n, disk'[b].kind = "header"
       PROVE  ChainFrom(b)' /\ (\A x : x = b + 1 + disk'[b].count => ChainFrom(x)')
  <2>1. CASE b < U
    <3>1. b \in 1 .. U - 1 /\ disk[b].kind = "header"
      <4>1. b \in Blocks /\ b # 0
        BY <1>2, <1>3, <1>8, <2>1, SizesAssumption DEF Blocks
      <4> QED
        BY <1>2, <1>7, <1>17, <2>1, <4>1
    <3>2. /\ disk'[b] = disk[b] /\ ChainFrom(b)' /\ disk[b].count \in Nat
          /\ b + 1 + disk[b].count <= U
      BY <1>14, <3>1
    <3>3. ChainFrom(b + 1 + disk[b].count)
      BY <1>1, <1>u, <3>1 DEF ChainIntact
    <3>4. b + 1 + disk[b].count \in 1 .. U
      BY <1>2, <3>2
    <3>5. \A x : x = b + 1 + disk[b].count => ChainFrom(x)'
      BY <1>15, <3>3, <3>4
    <3> QED
      BY <3>2, <3>5
  <2>2. CASE b = U
    <3>1. disk'[b].count = n
      BY <1>8, <1>n, <2>2
    <3> QED
      BY <1>12, <1>13, <2>2, <3>1
  <2>3. CASE b > U
    <3>1. b \in U + 1 .. U + n
      BY <1>2, <1>3, <2>3
    <3> QED
      BY <1>9, <1>17, <3>1
  <2> QED
    BY <1>2, <1>3, <2>1, <2>2, <2>3
<1>18. ChainIntact'
  <2>1. \A b \in 1 .. UsedOnDisk' - 1 :
          disk'[b].kind = "header" => ChainFrom(b)' /\ ChainFrom(b + 1 + disk[b].count)'
    <3> SUFFICES ASSUME NEW b \in 1 .. UsedOnDisk' - 1, disk'[b].kind = "header"
                 PROVE  ChainFrom(b)' /\ ChainFrom(b + 1 + disk[b].count)'
      OBVIOUS
    <3>1. b \in 1 .. U + n
      BY <1>2, <1>3, <1>6
    <3> QED
      BY <1>17, <3>1
  <2> QED
    BY <1>11, <1>16, <2>1 DEF ChainIntact
<1> QED
  BY <1>6, <1>18, <1>u, <1>n

-----------------------------------------------------------------------------
(* The inductive invariant *)

LEMMA InvParts == IInv <=> TypeInv /\ ChainIntact /\ (~grewBlocks => Stage)
BY DEF IInv, TypeInv

LEMMA InitInv == Init => IInv
<1> SUFFICES ASSUME Init PROVE IInv
  OBVIOUS
<1>1. disk[0].kind = "data"
  BY BlockZero DEF Init, ZeroPayload
<1>2. ChainIntact
  BY <1>1 DEF ChainIntact
<1>3. Stage
  BY <1>1 DEF Init, Stage
<1> QED
  BY <1>2, <1>3, InitType, InvParts

\* A call that has returned is bound to nothing.
LEMMA ReturnStage ==
    ASSUME NEW code, NEW bytes, Return(code, bytes)
    PROVE  Stage' /\ grewBlocks' = grewBlocks
BY DEF Return, Stage

\* A step that moves no block onto the medium.
LEMMA ChainUnmoved ==
    ASSUME ChainIntact, UNCHANGED disk, ~grewBlocks' => ~grewBlocks
    PROVE  ChainIntact'
<1>1. UsedOnDisk' = UsedOnDisk
  BY DEF UsedOnDisk
<1>2. \A b : ChainFrom(b)' <=> ChainFrom(b)
  BY <1>1 DEF ChainFrom
<1> QED
  BY <1>1, <1>2 DEF ChainIntact

\* A refused or accepted block is the only difference to the medium.
LEMMA WriteBlockEffect ==
    ASSUME NEW b, NEW x, NEW ok \in BOOLEAN, write_block(b, x, ok)
    PROVE  /\ disk' = disk \/ (b \in Blocks /\ disk' = [disk EXCEPT ![b] = x])
           /\ ok => b \in Blocks /\ disk' = [disk EXCEPT ![b] = x]
BY DEF write_block

\* A header found in the chain is that of a committed file.
LEMMA FoundInPlace ==
    ASSUME IInv, ~grewBlocks, NEW h, h = disk[curr_block], h.kind = "header",
           pc \in {"find", "rscan"}, curr_block < used_blocks, is_path_equal(call.path, h),
           file_header' = h, UNCHANGED <<disk, call, free_blocks_count>>
    PROVE  InPlace'
<1>1. TypeOK /\ ChainIntact /\ Stage /\ disk[0].kind = "super"
  BY DEF IInv, HeaderKnown, Mounted
<1>2. free_blocks_count = disk[0].free /\ curr_block >= 1
  BY <1>1 DEF Stage
<1>3. UsedOnDisk \in Nat /\ UsedOnDisk' = UsedOnDisk /\ UsedOnDisk = used_blocks
  BY <1>1, <1>2, UsedTyped DEF UsedOnDisk, used_blocks
<1>4. curr_block \in 1 .. UsedOnDisk - 1
  BY <1>1, <1>2, <1>3 DEF TypeOK
<1>5. h.off = curr_block + 1 /\ h.count \in Nat /\ h.path = call.path
  BY <1>1, <1>4, CommittedHeader DEF Headers, is_path_equal
<1>6. PICK b : b = curr_block
  OBVIOUS
<1>7. /\ b \in 1 .. UsedOnDisk' - 1
      /\ disk'[b].kind = "header" /\ disk'[b].path = call'.path
      /\ file_header'.off = b + 1
      /\ file_header'.count <= disk'[b].count
  BY <1>3, <1>4, <1>5, <1>6
<1> QED
  BY <1>2, <1>7 DEF InPlace

LEMMA NextInv == IInv /\ [Next]_vars => IInv'
<1> SUFFICES ASSUME IInv, [Next]_vars PROVE IInv'
  OBVIOUS
<1>t. TypeInv /\ TypeOK /\ HeaderKnown /\ ChainIntact /\ (~grewBlocks => Stage)
  BY DEF IInv, TypeInv
<1>tt. TypeInv' /\ TypeOK'
  BY <1>t, NextType DEF TypeInv
<1>q. SUFFICES ChainIntact' /\ (~grewBlocks' => Stage')
  BY <1>tt DEF IInv, TypeInv
<1>1. CASE \E c \in Calls : Call(c)
  BY <1>1, <1>t, ChainUnmoved DEF Call, locals, Stage
<1>2. ASSUME NEW ok \in BOOLEAN, format(ok) PROVE ChainIntact' /\ (~grewBlocks' => Stage')
  <2>1. /\ pc = "boot" /\ pc' = "idle" /\ UNCHANGED <<grewBlocks, file_header>>
        /\ write_block(0, [kind |-> "super", free |-> TotalBlocks - 1], ok)
    BY <1>2 DEF format, Goto, locals
  <2>2. ~grewBlocks' => Stage'
    BY <2>1, <1>t DEF Stage
  <2>3. CASE disk' = disk
    BY <2>1, <2>2, <2>3, <1>t, ChainUnmoved
  <2>4. CASE disk' # disk
    <3>1. disk'[0] = [kind |-> "super", free |-> TotalBlocks - 1]
      BY <2>1, <2>4, <1>t, WriteBlockEffect DEF TypeOK
    <3>2. UsedOnDisk' = 1
      BY <3>1, SizesAssumption DEF UsedOnDisk
    <3>3. ChainFrom(1)'
      BY <3>2 DEF ChainFrom
    <3> QED
      BY <2>2, <3>2, <3>3, SizesAssumption DEF ChainIntact
  <2> QED
    BY <2>2, <2>3, <2>4
<1>3. ASSUME NEW ok \in BOOLEAN, mount_existing(ok)
      PROVE  ChainIntact' /\ (~grewBlocks' => Stage')
  <2>1. CASE Return("DeviceNotMounted", <<>>) \/ Return("InvalidPath", <<>>)
    BY <1>3, <2>1, <1>t, ReturnStage, ChainUnmoved DEF mount_existing
  <2>2. CASE ~Return("DeviceNotMounted", <<>>) /\ ~Return("InvalidPath", <<>>)
    <3>1. /\ free_blocks_count' = disk[0].free /\ curr_block' = 1 /\ pc' \in {"rscan", "find"}
          /\ pc = "mount" /\ UNCHANGED <<disk, file_header, grewBlocks>>
      BY <1>3, <2>2 DEF mount_existing, Goto
    <3> QED
      BY <3>1, <1>t, ChainUnmoved DEF Stage
  <2> QED
    BY <2>1, <2>2
<1>4. ASSUME NotFound, pc \in {"find", "rscan"}, UNCHANGED disk
      PROVE  ChainIntact' /\ (~grewBlocks' => Stage')
  <2>1. CASE call.op = "write"
    <3>1. pc' = "alloc" /\ UNCHANGED <<call, locals, grewBlocks>>
      BY <1>4, <2>1 DEF NotFound, Goto
    <3>2. InPlace => InPlace'
      BY <1>4, <3>1 DEF InPlace, UsedOnDisk, locals
    <3> QED
      BY <1>4, <3>1, <3>2, <1>t, ChainUnmoved DEF locals, Stage
  <2>2. CASE call.op # "write"
    BY <1>4, <2>2, <1>t, ReturnStage, ChainUnmoved DEF NotFound
  <2> QED
    BY <2>1, <2>2
<1>5. ASSUME NEW ok \in BOOLEAN, ScanBlock(ok) PROVE ChainIntact' /\ (~grewBlocks' => Stage')
  <2>1. pc \in {"find", "rscan"} /\ curr_block < used_blocks /\ UNCHANGED disk
    BY <1>5 DEF ScanBlock
  <2>2. CASE NotFound
    BY <1>4, <2>1, <2>2
  <2>3. CASE /\ disk[curr_block].kind = "header" /\ is_path_equal(call.path, disk[curr_block])
             /\ Found(disk[curr_block])
    <3>1. CASE Return("Success", <<>>)
      BY <2>1, <3>1, <1>t, ReturnStage, ChainUnmoved
    <3>2. CASE ~Return("Success", <<>>)
      <4>1. /\ file_header' = disk[curr_block] /\ pc' \in {"rscan", "rload"}
            /\ curr_block' \in {1, curr_block}
            /\ UNCHANGED <<call, free_blocks_count, grewBlocks>>
        BY <2>3, <3>2 DEF Found, Goto
      <4>2. ~grewBlocks => InPlace'
        BY <2>1, <2>3, <4>1, FoundInPlace
      <4>3. ~grewBlocks => curr_block' >= 1 /\ free_blocks_count' = disk'[0].free
        BY <2>1, <4>1, <1>t DEF Stage
      <4> QED
        BY <2>1, <4>1, <4>2, <4>3, <1>t, ChainUnmoved DEF Stage
    <3> QED
      BY <3>1, <3>2
  <2>4. CASE /\ ok /\ curr_block' = curr_block + Skip(disk[curr_block])
             /\ Goto(pc)
             /\ UNCHANGED <<free_blocks_count, file_header, buffer, expanded_data, blk, grewBlocks>>
    <3>1. curr_block \in Blocks
      BY <1>5, <2>4, <1>t, ReadBlockTyped DEF ScanBlock, TypeOK
    <3>2. Skip(disk[curr_block]) \in Nat
      BY <3>1, <1>t, BlockByKind DEF Skip, Headers, TypeOK
    <3>3. ~grewBlocks => curr_block' >= 1
      BY <2>1, <2>4, <3>2, <1>t DEF Stage, TypeOK
    <3>4. InPlace => InPlace'
      BY <2>1, <2>4 DEF InPlace, UsedOnDisk, Goto
    <3> QED
      BY <2>1, <2>4, <3>3, <3>4, <1>t, ChainUnmoved DEF Goto, Stage
  <2> QED
    BY <1>5, <2>2, <2>3, <2>4 DEF ScanBlock
<1>6. CASE ScanEnd
  BY <1>4, <1>6 DEF ScanEnd
<1>7. ASSUME NEW ok \in BOOLEAN, LoadBlock(ok) PROVE ChainIntact' /\ (~grewBlocks' => Stage')
  <2>1. pc = "rload" /\ UNCHANGED disk
    BY <1>7 DEF LoadBlock
  <2>2. CASE \E code, bytes : Return(code, bytes)
    BY <2>1, <2>2, <1>t, ReturnStage, ChainUnmoved
  <2>3. CASE ~(\E code, bytes : Return(code, bytes))
    <3>1. /\ pc' \in {"alloc", "rload"}
          /\ UNCHANGED <<call, free_blocks_count, curr_block, file_header, grewBlocks>>
      BY <1>7, <2>3 DEF LoadBlock, Goto
    <3>2. InPlace => InPlace'
      BY <2>1, <3>1 DEF InPlace, UsedOnDisk
    <3> QED
      BY <2>1, <3>1, <3>2, <1>t, ChainUnmoved DEF Stage
  <2> QED
    BY <2>2, <2>3
<1>8. CASE AllocateNew
  <2> DEFINE n == BlocksFor(final_size)
  <2>1. UNCHANGED disk /\ pc = "alloc"
    BY <1>8 DEF AllocateNew
  <2>2. CASE \E code : Return(code, <<>>)
    BY <2>1, <2>2, <1>t, ReturnStage, ChainUnmoved
  <2>3. CASE ~(\E code : Return(code, <<>>))
    <3>1. /\ final_size # 0 /\ pc' = "header" /\ UNCHANGED grewBlocks
          /\ file_header'.off = used_blocks + 1 /\ file_header'.count = n
          /\ free_blocks_count' = free_blocks_count - (1 + n)
      BY <1>8, <2>3 DEF AllocateNew, BlocksTaken, assigned_header_block, Prepared, Goto, NewHeader
    <3>2. n \in Nat
      BY <3>1, <1>t, FinalSizeTyped, BlocksForPositive
    <3>3. ~grewBlocks => free_blocks_count = disk[0].free
      BY <2>1, <1>t DEF Stage
    <3>4. ~grewBlocks => used_blocks = UsedOnDisk /\ UsedOnDisk' = UsedOnDisk
      BY <2>1, <3>3, <1>t DEF used_blocks, UsedOnDisk, HeaderKnown, Mounted
    <3> HIDE DEF n
    <3>5. ~grewBlocks => AtEnd'
      BY <2>1, <3>1, <3>2, <3>3, <3>4, <1>t DEF AtEnd, TypeOK
    <3> QED
      BY <2>1, <3>1, <3>5, <1>t, ChainUnmoved DEF Stage
  <2> QED
    BY <2>2, <2>3
<1>9. CASE AllocateMore
  <2> DEFINE n == BlocksFor(final_size)
             extra == IF n > file_header.count THEN n - file_header.count ELSE 0
  <2>1. UNCHANGED disk /\ pc = "alloc" /\ file_exists
    BY <1>9 DEF AllocateMore
  <2>2. CASE Return("NoSpaceLeft", <<>>)
    BY <2>1, <2>2, <1>t, ReturnStage, ChainUnmoved
  <2>3. CASE ~Return("NoSpaceLeft", <<>>)
    <3>1. /\ pc' = "payload" /\ UNCHANGED call
          /\ file_header'.off = file_header.off /\ file_header'.count = n
          /\ free_blocks_count' = free_blocks_count - extra
          /\ grewBlocks' = (grewBlocks \/ extra > 0)
      BY <1>9, <2>3 DEF AllocateMore, Prepared, Goto, NewHeader
    <3>2. n \in Nat /\ file_header \in Headers
      BY <2>1, <1>t, FinalSizeTyped, BlocksForPositive DEF file_exists, TypeOK
    <3>3. file_header.count \in Nat
      BY <3>2 DEF Headers
    <3>4. ~grewBlocks' => ~grewBlocks /\ extra = 0 /\ n <= file_header.count
      <4> HIDE DEF n
      <4>1. extra = 0 \/ extra > 0
        BY <3>2, <3>3
      <4>2. extra = 0 => n <= file_header.count
        BY <3>2, <3>3
      <4> QED
        BY <3>1, <4>1, <4>2
    <3>5. ASSUME ~grewBlocks' PROVE InPlace'
      <4>1. InPlace /\ free_blocks_count = disk[0].free
        BY <2>1, <3>4, <3>5, <1>t DEF Stage, file_exists
      <4>2. PICK b \in 1 .. UsedOnDisk - 1 :
              /\ disk[b].kind = "header" /\ disk[b].path = call.path
              /\ file_header.off = b + 1 /\ file_header.count <= disk[b].count
        BY <4>1 DEF InPlace
      <4>3. disk[b].count \in Nat
        <5>1. disk[0].kind = "super"
          BY <2>1, <1>t DEF HeaderKnown, Mounted
        <5> QED
          BY <3>4, <3>5, <4>2, <5>1, <1>t, CommittedHeader DEF Headers
      <4>4. file_header'.count <= disk[b].count
        <5> HIDE DEF n
        <5> QED
          BY <3>1, <3>2, <3>3, <3>4, <3>5, <4>2, <4>3
      <4>5. free_blocks_count' = disk'[0].free
        BY <2>1, <3>1, <3>4, <3>5, <4>1, <1>t DEF TypeOK
      <4>6. UsedOnDisk' = UsedOnDisk
        BY <2>1 DEF UsedOnDisk
      <4> QED
        BY <2>1, <3>1, <4>2, <4>4, <4>5, <4>6 DEF InPlace
    <3> QED
      BY <2>1, <3>1, <3>4, <3>5, <1>t, ChainUnmoved DEF Stage
  <2> QED
    BY <2>2, <2>3
<1>10. ASSUME NEW ok \in BOOLEAN, WriteHeader(ok) PROVE ChainIntact' /\ (~grewBlocks' => Stage')
  <2>1. /\ pc = "header" /\ file_header \in Headers /\ disk[0].kind = "super"
        /\ write_block(file_header.off - 1, file_header, ok) /\ blk = 0
    BY <1>10, <1>t DEF WriteHeader, WriteStep, HeaderKnown, TypeOK, Mounted
  <2>2. file_header.off - 1 \in Nat \ {0} /\ file_header \in Contents
    BY <2>1 DEF Headers, Contents
  <2>3. UsedOnDisk \in Nat
    BY <1>t, UsedTyped
  <2>4. ~grewBlocks => AtEnd /\ file_header.off - 1 = UsedOnDisk
    BY <2>1, <2>3, <1>t DEF Stage, AtEnd
  <2>5. grewBlocks' = grewBlocks
    BY <1>10, ReturnStage DEF WriteHeader, WriteStep
  <2>6. /\ disk' = disk \/ (/\ file_header.off - 1 \in Blocks
                            /\ disk' = [disk EXCEPT ![file_header.off - 1] = file_header])
        /\ ok => /\ file_header.off - 1 \in Blocks
                 /\ disk' = [disk EXCEPT ![file_header.off - 1] = file_header]
    BY <2>1, WriteBlockEffect
  <2>7. ChainIntact' /\ UsedOnDisk' = UsedOnDisk /\ disk'[0] = disk[0]
    <3>1. ~grewBlocks /\ disk[0].kind = "super" => file_header.off - 1 >= UsedOnDisk
      BY <2>3, <2>4
    <3> QED
      BY <2>2, <2>5, <2>6, <3>1, <1>t, <1>tt, HarmlessWrite
  <2>8. CASE ~ok
    BY <1>10, <2>7, <2>8, ReturnStage DEF WriteHeader, WriteStep
  <2>9. CASE ok
    <3>1. /\ pc' = "payload" /\ blk' = 0
          /\ UNCHANGED <<free_blocks_count, file_header, call>>
      BY <1>10, <2>1, <2>9 DEF WriteHeader, WriteStep, Goto
    <3>2. ~grewBlocks => AtEnd'
      BY <2>4, <2>7, <3>1 DEF AtEnd
    <3>3. ~grewBlocks => UsedOnDisk \in Blocks /\ disk'[UsedOnDisk] = file_header
      BY <2>4, <2>6, <2>9, <1>t DEF TypeOK
    <3>4. ~grewBlocks => NewWritten(blk)'
      <4>1. UsedOnDisk' + 1 .. UsedOnDisk' + 0 = {}
        BY <2>3, <2>7
      <4> QED
        BY <2>7, <3>1, <3>3, <4>1 DEF NewWritten
    <3> QED
      BY <2>5, <2>7, <3>1, <3>2, <3>4 DEF Stage
  <2> QED
    BY <2>8, <2>9
<1>11. ASSUME NEW ok \in BOOLEAN, WritePayload(ok) PROVE ChainIntact' /\ (~grewBlocks' => Stage')
  <2>1. /\ pc = "payload" /\ file_header \in Headers /\ disk[0].kind = "super"
        /\ write_block(file_header.off + blk, Chunk(blk), ok) /\ blk < file_header.count
    BY <1>11, <1>t DEF WritePayload, WriteStep, HeaderKnown, TypeOK, Mounted
  <2>2. Chunk(blk) \in Contents /\ Chunk(blk).kind = "data"
    BY <1>t, ChunkTyped DEF TypeOK, Contents, Payloads
  <2>3. UsedOnDisk \in Nat /\ blk \in Nat /\ file_header.count \in Nat /\ file_header.off \in Nat
    BY <2>1, <1>t, UsedTyped DEF TypeOK, Headers
  <2>4. grewBlocks' = grewBlocks
    BY <1>11, ReturnStage DEF WritePayload, WriteStep
  <2> DEFINE t == file_header.off + blk
  <2>5. /\ disk' = disk \/ (t \in Blocks /\ disk' = [disk EXCEPT ![t] = Chunk(blk)])
        /\ ok => t \in Blocks /\ disk' = [disk EXCEPT ![t] = Chunk(blk)]
    BY <2>1, WriteBlockEffect
  <2>6. t \in Nat \ {0}
    BY <2>1, <2>3 DEF Headers
  <2> HIDE DEF t
  <2>7. ChainIntact' /\ UsedOnDisk' = UsedOnDisk /\ disk'[0] = disk[0]
    <3>1. ~grewBlocks => t >= UsedOnDisk \/ disk[t].kind = "data"
      BY <2>1, <2>3, <1>t, PayloadTarget DEF t
    <3> QED
      BY <2>2, <2>4, <2>5, <2>6, <3>1, <1>t, <1>tt, HarmlessWrite
  <2>8. CASE ~ok
    BY <1>11, <2>7, <2>8, ReturnStage DEF WritePayload, WriteStep
  <2>9. CASE ok
    <3>1. /\ pc' = IF blk + 1 < file_header.count THEN "payload" ELSE "super"
          /\ blk' = blk + 1
          /\ UNCHANGED <<free_blocks_count, file_header, call>>
      BY <1>11, <2>9 DEF WritePayload, WriteStep, Goto
    <3>2. pc' = "super" => blk' = file_header'.count
      BY <2>1, <2>3, <3>1
    <3> SUFFICES ASSUME ~grewBlocks
                 PROVE  InPlace' \/ (AtEnd' /\ \A m : m = blk' => NewWritten(m)')
      BY <2>4, <2>7, <3>1, <3>2 DEF Stage
    <3>3. CASE AtEnd /\ NewWritten(blk) /\ t = UsedOnDisk + 1 + blk
      <4>1. AtEnd'
        BY <2>7, <3>1, <3>3 DEF AtEnd
      <4>2. disk'[UsedOnDisk] = file_header
        BY <2>3, <2>5, <3>3, <1>t DEF NewWritten, TypeOK
      <4>3. ASSUME NEW d \in UsedOnDisk + 1 .. UsedOnDisk + (blk + 1)
            PROVE  d \in Blocks /\ disk'[d].kind = "data"
        <5>1. CASE d = t
          BY <2>2, <2>5, <2>9, <5>1, <1>t DEF TypeOK
        <5>2. CASE d # t
          <6>1. d \in UsedOnDisk + 1 .. UsedOnDisk + blk
            BY <2>3, <3>3, <5>2
          <6> QED
            BY <2>5, <3>3, <5>2, <6>1, <1>t DEF NewWritten, TypeOK
        <5> QED
          BY <5>1, <5>2
      <4>4. ASSUME NEW m, m = blk' PROVE NewWritten(m)'
        BY <2>7, <3>1, <3>3, <4>2, <4>3, <4>4 DEF NewWritten
      <4> QED
        BY <4>1, <4>4
    <3>4. CASE \E b \in 1 .. UsedOnDisk - 1 :
                 /\ InPlace
                 /\ disk[b].kind = "header" /\ disk[b].path = call.path
                 /\ t \in b + 1 .. b + disk[b].count
                 /\ disk[t].kind = "data"
      <4>1. PICK b \in 1 .. UsedOnDisk - 1 :
              /\ disk[b].kind = "header" /\ disk[b].path = call.path
              /\ file_header.off = b + 1 /\ file_header.count <= disk[b].count
        BY <3>4 DEF InPlace
      <4>2. b \in Blocks
        BY <2>1, <4>1, <1>t, CommittedHeader
      <4>3. disk'[b] = disk[b]
        BY <2>5, <3>4, <4>1, <4>2, <1>t DEF TypeOK
      <4>4. free_blocks_count' = disk'[0].free
        BY <2>7, <3>1, <3>4 DEF InPlace
      <4> QED
        BY <2>7, <3>1, <4>1, <4>3, <4>4 DEF InPlace
    <3> QED
      BY <2>1, <3>3, <3>4, <1>t, PayloadTarget DEF t
  <2> QED
    BY <2>8, <2>9
<1>12. ASSUME NEW ok \in BOOLEAN, WriteSuper(ok) PROVE ChainIntact' /\ (~grewBlocks' => Stage')
  <2>1. /\ pc = "super" /\ disk[0].kind = "super" /\ grewBlocks' = grewBlocks /\ Stage'
    BY <1>12, <1>t, ReturnStage DEF WriteSuper, HeaderKnown, Mounted
  <2>2. \/ disk' = disk
        \/ disk' = [disk EXCEPT ![0] = [kind |-> "super", free |-> free_blocks_count]]
    BY <1>12, WriteBlockEffect DEF WriteSuper
  <2>3. CASE disk' = disk
    BY <2>1, <2>3, <1>t, ChainUnmoved
  <2>4. CASE grewBlocks
    BY <2>1, <2>4 DEF ChainIntact
  <2>5. CASE /\ disk' = [disk EXCEPT ![0] = [kind |-> "super", free |-> free_blocks_count]]
             /\ ~grewBlocks
    <3>1. CASE AtEnd /\ NewWritten(file_header.count)
      BY <2>1, <2>5, <3>1, <1>t, <1>tt, CommitChain
    <3>2. CASE InPlace
      <4>1. disk[0] = [kind |-> "super", free |-> free_blocks_count]
        BY <2>1, <3>2, <1>t, BlockZero, BlockByKind DEF InPlace, TypeOK, Superblocks
      <4>2. disk' = disk
        BY <2>5, <4>1, <1>t, BlockZero DEF TypeOK
      <4> QED
        BY <2>1, <4>2, <1>t, ChainUnmoved
    <3> QED
      BY <2>1, <2>5, <3>1, <3>2, <1>t DEF Stage
  <2> QED
    BY <2>2, <2>3, <2>4, <2>5
<1>13. CASE UNCHANGED vars
  BY <1>13, <1>t, ChainUnmoved DEF vars, locals, Stage, InPlace, AtEnd, NewWritten, UsedOnDisk
<1> QED
  BY <1>1, <1>2, <1>3, <1>5, <1>6, <1>7, <1>8, <1>9, <1>10, <1>11, <1>12, <1>13 DEF Next, Step

\* Whatever blocks the device refuses and wherever a call gives up, the files
\* stay chained header to header up to the end of the used blocks, so the walk
\* of find_file_header meets every committed file, as long as no file was
\* given more blocks.
THEOREM ChainCorrect == Spec => []ChainIntact
<1>1. Spec => []IInv
  BY InitInv, NextInv, PTL DEF Spec
<1>2. IInv => ChainIntact
  BY DEF IInv
<1> QED
  BY <1>1, <1>2, PTL

-----------------------------------------------------------------------------
(* What a step leaves alone *)

\* Two committed files have no block in common, so a payload block that is put
\* over one of the file of the call is put over none of another.
LEMMA FilesApart ==
    ASSUME IInv, ~grewBlocks, disk[0].kind = "super",
           NEW b \in 1 .. UsedOnDisk - 1, disk[b].kind = "header",
           NEW c \in 1 .. UsedOnDisk - 1, disk[c].kind = "header", b # c,
           NEW t \in b + 1 .. b + disk[b].count
    PROVE  t \notin c + 1 .. c + disk[c].count
<1>1. TypeOK /\ ChainIntact /\ UsedOnDisk \in Nat
  BY UsedTyped DEF IInv
<1>2. /\ disk[b].count \in Nat /\ disk[c].count \in Nat
      /\ \A d \in b + 1 .. b + disk[b].count : disk[d].kind = "data"
      /\ \A d \in c + 1 .. c + disk[c].count : disk[d].kind = "data"
  BY <1>1, CommittedHeader DEF Headers
<1>3. c \notin b + 1 .. b + disk[b].count /\ b \notin c + 1 .. c + disk[c].count
  BY <1>2
<1> QED
  BY <1>1, <1>2, <1>3

\* A step that puts nothing onto the medium.
LEMMA UnmovedKept ==
    ASSUME IInv, UNCHANGED disk
    PROVE  CommittedKept
<1>1. UsedOnDisk' = UsedOnDisk /\ UsedOnDisk \in Nat
  BY UsedTyped DEF UsedOnDisk, IInv
<1> QED
  BY <1>1 DEF CommittedKept

\* A block at or after the end of the used blocks is of no committed file.
LEMMA BeyondKept ==
    ASSUME IInv, ~grewBlocks, disk[0].kind = "super", NEW t \in Nat \ {0}, NEW x,
           disk' = disk \/ disk' = [disk EXCEPT ![t] = x], t >= UsedOnDisk
    PROVE  CommittedKept
<1>1. TypeOK /\ ChainIntact /\ UsedOnDisk \in Nat
  BY UsedTyped DEF IInv
<1>2. disk'[0] = disk[0]
  BY <1>1, BlockZero DEF TypeOK
<1>3. UsedOnDisk' = UsedOnDisk
  BY <1>2 DEF UsedOnDisk
<1>4. ASSUME NEW d \in 1 .. UsedOnDisk - 1, d \in Blocks PROVE disk'[d] = disk[d]
  BY <1>1, <1>4 DEF TypeOK
<1>5. ASSUME NEW b \in 1 .. UsedOnDisk - 1, disk[b].kind = "header"
      PROVE  /\ b < UsedOnDisk' /\ disk'[b] = disk[b]
             /\ \A d \in b + 1 .. b + disk[b].count : disk'[d] = disk[d]
  BY <1>1, <1>3, <1>4, <1>5, CommittedHeader
<1> QED
  BY <1>5 DEF CommittedKept

LEMMA NextKept == IInv /\ [Next]_vars => (~grewBlocks' => CommittedKept)
<1> SUFFICES ASSUME IInv, [Next]_vars, ~grewBlocks' PROVE CommittedKept
  OBVIOUS
<1>t. TypeInv /\ TypeOK /\ HeaderKnown /\ ChainIntact /\ (~grewBlocks => Stage)
  BY DEF IInv, TypeInv
<1>u. UsedOnDisk \in Nat
  BY <1>t, UsedTyped
<1>1. CASE UNCHANGED disk
  BY <1>1, UnmovedKept
<1>2. ASSUME NEW ok \in BOOLEAN, format(ok) PROVE CommittedKept
  <2>1. grewBlocks' = grewBlocks /\ pc = "boot"
    BY <1>2 DEF format
  <2>2. UsedOnDisk = 0
    BY <2>1, <1>t DEF Stage, UsedOnDisk
  <2> QED
    BY <2>2 DEF CommittedKept
<1>3. ASSUME NEW ok \in BOOLEAN, WriteHeader(ok) PROVE CommittedKept
  <2>1. /\ pc = "header" /\ file_header \in Headers /\ disk[0].kind = "super"
        /\ write_block(file_header.off - 1, file_header, ok) /\ ~grewBlocks
    BY <1>3, <1>t, ReturnStage DEF WriteHeader, WriteStep, HeaderKnown, TypeOK, Mounted
  <2>2. file_header.off - 1 \in Nat \ {0} /\ file_header.off - 1 >= UsedOnDisk
    BY <2>1, <1>t, <1>u DEF Headers, Stage, AtEnd
  <2>3. disk' = disk \/ disk' = [disk EXCEPT ![file_header.off - 1] = file_header]
    BY <2>1, WriteBlockEffect
  <2> QED
    BY <2>1, <2>2, <2>3, BeyondKept
<1>4. ASSUME NEW ok \in BOOLEAN, WritePayload(ok) PROVE CommittedKept
  <2>1. /\ pc = "payload" /\ disk[0].kind = "super" /\ ~grewBlocks
        /\ write_block(file_header.off + blk, Chunk(blk), ok)
    BY <1>4, <1>t, ReturnStage DEF WritePayload, WriteStep, HeaderKnown, Mounted
  <2> DEFINE t == file_header.off + blk
  <2>2. t \in Nat \ {0} /\ (disk' = disk \/ disk' = [disk EXCEPT ![t] = Chunk(blk)])
    BY <2>1, <1>t, WriteBlockEffect, PayloadTarget
  <2>3. CASE t >= UsedOnDisk
    BY <2>1, <2>2, <2>3, BeyondKept
  <2>4. CASE ~(t >= UsedOnDisk)
    <3>1. PICK b \in 1 .. UsedOnDisk - 1 :
            /\ disk[b].kind = "header" /\ disk[b].path = call.path
            /\ t \in b + 1 .. b + disk[b].count /\ disk[t].kind = "data"
      BY <2>1, <2>4, <1>t, <1>u, PayloadTarget DEF TypeOK
    <3> HIDE DEF t
    <3>2. disk'[0] = disk[0]
      BY <2>2, <1>t, BlockZero DEF TypeOK
    <3>3. UsedOnDisk' = UsedOnDisk
      BY <3>2 DEF UsedOnDisk
    <3>4. ASSUME NEW c \in 1 .. UsedOnDisk - 1, disk[c].kind = "header"
          PROVE  /\ c < UsedOnDisk' /\ disk'[c] = disk[c]
                 /\ disk[c].path # call.path =>
                      \A d \in c + 1 .. c + disk[c].count : disk'[d] = disk[d]
      <4>1. c \in Blocks /\ \A d \in c + 1 .. c + disk[c].count : d \in Blocks
        BY <2>1, <3>4, <1>t, CommittedHeader
      <4>2. c < UsedOnDisk' /\ disk'[c] = disk[c]
        BY <2>2, <3>1, <3>3, <3>4, <4>1, <1>t, <1>u DEF TypeOK
      <4>3. ASSUME disk[c].path # call.path, NEW d \in c + 1 .. c + disk[c].count
            PROVE  disk'[d] = disk[d]
        <5>1. d # t
          BY <2>1, <3>1, <3>4, <4>3, FilesApart
        <5> QED
          BY <2>2, <4>1, <5>1, <1>t DEF TypeOK
      <4> QED
        BY <4>2, <4>3
    <3> QED
      BY <3>4 DEF CommittedKept
  <2> QED
    BY <2>3, <2>4
<1>5. ASSUME NEW ok \in BOOLEAN, WriteSuper(ok) PROVE CommittedKept
  <2>1. /\ pc = "super" /\ disk[0].kind = "super" /\ ~grewBlocks /\ Stage
        /\ grewBlocks' = grewBlocks /\ file_header \in Headers
    BY <1>5, <1>t, ReturnStage DEF WriteSuper, HeaderKnown, Mounted, TypeOK
  <2>2. CASE UNCHANGED disk
    BY <2>2, UnmovedKept
  <2>3. CASE disk' # disk
    <3>1. disk' = [disk EXCEPT ![0] = [kind |-> "super", free |-> free_blocks_count]]
      BY <1>5, <2>3, WriteBlockEffect DEF WriteSuper
    <3>2. disk'[0] = [kind |-> "super", free |-> free_blocks_count]
      BY <3>1, <1>t, BlockZero DEF TypeOK
    <3>3. UsedOnDisk' >= UsedOnDisk /\ UsedOnDisk' \in Int
      <4>1. UsedOnDisk' = TotalBlocks - free_blocks_count /\ UsedOnDisk = TotalBlocks - disk[0].free
        BY <2>1, <3>2 DEF UsedOnDisk
      <4>2. free_blocks_count <= disk[0].free /\ disk[0].free \in Nat
        BY <2>1, <1>t, UsedTyped DEF Stage, InPlace, AtEnd, Headers, TypeOK
      <4> QED
        BY <4>1, <4>2, <1>t, SizesAssumption DEF TypeOK
    <3>4. \A d \in Blocks : d # 0 => disk'[d] = disk[d]
      BY <3>1, <1>t DEF TypeOK
    <3>5. ASSUME NEW c \in 1 .. UsedOnDisk - 1, disk[c].kind = "header"
          PROVE  /\ c < UsedOnDisk' /\ disk'[c] = disk[c]
                 /\ \A d \in c + 1 .. c + disk[c].count : disk'[d] = disk[d]
      <4>1. /\ c \in Blocks /\ disk[c].count \in Nat
            /\ \A d \in c + 1 .. c + disk[c].count : d \in Blocks /\ d # 0
        BY <2>1, <3>5, <1>t, <1>u, CommittedHeader DEF Headers
      <4> QED
        BY <3>3, <3>4, <3>5, <4>1, <1>u
    <3> QED
      BY <3>5 DEF CommittedKept
  <2> QED
    BY <2>2, <2>3
<1>6. ASSUME NEW ok \in BOOLEAN, mount_existing(ok) \/ ScanBlock(ok) \/ LoadBlock(ok)
      PROVE  UNCHANGED disk
  BY <1>6 DEF mount_existing, ScanBlock, LoadBlock
<1>7. ScanEnd \/ AllocateNew \/ AllocateMore \/ (\E c \in Calls : Call(c)) \/ UNCHANGED vars
        => UNCHANGED disk
  BY DEF ScanEnd, AllocateNew, AllocateMore, Call, vars
<1> QED
  BY <1>1, <1>2, <1>3, <1>4, <1>5, <1>6, <1>7 DEF Next, Step

\* No call, whatever blocks the device refuses it, removes a committed file
\* from the chain, moves it, or changes a block of a file with another path,
\* as long as no file was given more blocks.
THEOREM FilesKept == Spec => OthersUntouched
<1>1. Spec => []IInv
  BY InitInv, NextInv, PTL DEF Spec
<1>2. IInv /\ [Next]_vars => [~grewBlocks' => CommittedKept]_vars
  BY NextKept
<1> QED
  BY <1>1, <1>2, PTL DEF Spec, OthersUntouched

-----------------------------------------------------------------------------
(* Bytes and the blocks they are in *)

LEMMA DivMod ==
    ASSUME NEW q \in Nat, NEW r \in 0 .. BLOCK - 1, NEW n \in Nat, n = q * BLOCK + r
    PROVE  n \div BLOCK = q /\ n % BLOCK = r
<1> PICK B : B = BLOCK
  OBVIOUS
<1>1. B \in Nat \ {0} /\ r \in 0 .. B - 1 /\ n = q * B + r
  BY SizesAssumption
<1>2. n \div B = q
  BY <1>1, SMTT(20)
<1>3. n % B = r
  BY <1>1, SMTT(20)
<1> QED
  BY <1>2, <1>3

LEMMA DivModOf ==
    ASSUME NEW n \in Nat
    PROVE  /\ n \div BLOCK \in Nat /\ n % BLOCK \in 0 .. BLOCK - 1
           /\ n = (n \div BLOCK) * BLOCK + (n % BLOCK)
<1> PICK B : B = BLOCK
  OBVIOUS
<1>1. B \in Nat \ {0}
  BY SizesAssumption
<1>2. n % B = n - B * (n \div B)
  BY <1>1, SMTT(20)
<1>3. n \div B \in Nat
  BY <1>1, SMTT(20)
<1>4. n % B \in 0 .. B - 1
  BY <1>1, SMTT(20)
<1>5. PICK q : q = n \div B
  OBVIOUS
<1>6. PICK r : r = n % B
  OBVIOUS
<1>7. r = n - B * q /\ q \in Nat /\ r \in Nat
  BY <1>2, <1>3, <1>4, <1>5, <1>6
<1>8. n = q * B + r
  BY <1>1, <1>7
<1> QED
  BY <1>3, <1>4, <1>5, <1>6, <1>8

\* A byte before a multiple of the block size is in a block before it.
LEMMA BlockBefore ==
    ASSUME NEW a \in Nat, NEW n \in Nat, a < n * BLOCK
    PROVE  a \div BLOCK < n
<1> DEFINE q == a \div BLOCK
<1>1. q \in Nat /\ a >= q * BLOCK /\ BLOCK \in Nat \ {0}
  BY DivModOf, SizesAssumption
<1> HIDE DEF q
<1>2. SUFFICES ASSUME q >= n PROVE FALSE
  BY <1>1 DEF q
<1>3. q * BLOCK >= n * BLOCK
  BY <1>1, <1>2, Z3
<1> QED
  BY <1>1, <1>3

\* A file of one block more begins where a full block ends.
LEMMA TotalBounds ==
    ASSUME NEW h \in Headers
    PROVE  /\ h.count \in Nat \ {0} /\ h.size \in 1 .. BLOCK /\ TotalSize(h) \in Nat \ {0}
           /\ TotalSize(h) <= h.count * BLOCK /\ h.count * BLOCK \in Nat
           /\ TotalSize(h) + BLOCK = h.count * BLOCK + h.size
<1>1. h.count \in Nat \ {0} /\ h.size \in 1 .. BLOCK /\ BLOCK \in Nat \ {0}
  BY SizesAssumption DEF Headers
<1>2. (h.count - 1) * BLOCK = h.count * BLOCK - BLOCK /\ h.count * BLOCK \in Nat
  BY <1>1, SMTT(20)
<1> QED
  BY <1>1, <1>2, TotalSizePositive DEF TotalSize

\* The number of blocks and the size of the last one follow from the size.
LEMMA SizeAgain ==
    ASSUME NEW h \in Headers
    PROVE  BlocksFor(TotalSize(h)) = h.count /\ LastBlockSize(TotalSize(h)) = h.size
<1>1. /\ h.count \in Nat \ {0} /\ h.size \in 1 .. BLOCK /\ TotalSize(h) \in Nat
      /\ TotalSize(h) + BLOCK = h.count * BLOCK + h.size /\ BLOCK \in Nat \ {0}
      /\ h.count * BLOCK \in Nat
  BY TotalBounds, SizesAssumption
<1>2. BlocksFor(TotalSize(h)) = h.count
  <2> DEFINE n == TotalSize(h) + BLOCK - 1
             r == h.size - 1
  <2>1. n \in Nat /\ n = h.count * BLOCK + r /\ r \in 0 .. BLOCK - 1
    BY <1>1
  <2> HIDE DEF n, r
  <2>2. n \div BLOCK = h.count
    BY <1>1, <2>1, DivMod
  <2> QED
    BY <2>2 DEF BlocksFor, n
<1>3. CASE h.size = BLOCK
  <2>1. TotalSize(h) = h.count * BLOCK + 0 /\ 0 \in 0 .. BLOCK - 1
    BY <1>1, <1>3
  <2>2. TotalSize(h) % BLOCK = 0
    BY <1>1, <2>1, DivMod
  <2> QED
    BY <1>2, <1>3, <2>2 DEF LastBlockSize
<1>4. CASE h.size # BLOCK
  <2>1. PICK q, r : q = h.count - 1 /\ r = h.size
    OBVIOUS
  <2>2. TotalSize(h) = q * BLOCK + r /\ r \in 0 .. BLOCK - 1 /\ q \in Nat
    BY <1>1, <1>4, <2>1 DEF TotalSize
  <2>3. TotalSize(h) % BLOCK = h.size
    <3>1. TotalSize(h) \in Nat
      BY <1>1
    <3>2. TotalSize(h) % BLOCK = r
      BY <2>2, <3>1, DivMod
    <3> QED
      BY <2>1, <3>2
  <2>4. h.size # 0
    BY <1>1
  <2>5. LastBlockSize(TotalSize(h)) = h.size
    BY <2>3, <2>4, Zenon DEF LastBlockSize
  <2> QED
    BY <1>2, <2>5
<1> QED
  BY <1>3, <1>4

\* The block of a byte of a file, and its place in it.
LEMMA PlaceOf ==
    ASSUME NEW h \in Headers, NEW i \in 1 .. TotalSize(h)
    PROVE  /\ (i - 1) \div BLOCK \in 0 .. h.count - 1
           /\ ((i - 1) % BLOCK) + 1 \in 1 .. BLOCK
           /\ i = ((i - 1) \div BLOCK) * BLOCK + (((i - 1) % BLOCK) + 1)
<1>1. PICK a : a = i - 1
  OBVIOUS
<1>2. a \in Nat /\ a < h.count * BLOCK /\ h.count \in Nat
  BY <1>1, TotalBounds
<1>3. a \div BLOCK \in Nat /\ a \div BLOCK < h.count
  BY <1>2, BlockBefore, DivModOf
<1>4. a % BLOCK \in 0 .. BLOCK - 1 /\ a = (a \div BLOCK) * BLOCK + (a % BLOCK)
  BY <1>2, DivModOf
<1>5. PICK q, r : q = a \div BLOCK /\ r = a % BLOCK
  OBVIOUS
<1>6. /\ q \in Nat /\ q < h.count /\ r \in 0 .. BLOCK - 1 /\ a = q * BLOCK + r
      /\ BLOCK \in Nat \ {0} /\ q * BLOCK \in Nat
  BY <1>2, <1>3, <1>4, <1>5, SizesAssumption
<1>7. q \in 0 .. h.count - 1 /\ r + 1 \in 1 .. BLOCK /\ i = q * BLOCK + (r + 1)
  BY <1>1, <1>2, <1>6
<1> QED
  BY <1>1, <1>5, <1>7

-----------------------------------------------------------------------------
(* The files on a medium.  The operators of AbtrFS that look at the disk, for *)
(* any disk, so that a step can be seen from both sides.                      *)

UsedOf(dk) == IF dk[0].kind = "super" THEN TotalBlocks - dk[0].free ELSE 0
HeadersOf(dk, p) ==
    {b \in 1 .. UsedOf(dk) - 1 : b \in Blocks /\ dk[b].kind = "header" /\ is_path_equal(p, dk[b])}
ContentOf(dk, h) ==
    [i \in 1 .. TotalSize(h) |-> BytesOf(dk[h.off + (i - 1) \div BLOCK])[((i - 1) % BLOCK) + 1]]
FirstOf(S) == CHOOSE b \in S : \A c \in S : b <= c
FileOf(dk, p) ==
    IF HeadersOf(dk, p) = {} THEN Absent ELSE ContentOf(dk, dk[FirstOf(HeadersOf(dk, p))])

LEMMA DiskNow ==
    /\ UsedOnDisk = UsedOf(disk)
    /\ \A p : HeaderBlocks(p) = HeadersOf(disk, p)
    /\ \A h : Content(h) = ContentOf(disk, h)
    /\ \A p : FirstHeader(p) = FirstOf(HeadersOf(disk, p))
    /\ \A p : FileAt(p) = FileOf(disk, p)
<1>1. UsedOnDisk = UsedOf(disk)
  BY DEF UsedOnDisk, UsedOf
<1>2. \A p : HeaderBlocks(p) = HeadersOf(disk, p)
  BY <1>1 DEF HeaderBlocks, HeadersOf
<1>3. \A h : Content(h) = ContentOf(disk, h)
  BY DEF Content, ContentOf
<1>4. \A p : FirstHeader(p) = FirstOf(HeadersOf(disk, p))
  BY <1>2 DEF FirstHeader, FirstOf
<1> QED
  BY <1>1, <1>2, <1>3, <1>4 DEF FileAt, FileOf

LEMMA DiskNext ==
    /\ UsedOnDisk' = UsedOf(disk')
    /\ \A p : HeaderBlocks(p)' = HeadersOf(disk', p)
    /\ \A h : Content(h)' = ContentOf(disk', h)
    /\ \A p : FirstHeader(p)' = FirstOf(HeadersOf(disk', p))
    /\ \A p : FileAt(p)' = FileOf(disk', p)
<1>1. UsedOnDisk' = UsedOf(disk')
  BY DEF UsedOnDisk, UsedOf
<1>2. \A p : HeaderBlocks(p)' = HeadersOf(disk', p)
  BY <1>1 DEF HeaderBlocks, HeadersOf
<1>3. \A h : Content(h)' = ContentOf(disk', h)
  BY DEF Content, ContentOf
<1>4. \A p : FirstHeader(p)' = FirstOf(HeadersOf(disk', p))
  BY <1>2 DEF FirstHeader, FirstOf
<1> QED
  BY <1>1, <1>2, <1>3, <1>4 DEF FileAt, FileOf

\* A medium whose committed files form a chain.
SoundDisk(dk) ==
    /\ dk \in [Blocks -> Contents]
    /\ UsedOf(dk) \in Nat /\ UsedOf(dk) <= DevBlocks
    /\ \A b \in 1 .. UsedOf(dk) - 1 :
          dk[b].kind = "header" =>
              /\ b \in Blocks /\ dk[b] \in Headers
              /\ dk[b].off = b + 1
              /\ b + 1 + dk[b].count <= UsedOf(dk)
              /\ \A d \in b + 1 .. b + dk[b].count :
                    d \in Blocks /\ d \in 1 .. UsedOf(dk) - 1 /\ dk[d].kind = "data"

LEMMA SoundNow == TypeOK /\ ChainIntact /\ ~grewBlocks => SoundDisk(disk)
<1> SUFFICES ASSUME TypeOK, ChainIntact, ~grewBlocks PROVE SoundDisk(disk)
  OBVIOUS
<1>1. UsedOnDisk = UsedOf(disk) /\ UsedOnDisk \in Nat /\ disk \in [Blocks -> Contents]
  BY DiskNow, UsedTyped DEF TypeOK
<1>2. CASE disk[0].kind = "super"
  <2>1. UsedOnDisk <= DevBlocks
    BY <1>2 DEF ChainIntact
  <2>2. \A b \in 1 .. UsedOnDisk - 1 :
          disk[b].kind = "header" =>
              /\ b \in Blocks /\ disk[b] \in Headers
              /\ disk[b].off = b + 1
              /\ b + 1 + disk[b].count <= UsedOnDisk
              /\ \A d \in b + 1 .. b + disk[b].count :
                    d \in Blocks /\ d \in 1 .. UsedOnDisk - 1 /\ disk[d].kind = "data"
    BY <1>2, CommittedHeader
  <2> QED
    BY <1>1, <2>1, <2>2 DEF SoundDisk
<1>3. CASE disk[0].kind # "super"
  <2>1. UsedOf(disk) = 0
    BY <1>3 DEF UsedOf
  <2> QED
    BY <1>1, <2>1, SizesAssumption DEF SoundDisk
<1> QED
  BY <1>2, <1>3

LEMMA LeastExists ==
    ASSUME NEW T \in SUBSET Nat, T # {}
    PROVE  \E x \in T : \A y \in T : x <= y
<1>1. PICK x \in T : \A y \in T : ~(<<y, x>> \in OpToRel(<, Nat))
  BY NatLessThanWellFounded, WFMin
<1>2. ASSUME NEW y \in T PROVE x <= y
  <2>1. x \in Nat /\ y \in Nat
    OBVIOUS
  <2>2. y < x => <<y, x>> \in OpToRel(<, Nat)
    BY <2>1 DEF OpToRel
  <2>3. ~(y < x)
    BY <1>1, <2>2, Zenon
  <2> QED
    BY <2>1, <2>3
<1> QED
  BY <1>2, Zenon

\* The file that is found for a path is one of that path.
LEMMA FirstIs ==
    ASSUME NEW dk, SoundDisk(dk), NEW p, HeadersOf(dk, p) # {}
    PROVE  /\ FirstOf(HeadersOf(dk, p)) \in HeadersOf(dk, p)
           /\ \A c \in HeadersOf(dk, p) : FirstOf(HeadersOf(dk, p)) <= c
<1>1. HeadersOf(dk, p) \in SUBSET Nat
  BY DEF HeadersOf, SoundDisk
<1>2. \E x \in HeadersOf(dk, p) : \A y \in HeadersOf(dk, p) : x <= y
  BY <1>1, LeastExists
<1> QED
  BY <1>2 DEF FirstOf

\* What HeadersOf says of a block.
LEMMA HeadersAre ==
    ASSUME NEW dk, SoundDisk(dk), NEW p, NEW b \in HeadersOf(dk, p)
    PROVE  /\ b \in 1 .. UsedOf(dk) - 1 /\ b \in Blocks /\ dk[b] \in Headers /\ dk[b].kind = "header"
           /\ dk[b].path = p /\ p \notin LongPaths
           /\ dk[b].off = b + 1 /\ dk[b].count \in Nat \ {0} /\ b + 1 + dk[b].count <= UsedOf(dk)
           /\ \A d \in b + 1 .. b + dk[b].count :
                 d \in Blocks /\ d \in 1 .. UsedOf(dk) - 1 /\ dk[d].kind = "data"
<1>1. /\ b \in 1 .. UsedOf(dk) - 1 /\ b \in Blocks /\ dk[b].kind = "header"
      /\ dk[b].path = p /\ p \notin LongPaths
  BY DEF HeadersOf, is_path_equal
<1> QED
  BY <1>1 DEF SoundDisk, Headers

\* The content of a file is in its payload blocks.
LEMMA ContentIs ==
    ASSUME NEW dk, SoundDisk(dk), NEW b \in 1 .. UsedOf(dk) - 1, dk[b].kind = "header"
    PROVE  /\ ContentOf(dk, dk[b]) \in Seq(Bytes)
           /\ Len(ContentOf(dk, dk[b])) = TotalSize(dk[b])
           /\ \A i \in 1 .. TotalSize(dk[b]) :
                 /\ dk[b].off + (i - 1) \div BLOCK \in b + 1 .. b + dk[b].count
                 /\ ContentOf(dk, dk[b])[i]
                      = BytesOf(dk[dk[b].off + (i - 1) \div BLOCK])[((i - 1) % BLOCK) + 1]
<1>1. PICK h : h = dk[b]
  OBVIOUS
<1>2. /\ h \in Headers /\ h.off = b + 1 /\ h.count \in Nat
      /\ \A d \in b + 1 .. b + h.count : d \in Blocks /\ dk[d] \in Contents
  BY <1>1 DEF SoundDisk, Headers
<1>3. ASSUME NEW i \in 1 .. TotalSize(h)
      PROVE  /\ h.off + (i - 1) \div BLOCK \in b + 1 .. b + h.count
             /\ BytesOf(dk[h.off + (i - 1) \div BLOCK])[((i - 1) % BLOCK) + 1] \in Bytes
  <2>1. PICK q, r : q = (i - 1) \div BLOCK /\ r = ((i - 1) % BLOCK) + 1
    OBVIOUS
  <2>2. q \in 0 .. h.count - 1 /\ r \in 1 .. BLOCK
    BY <1>2, <2>1, PlaceOf
  <2>3. h.off + q \in b + 1 .. b + h.count
    BY <1>2, <2>2
  <2>4. BytesOf(dk[h.off + q]) \in [1 .. BLOCK -> Bytes]
    BY <1>2, <2>3, BytesOfTyped
  <2>5. BytesOf(dk[h.off + q])[r] \in Bytes
    BY <2>2, <2>4
  <2> QED
    BY <2>1, <2>3, <2>5
<1>4. TotalSize(h) \in Nat
  BY <1>2, TotalBounds
<1>5. ContentOf(dk, h) \in [1 .. TotalSize(h) -> Bytes]
  BY <1>3 DEF ContentOf
<1>6. ContentOf(dk, h) \in Seq(Bytes) /\ Len(ContentOf(dk, h)) = TotalSize(h)
  BY <1>4, <1>5, SeqDef, LenProperties
<1>7. \A i \in 1 .. TotalSize(h) :
         ContentOf(dk, h)[i] = BytesOf(dk[h.off + (i - 1) \div BLOCK])[((i - 1) % BLOCK) + 1]
  BY DEF ContentOf
<1> QED
  BY <1>1, <1>3, <1>6, <1>7

\* Where the headers stay, the same paths lead to the same headers.
LEMMA SameHeaders ==
    ASSUME NEW dk, SoundDisk(dk), NEW dk2, UsedOf(dk2) = UsedOf(dk),
           \A b \in 1 .. UsedOf(dk) - 1 :
              b \in Blocks => dk2[b].kind = dk[b].kind /\ (dk[b].kind = "header" => dk2[b] = dk[b])
    PROVE  \A p : HeadersOf(dk2, p) = HeadersOf(dk, p)
BY DEF HeadersOf, is_path_equal

\* A file is what its own blocks hold.
SameBlocksOf(dk, dk2, p) ==
    \A b \in HeadersOf(dk, p) : /\ dk2[b] = dk[b]
                                /\ \A d \in b + 1 .. b + dk[b].count : dk2[d] = dk[d]

LEMMA SameFile ==
    ASSUME NEW dk, SoundDisk(dk), NEW dk2, NEW p, HeadersOf(dk2, p) = HeadersOf(dk, p),
           SameBlocksOf(dk, dk2, p)
    PROVE  FileOf(dk2, p) = FileOf(dk, p)
<1>1. CASE HeadersOf(dk, p) = {}
  BY <1>1 DEF FileOf
<1>2. CASE HeadersOf(dk, p) # {}
  <2>1. PICK b : b = FirstOf(HeadersOf(dk, p))
    OBVIOUS
  <2>2. b \in HeadersOf(dk, p)
    BY <1>2, <2>1, FirstIs
  <2>3. /\ dk2[b] = dk[b] /\ b \in 1 .. UsedOf(dk) - 1 /\ dk[b].kind = "header"
        /\ \A d \in b + 1 .. b + dk[b].count : dk2[d] = dk[d]
    BY <2>2, HeadersAre DEF SameBlocksOf
  <2>4. \A i \in 1 .. TotalSize(dk[b]) :
          dk2[dk[b].off + (i - 1) \div BLOCK] = dk[dk[b].off + (i - 1) \div BLOCK]
    BY <2>3, ContentIs
  <2>5. ContentOf(dk2, dk[b]) = ContentOf(dk, dk[b])
    BY <2>4 DEF ContentOf
  <2> QED
    BY <1>2, <2>1, <2>3, <2>5 DEF FileOf
<1> QED
  BY <1>1, <1>2

\* The medium after a block was written.
Put(dk, t, x) == [dk EXCEPT ![t] = x]

\* A block after the end of the chain belongs to no file.
LEMMA WrittenBeyond ==
    ASSUME NEW dk, SoundDisk(dk), NEW t \in Nat \ {0}, t >= UsedOf(dk), NEW x,
           NEW dk2, dk2 = Put(dk, t, x)
    PROVE  /\ UsedOf(dk2) = UsedOf(dk)
           /\ \A p : HeadersOf(dk2, p) = HeadersOf(dk, p) /\ FileOf(dk2, p) = FileOf(dk, p)
           /\ \A d \in 0 .. UsedOf(dk) - 1 : d \in Blocks => dk2[d] = dk[d]
<1>1. UsedOf(dk) \in Nat /\ dk \in [Blocks -> Contents]
  BY DEF SoundDisk
<1>2. \A d \in Blocks : d # t => dk2[d] = dk[d]
  BY <1>1 DEF Put
<1>3. UsedOf(dk2) = UsedOf(dk)
  BY <1>2, BlockZero DEF UsedOf
<1>4. \A d \in 0 .. UsedOf(dk) - 1 : d \in Blocks => dk2[d] = dk[d]
  BY <1>1, <1>2
<1>5. \A p : HeadersOf(dk2, p) = HeadersOf(dk, p)
  <2>1. \A d \in 1 .. UsedOf(dk) - 1 :
          d \in Blocks => dk2[d].kind = dk[d].kind /\ (dk[d].kind = "header" => dk2[d] = dk[d])
    BY <1>1, <1>4
  <2> QED
    BY <1>3, <2>1, SameHeaders
<1>6. ASSUME NEW p PROVE FileOf(dk2, p) = FileOf(dk, p)
  <2>1. ASSUME NEW b \in HeadersOf(dk, p)
        PROVE  dk2[b] = dk[b] /\ \A d \in b + 1 .. b + dk[b].count : dk2[d] = dk[d]
    BY <1>1, <1>4, HeadersAre
  <2>2. HeadersOf(dk2, p) = HeadersOf(dk, p)
    BY <1>5
  <2>3. SameBlocksOf(dk, dk2, p)
    BY <2>1 DEF SameBlocksOf
  <2> QED
    BY <2>2, <2>3, SameFile
<1> QED
  BY <1>3, <1>4, <1>5, <1>6

\* A payload block put over one of a file changes the bytes of this file that
\* are in it, and nothing else.
LEMMA WrittenOver ==
    ASSUME NEW dk, SoundDisk(dk), NEW b \in 1 .. UsedOf(dk) - 1, dk[b].kind = "header",
           NEW t \in b + 1 .. b + dk[b].count, NEW x \in Payloads,
           NEW dk2, dk2 = Put(dk, t, x)
    PROVE  /\ UsedOf(dk2) = UsedOf(dk) /\ dk2[0] = dk[0]
           /\ \A p : HeadersOf(dk2, p) = HeadersOf(dk, p)
           /\ \A p : p # dk[b].path => FileOf(dk2, p) = FileOf(dk, p)
           /\ dk2[b] = dk[b]
           /\ \A i \in 1 .. TotalSize(dk[b]) :
                 ContentOf(dk2, dk[b])[i] =
                     IF dk[b].off + (i - 1) \div BLOCK = t THEN x.bytes[((i - 1) % BLOCK) + 1]
                     ELSE ContentOf(dk, dk[b])[i]
<1>1. UsedOf(dk) \in Nat /\ dk \in [Blocks -> Contents]
  BY DEF SoundDisk
<1>2. /\ b \in Blocks /\ dk[b].count \in Nat /\ b + 1 + dk[b].count <= UsedOf(dk)
      /\ \A d \in b + 1 .. b + dk[b].count :
            d \in Blocks /\ d \in 1 .. UsedOf(dk) - 1 /\ dk[d].kind = "data"
  BY DEF SoundDisk, Headers
<1>3. t \in Blocks /\ t # 0 /\ t # b /\ dk[t].kind = "data" /\ x.kind = "data"
  BY <1>2 DEF Payloads
<1>4. /\ \A d \in Blocks : d # t => dk2[d] = dk[d]
      /\ dk2[t] = x
  BY <1>1, <1>3 DEF Put
<1>5. dk2[0] = dk[0]
  BY <1>3, <1>4, BlockZero
<1>6. UsedOf(dk2) = UsedOf(dk)
  BY <1>5 DEF UsedOf
<1>7. \A p : HeadersOf(dk2, p) = HeadersOf(dk, p)
  <2>1. \A d \in 1 .. UsedOf(dk) - 1 :
          d \in Blocks => dk2[d].kind = dk[d].kind /\ (dk[d].kind = "header" => dk2[d] = dk[d])
    BY <1>3, <1>4
  <2> QED
    BY <1>6, <2>1, SameHeaders
<1>8. ASSUME NEW p, p # dk[b].path PROVE FileOf(dk2, p) = FileOf(dk, p)
  <2>1. ASSUME NEW c \in HeadersOf(dk, p)
        PROVE  dk2[c] = dk[c] /\ \A d \in c + 1 .. c + dk[c].count : dk2[d] = dk[d]
    <3>1. /\ c \in 1 .. UsedOf(dk) - 1 /\ c \in Blocks /\ dk[c].kind = "header" /\ dk[c].path = p
          /\ dk[c].count \in Nat
          /\ \A d \in c + 1 .. c + dk[c].count : d \in Blocks /\ dk[d].kind = "data"
      BY HeadersAre
    <3>2. c # b /\ c # t
      BY <1>3, <1>8, <3>1
    <3>3. c \notin b + 1 .. b + dk[b].count /\ b \notin c + 1 .. c + dk[c].count
      BY <1>2, <3>1
    <3>4. t \notin c + 1 .. c + dk[c].count
      BY <1>2, <3>1, <3>2, <3>3
    <3> QED
      BY <1>4, <3>1, <3>2, <3>4
  <2>2. HeadersOf(dk2, p) = HeadersOf(dk, p)
    BY <1>7
  <2>3. SameBlocksOf(dk, dk2, p)
    BY <2>1 DEF SameBlocksOf
  <2> QED
    BY <2>2, <2>3, SameFile
<1>9. ASSUME NEW i \in 1 .. TotalSize(dk[b])
      PROVE  ContentOf(dk2, dk[b])[i] =
                 IF dk[b].off + (i - 1) \div BLOCK = t THEN x.bytes[((i - 1) % BLOCK) + 1]
                 ELSE ContentOf(dk, dk[b])[i]
  <2>1. PICK d : d = dk[b].off + (i - 1) \div BLOCK
    OBVIOUS
  <2>2. /\ d \in b + 1 .. b + dk[b].count
        /\ ContentOf(dk, dk[b])[i] = BytesOf(dk[d])[((i - 1) % BLOCK) + 1]
    BY <2>1, ContentIs
  <2>3. ContentOf(dk2, dk[b])[i] = BytesOf(dk2[d])[((i - 1) % BLOCK) + 1]
    BY <2>1 DEF ContentOf
  <2>4. d # t => dk2[d] = dk[d]
    BY <1>2, <1>4, <2>2
  <2>5. BytesOf(x) = x.bytes
    BY <1>3 DEF BytesOf
  <2> QED
    BY <1>4, <2>1, <2>2, <2>3, <2>4, <2>5
<1> QED
  BY <1>2, <1>3, <1>4, <1>5, <1>6, <1>7, <1>8, <1>9

PayloadsAfter(dk, b, n) == \A d \in b + 1 .. b + n : d \in Blocks /\ dk[d].kind = "data"

\* A file that was written after the end of the chain and is now counted.
LEMMA Committed ==
    ASSUME NEW dk, SoundDisk(dk), UsedOf(dk) \in Nat \ {0},
           NEW h \in Headers, h.path \notin LongPaths, HeadersOf(dk, h.path) = {},
           UsedOf(dk) \in Blocks, dk[UsedOf(dk)] = h, h.off = UsedOf(dk) + 1,
           PayloadsAfter(dk, UsedOf(dk), h.count),
           NEW x, NEW dk2, dk2 = Put(dk, 0, x),
           UsedOf(dk2) = UsedOf(dk) + 1 + h.count
    PROVE  /\ HeadersOf(dk2, h.path) = {UsedOf(dk)}
           /\ FileOf(dk2, h.path) = ContentOf(dk, h)
           /\ \A p : p # h.path => FileOf(dk2, p) = FileOf(dk, p)
<1>1. PICK U : U = UsedOf(dk)
  OBVIOUS
<1>2. U \in Nat \ {0} /\ h.count \in Nat \ {0} /\ dk \in [Blocks -> Contents] /\ h.kind = "header"
  BY <1>1 DEF SoundDisk, Headers
<1>3. \A d \in Blocks : d # 0 => dk2[d] = dk[d]
  BY <1>2 DEF Put
<1>4. ASSUME NEW p, NEW b
      PROVE  b \in HeadersOf(dk2, p) <=> b \in HeadersOf(dk, p) \/ (b = U /\ p = h.path)
  <2>1. CASE b \in 1 .. U - 1
    BY <1>1, <1>2, <1>3, <2>1 DEF HeadersOf, is_path_equal
  <2>2. CASE b = U
    BY <1>1, <1>2, <1>3, <2>2 DEF HeadersOf, is_path_equal
  <2>3. CASE b \in U + 1 .. U + h.count
    BY <1>1, <1>2, <1>3, <2>3 DEF HeadersOf, PayloadsAfter
  <2>4. CASE b \notin 1 .. U + h.count
    BY <1>1, <1>2, <2>4 DEF HeadersOf
  <2> QED
    BY <1>2, <2>1, <2>2, <2>3, <2>4
<1>5. HeadersOf(dk2, h.path) = {U}
  BY <1>1, <1>4
<1>6. FirstOf({U}) = U
  BY <1>2 DEF FirstOf
<1>7. ContentOf(dk2, h) = ContentOf(dk, h)
  <2>1. ASSUME NEW i \in 1 .. TotalSize(h)
        PROVE  dk2[h.off + (i - 1) \div BLOCK] = dk[h.off + (i - 1) \div BLOCK]
    <3>1. PICK q : q = (i - 1) \div BLOCK
      OBVIOUS
    <3>2. q \in 0 .. h.count - 1
      BY <3>1, PlaceOf
    <3>3. h.off + q \in U + 1 .. U + h.count
      BY <1>1, <1>2, <3>2
    <3> QED
      BY <1>1, <1>2, <1>3, <3>1, <3>3 DEF PayloadsAfter
  <2> QED
    BY <2>1 DEF ContentOf
<1>8. FileOf(dk2, h.path) = ContentOf(dk, h)
  BY <1>1, <1>2, <1>3, <1>5, <1>6, <1>7 DEF FileOf
<1>9. ASSUME NEW p, p # h.path PROVE FileOf(dk2, p) = FileOf(dk, p)
  <2>1. HeadersOf(dk2, p) = HeadersOf(dk, p)
    <3>1. \A b : b \in HeadersOf(dk2, p) <=> b \in HeadersOf(dk, p)
      BY <1>4, <1>9
    <3> QED
      BY <3>1, Zenon
  <2>2. ASSUME NEW b \in HeadersOf(dk, p)
        PROVE  dk2[b] = dk[b] /\ \A d \in b + 1 .. b + dk[b].count : dk2[d] = dk[d]
    BY <1>1, <1>2, <1>3, HeadersAre
  <2>3. SameBlocksOf(dk, dk2, p)
    BY <2>2 DEF SameBlocksOf
  <2> QED
    BY <2>1, <2>3, SameFile
<1> QED
  BY <1>1, <1>5, <1>8, <1>9

-----------------------------------------------------------------------------
(* A step of AbtrFS, seen as one of a FileStore *)

Files == [p \in Paths |-> FileAt(p)]
StoreStep == Store!Next \/ UNCHANGED Store!vars

Ready ==
    /\ IInv /\ TypeOK /\ HeaderKnown /\ ChainIntact /\ ~grewBlocks /\ Stage
    /\ StoreStage /\ SoundDisk(disk)

LEMMA ReadyNow == IInv /\ StoreInv /\ asStore => Ready
BY SoundNow DEF Ready, IInv, StoreInv

\* What is on the medium is all there is to a file.
LEMMA DiskSame ==
    ASSUME UNCHANGED disk
    PROVE  /\ UsedOnDisk' = UsedOnDisk /\ Files' = Files
           /\ \A p : /\ HeaderBlocks(p)' = HeaderBlocks(p)
                     /\ FirstHeader(p)' = FirstHeader(p)
                     /\ FileAt(p)' = FileAt(p)
           /\ \A h : Content(h)' = Content(h)
<1>1. \A p : FileAt(p)' = FileAt(p)
  BY DiskNow, DiskNext
<1>2. Files' = Files
  BY <1>1 DEF Files
<1> QED
  BY <1>1, <1>2, DiskNow, DiskNext

LEMMA FileTyped ==
    ASSUME Ready, NEW p
    PROVE  /\ FileAt(p) = Absent \/ FileAt(p) \in Seq(Bytes)
           /\ FileAt(p) = Absent <=> HeaderBlocks(p) = {}
           /\ HeaderBlocks(p) # {} =>
                 /\ FileAt(p) = Content(disk[FirstHeader(p)])
                 /\ FirstHeader(p) \in HeaderBlocks(p)
                 /\ \A c \in HeaderBlocks(p) : FirstHeader(p) <= c
                 /\ disk[FirstHeader(p)] \in Headers
                 /\ Len(FileAt(p)) = TotalSize(disk[FirstHeader(p)])
<1> DEFINE b == FirstOf(HeadersOf(disk, p))
<1>1. SoundDisk(disk)
  BY DEF Ready
<1>2. CASE HeadersOf(disk, p) = {}
  BY <1>2, DiskNow DEF FileOf
<1>3. CASE HeadersOf(disk, p) # {}
  <2>1. b \in HeadersOf(disk, p) /\ \A c \in HeadersOf(disk, p) : b <= c
    BY <1>1, <1>3, FirstIs
  <2>2. b \in 1 .. UsedOf(disk) - 1 /\ disk[b].kind = "header" /\ disk[b] \in Headers
    BY <1>1, <2>1, HeadersAre
  <2>3. ContentOf(disk, disk[b]) \in Seq(Bytes) /\ Len(ContentOf(disk, disk[b])) = TotalSize(disk[b])
    BY <1>1, <2>2, ContentIs
  <2>4. FileOf(disk, p) = ContentOf(disk, disk[b])
    BY <1>3 DEF FileOf
  <2> HIDE DEF b
  <2>5. FirstHeader(p) = b
    BY DiskNow DEF b
  <2> QED
    BY <1>3, <2>1, <2>2, <2>3, <2>4, <2>5, DiskNow, AbsentAssumption
<1> QED
  BY <1>2, <1>3

\* A step that changes no file and gives no answer.
LEMMA StepUnseen ==
    ASSUME \A p \in Paths : FileAt(p)' = FileAt(p), UNCHANGED <<call, ret, result>>,
           (pc' \notin {"boot", "idle"}) = (pc \notin {"boot", "idle"})
    PROVE  StoreStep
BY DEF StoreStep, Store!vars

\* Nothing written is one way to write something.
LEMMA PatchNothing ==
    ASSUME Ready
    PROVE  Files \in Store!Patches
<1>1. CASE call.op # "write" \/ FileAt(call.path) = Absent
  BY <1>1, CallTyped DEF Ready, TypeOK, Files, Store!Patches
<1>2. CASE ~(call.op # "write" \/ FileAt(call.path) = Absent)
  <2>1. FileAt(call.path) \in Seq(Bytes) /\ call.path \in Paths
    BY <1>2, FileTyped, CallTyped DEF Ready, TypeOK
  <2>2. Store!Patched(FileAt(call.path), {}) = FileAt(call.path)
    BY <2>1 DEF Store!Patched
  <2>3. [Files EXCEPT ![call.path] = Store!Patched(@, {})] = Files
    BY <2>1, <2>2 DEF Files
  <2>4. {} \in SUBSET {i \in 1 .. Len(Files[call.path]) : Store!InRange(i)}
    OBVIOUS
  <2> QED
    BY <1>2, <2>1, <2>3, <2>4 DEF Store!Patches, Files
<1> QED
  BY <1>1, <1>2

\* A call ends with what it finds on the medium.
LEMMA StepAnswers ==
    ASSUME Ready, pc \notin {"boot", "idle"}, pc' = "idle", UNCHANGED call,
           NEW F, F = Files', F \in Store!Patches \cup Store!Enlargements,
           Store!Answer(F[call.path], ret', result')
    PROVE  StoreStep
<1>1. Store!Return
  BY DEF Store!Return, Files
<1> QED
  BY <1>1 DEF StoreStep, Store!Next

LEMMA StepReturns ==
    ASSUME Ready, pc \notin {"boot", "idle"}, UNCHANGED disk,
           NEW code, NEW bytes, Return(code, bytes),
           Store!Answer(FileAt(call.path), code, bytes)
    PROVE  StoreStep
<1>1. pc' = "idle" /\ UNCHANGED call /\ ret' = code /\ result' = bytes
  BY DEF Return
<1>2. Files' = Files /\ Files[call.path] = FileAt(call.path)
  BY DiskSame, CallTyped DEF Ready, TypeOK, Files
<1>3. Files' \in Store!Patches \cup Store!Enlargements
  BY <1>2, PatchNothing
<1>4. Store!Answer(Files'[call.path], ret', result')
  BY <1>1, <1>2
<1> QED
  BY <1>1, <1>3, <1>4, StepAnswers

\* After the answer nothing is known of any file.
LEMMA StageReturned ==
    ASSUME Ready, NEW code, NEW bytes, Return(code, bytes)
    PROVE  StoreStage' /\ ~grewBlocks'
BY DEF Return, Ready, StoreStage, Mounted

Refines == StoreStage' /\ ~grewBlocks' /\ StoreStep

LEMMA CallStep ==
    ASSUME Ready, NEW c \in Calls, Call(c), ~WritesBeyond, ~WritesLongName
    PROVE  Refines
<1>1. /\ pc = "idle" /\ pc' = "mount" /\ call' = c
      /\ UNCHANGED <<disk, ret, result, grewBlocks, buffer>>
  BY DEF Call, locals
<1>2. Files' = Files
  BY <1>1, DiskSame
<1>3. Store!Call(c)
  BY <1>1, <1>2 DEF Store!Call, Files
<1>4. call'.op = "write" => WithinFile(call)' /\ call'.path \notin LongPaths
  <2> SUFFICES ASSUME call'.op = "write" PROVE WithinFile(call)' /\ call'.path \notin LongPaths
    OBVIOUS
  <2>1. WithinFile(c) /\ c.path \notin LongPaths
    BY <1>1 DEF WritesBeyond, WritesLongName
  <2>2. HeaderBlocks(c.path)' = HeaderBlocks(c.path)
    BY <1>1, DiskSame
  <2> QED
    BY <1>1, <2>1, <2>2 DEF WithinFile
<1> QED
  BY <1>1, <1>3, <1>4 DEF Refines, StoreStep, Store!Next, StoreStage, Mounted, Ready

\* Neither before nor after the format is there a file.
LEMMA FormatStep ==
    ASSUME Ready, NEW ok \in BOOLEAN, format(ok)
    PROVE  Refines
<1>1. /\ pc = "boot" /\ pc' = "idle" /\ UNCHANGED <<call, ret, result, grewBlocks, buffer>>
      /\ write_block(0, [kind |-> "super", free |-> TotalBlocks - 1], ok)
  BY DEF format, Goto, locals
<1>2. TypeOK /\ disk[0].kind # "super"
  BY <1>1 DEF Ready, Stage
<1>3. disk' = disk \/ disk'[0] = [kind |-> "super", free |-> TotalBlocks - 1]
  BY <1>1, <1>2, WriteBlockEffect, BlockZero DEF TypeOK
<1>4. UsedOf(disk) = 0 /\ UsedOf(disk') \in {0, 1}
  BY <1>2, <1>3, SizesAssumption DEF UsedOf
<1>5. \A p : HeadersOf(disk, p) = {} /\ HeadersOf(disk', p) = {}
  <2>1. 1 .. UsedOf(disk) - 1 = {} /\ 1 .. UsedOf(disk') - 1 = {}
    BY <1>4
  <2> QED
    BY <2>1 DEF HeadersOf
<1>6. \A p : FileAt(p)' = FileAt(p)
  BY <1>5, DiskNow, DiskNext DEF FileOf
<1>7. StoreStep
  BY <1>1, <1>6, StepUnseen
<1> QED
  BY <1>1, <1>7 DEF Refines, StoreStage, Mounted, Ready

LEMMA MountStep ==
    ASSUME Ready, NEW ok \in BOOLEAN, mount_existing(ok)
    PROVE  Refines
<1>1. pc = "mount" /\ UNCHANGED disk
  BY DEF mount_existing
<1>2. CASE Return("DeviceNotMounted", <<>>) /\ (~ok \/ disk[0].kind # "super")
  <2>1. Store!Answer(FileAt(call.path), "DeviceNotMounted", <<>>)
    BY DEF Store!Answer, Store!Errors
  <2> QED
    BY <1>1, <1>2, <2>1, StepReturns, StageReturned DEF Refines
<1>3. CASE Return("InvalidPath", <<>>) /\ call.path \in RootPaths
  <2>1. Store!Answer(FileAt(call.path), "InvalidPath", <<>>)
    BY <1>3 DEF Store!Answer, Store!Errors
  <2> QED
    BY <1>1, <1>3, <2>1, StepReturns, StageReturned DEF Refines
<1>4. CASE /\ call.path \notin RootPaths /\ curr_block' = 1
           /\ Goto(IF call.op = "read" THEN "rscan" ELSE "find")
           /\ UNCHANGED <<file_header, buffer, expanded_data, blk, grewBlocks>>
  <2>1. /\ pc' = IF call.op = "read" THEN "rscan" ELSE "find"
        /\ UNCHANGED <<call, ret, result, grewBlocks, buffer>>
    BY <1>4 DEF Goto
  <2>2. \A p : FileAt(p)' = FileAt(p) /\ HeaderBlocks(p)' = HeaderBlocks(p)
    BY <1>1, DiskSame
  <2>3. StoreStep
    BY <1>1, <2>1, <2>2, StepUnseen
  <2>4. NoneBefore'
    BY <1>4 DEF NoneBefore, HeaderBlocks
  <2>5. call.op = "write" => WithinFile(call)' /\ call.path \notin LongPaths
    BY <1>1, <2>1, <2>2 DEF Ready, StoreStage, WithinFile
  <2> QED
    BY <1>1, <1>4, <2>1, <2>3, <2>4, <2>5 DEF Refines, StoreStage, Mounted, Ready
<1> QED
  BY <1>1, <1>2, <1>3, <1>4 DEF mount_existing

\* What a call for the file of its path may count on at every step.
LEMMA DuringCall ==
    ASSUME Ready, pc \in Mounted
    PROVE  /\ call \in Calls /\ call.path \in Paths /\ call.path \notin RootPaths
           /\ call.off \in Nat /\ call.max \in Nat /\ call.data \in Seq(Bytes) /\ Len(call.data) \in Nat
           /\ call.op \in {"write", "read", "exists"}
           /\ call.op = "write" => WithinFile(call) /\ call.path \notin LongPaths
           /\ disk[0].kind = "super" /\ UsedOnDisk \in Nat \ {0} /\ UsedOnDisk <= DevBlocks
<1>1. TypeOK /\ HeaderKnown /\ StoreStage /\ SoundDisk(disk)
  BY DEF Ready
<1>2. disk[0].kind = "super" /\ UsedOnDisk \in Nat \ {0} /\ UsedOnDisk <= DevBlocks
  BY <1>1, UsedTyped, DiskNow DEF HeaderKnown, SoundDisk
<1>3. call \in Calls
  BY <1>1 DEF TypeOK
<1> QED
  BY <1>1, <1>2, <1>3, CallTyped, LenProperties DEF StoreStage

LEMMA CallSame ==
    ASSUME Ready, pc \in Mounted, UNCHANGED <<disk, call>>
    PROVE  call'.op = "write" => WithinFile(call)' /\ call'.path \notin LongPaths
<1>1. call.op = "write" => WithinFile(call) /\ call.path \notin LongPaths
  BY DuringCall
<1>2. HeaderBlocks(call.path)' = HeaderBlocks(call.path)
  BY DiskSame
<1> QED
  BY <1>1, <1>2 DEF WithinFile

LEMMA TheFileSame ==
    ASSUME TheFile, UNCHANGED <<disk, call, file_header>>
    PROVE  TheFile'
<1>1. HeaderBlocks(call.path)' = HeaderBlocks(call.path) /\ FirstHeader(call.path)' = FirstHeader(call.path)
  BY DiskSame
<1> QED
  BY <1>1 DEF TheFile

-----------------------------------------------------------------------------
(* The search *)

\* A header that a call holds is that of a file, which can be found.
LEMMA HeldIsThere ==
    ASSUME Ready, pc \in {"find", "alloc"}, call.op = "write", file_exists
    PROVE  HeaderBlocks(call.path) # {}
<1>1. pc \in Mounted /\ InPlace /\ SoundDisk(disk)
  BY DEF Ready, Stage, Mounted, file_exists
<1>2. PICK b \in 1 .. UsedOnDisk - 1 : disk[b].kind = "header" /\ disk[b].path = call.path
  BY <1>1 DEF InPlace
<1>3. b \in Blocks
  BY <1>1, <1>2, DiskNow DEF SoundDisk
<1>4. call.path \notin LongPaths
  BY <1>1, DuringCall
<1> QED
  BY <1>2, <1>3, <1>4 DEF HeaderBlocks, is_path_equal

LEMMA NotFoundStep ==
    ASSUME Ready, pc \in {"find", "rscan"}, NotFound, UNCHANGED disk, HeaderBlocks(call.path) = {}
    PROVE  Refines
<1>0. pc \in Mounted /\ buffer = <<>>
  BY DEF Mounted, Ready, StoreStage
<1>1. CASE call.op = "write"
  <2>1. pc' = "alloc" /\ UNCHANGED <<call, ret, result, buffer, file_header, grewBlocks>>
    BY <1>1 DEF NotFound, Goto, locals
  <2>2. pc = "find"
    BY <1>1 DEF Ready, StoreStage, TheFile
  <2>3. ~file_exists
    BY <1>1, <2>2, HeldIsThere
  <2>4. StoreStep
    BY <2>1, DiskSame, StepUnseen
  <2>5. HeaderBlocks(call.path)' = {} /\ ~file_exists'
    BY <2>1, <2>3, DiskSame DEF file_exists
  <2>6. call'.op = "write" => WithinFile(call)' /\ call'.path \notin LongPaths
    BY <1>0, <2>1, CallSame
  <2>7. call'.path \notin RootPaths
    BY <1>0, <2>1, DuringCall
  <2> QED
    BY <1>0, <1>1, <2>1, <2>4, <2>5, <2>6, <2>7 DEF Refines, StoreStage, Mounted, Ready
<1>2. CASE call.op # "write"
  <2>1. Return("FileNotFound", <<>>)
    BY <1>2 DEF NotFound
  <2>2. Store!Answer(FileAt(call.path), "FileNotFound", <<>>)
    BY <1>2, FileTyped DEF Store!Answer
  <2> QED
    BY <2>1, <2>2, StepReturns, StageReturned DEF Refines
<1> QED
  BY <1>1, <1>2

LEMMA FoundStep ==
    ASSUME Ready, pc \in {"find", "rscan"}, HeaderBlocks(call.path) # {},
           NEW h, h = disk[FirstHeader(call.path)], Found(h), UNCHANGED disk
    PROVE  Refines
<1>0. pc \in Mounted /\ buffer = <<>>
  BY DEF Mounted, Ready, StoreStage
<1>1. /\ h \in Headers /\ TotalSize(h) \in Nat \ {0} /\ Len(FileAt(call.path)) = TotalSize(h)
      /\ FileAt(call.path) # Absent
  BY FileTyped, TotalBounds
<1>2. /\ call.path \notin RootPaths /\ call.off \in Nat /\ call.max \in Nat
      /\ call.op \in {"write", "read", "exists"}
  BY <1>0, DuringCall
<1>3. CASE pc = "find" /\ call.op = "exists"
  <2>1. Return("Success", <<>>)
    BY <1>3 DEF Found
  <2>2. Store!Answer(FileAt(call.path), "Success", <<>>)
    BY <1>1, <1>2, <1>3 DEF Store!Answer
  <2> QED
    BY <2>1, <2>2, StepReturns, StageReturned DEF Refines
<1>4. CASE pc = "rscan" /\ ReadOffset >= TotalSize(h)
  <2>1. Return("Success", <<>>)
    BY <1>4 DEF Found
  <2>2. call.op = "read" /\ call.off >= TotalSize(h)
    BY <1>1, <1>2, <1>4 DEF ReadOffset, Ready, StoreStage
  <2>3. Store!Slice(FileAt(call.path)) = <<>>
    BY <1>1, <2>2 DEF Store!Slice
  <2>4. Store!Answer(FileAt(call.path), "Success", <<>>)
    BY <1>1, <1>2, <2>2, <2>3 DEF Store!Answer
  <2> QED
    BY <2>1, <2>4, StepReturns, StageReturned DEF Refines
<1>5. CASE ~(pc = "find" /\ call.op = "exists") /\ ~(pc = "rscan" /\ ReadOffset >= TotalSize(h))
  <2>1. /\ file_header' = h
        /\ UNCHANGED <<free_blocks_count, buffer, expanded_data, grewBlocks, call, ret, result>>
    BY <1>5 DEF Found, Goto
  <2>2. call'.op = "write" => WithinFile(call)' /\ call'.path \notin LongPaths
    BY <1>0, <2>1, CallSame
  <2>3. TheFile'
    <3>1. /\ HeaderBlocks(call.path)' = HeaderBlocks(call.path)
          /\ FirstHeader(call.path)' = FirstHeader(call.path)
      BY <2>1, DiskSame
    <3> QED
      BY <2>1, <3>1 DEF TheFile
  <2>4. CASE pc = "find"
    <3>1. pc' = "rscan" /\ curr_block' = 1
      BY <1>5, <2>4 DEF Found, Goto
    <3>2. NoneBefore'
      BY <3>1 DEF NoneBefore, HeaderBlocks
    <3>3. StoreStep
      BY <2>1, <2>4, <3>1, DiskSame, StepUnseen
    <3> QED
      BY <1>0, <1>2, <1>5, <2>1, <2>2, <2>3, <2>4, <3>1, <3>2, <3>3
         DEF Refines, StoreStage, Mounted, Ready
  <2>5. CASE pc = "rscan"
    <3>1. pc' = "rload" /\ blk' = ReadOffset \div BLOCK
      BY <1>5, <2>5 DEF Found, Goto
    <3>2. StoreStep
      BY <2>1, <2>5, <3>1, DiskSame, StepUnseen
    <3>3. ReadOffset' = ReadOffset /\ ReadOffset \in Nat /\ ReadOffset < TotalSize(h)
      BY <1>1, <1>2, <1>5, <2>1, <2>5 DEF ReadOffset
    <3>4. BytesToRead' > 0
      <4>1. BytesToRead' = (IF call.op = "read" /\ call.max > 0 /\ call.max < TotalSize(h) - ReadOffset
                            THEN call.max ELSE TotalSize(h) - ReadOffset)
        BY <2>1, <3>3 DEF BytesToRead, TotalSize
      <4> QED
        BY <1>1, <1>2, <3>3, <4>1
    <3>5. buffer' = <<>> /\ Len(buffer') = 0
      BY <1>0, <2>1
    <3>6. TotalSize(file_header)' = TotalSize(h)
      BY <2>1 DEF TotalSize
    <3>7. Loaded'
      BY <3>1, <3>3, <3>4, <3>5, <3>6 DEF Loaded
    <3> QED
      BY <1>0, <1>2, <1>5, <2>1, <2>2, <2>3, <2>5, <3>1, <3>2, <3>7
         DEF Refines, StoreStage, Mounted, Ready
  <2> QED
    BY <2>4, <2>5
<1> QED
  BY <1>3, <1>4, <1>5

LEMMA ScanStep ==
    ASSUME Ready, NEW ok \in BOOLEAN, ScanBlock(ok), ~ErrorIgnored
    PROVE  Refines
<1>0. /\ pc \in {"find", "rscan"} /\ pc \in Mounted /\ UNCHANGED disk
      /\ curr_block < used_blocks /\ read_block(curr_block, ok)
  BY DEF ScanBlock, Mounted
<1>1. TypeOK /\ NoneBefore /\ SoundDisk(disk) /\ curr_block >= 1 /\ curr_block \in Nat
  BY <1>0 DEF Ready, Stage, StoreStage, TypeOK
<1>2. used_blocks = UsedOnDisk /\ UsedOnDisk \in Nat /\ UsedOnDisk <= DevBlocks
  BY <1>0, DuringCall DEF Ready, Stage, used_blocks, UsedOnDisk
<1>3. curr_block \in 1 .. UsedOnDisk - 1 /\ curr_block \in Blocks
  BY <1>0, <1>1, <1>2, SizesAssumption DEF Blocks
<1>4. ok
  BY <1>0, <1>1, <1>3 DEF read_block, Refuse, ErrorIgnored, TypeOK
<1>5. CASE disk[curr_block].kind = "header" /\ is_path_equal(call.path, disk[curr_block])
  <2>1. curr_block \in HeaderBlocks(call.path)
    BY <1>3, <1>5 DEF HeaderBlocks
  <2>2. /\ FirstHeader(call.path) \in HeaderBlocks(call.path)
        /\ \A c \in HeaderBlocks(call.path) : FirstHeader(call.path) <= c
    BY <2>1, FileTyped
  <2>3. FirstHeader(call.path) = curr_block
    <3>1. PICK f : f = FirstHeader(call.path)
      OBVIOUS
    <3>2. f <= curr_block /\ curr_block <= f /\ f \in Nat
      BY <1>1, <1>2, <2>1, <2>2, <3>1 DEF NoneBefore, HeaderBlocks
    <3> QED
      BY <1>1, <3>1, <3>2
  <2>4. Found(disk[curr_block])
    BY <1>4, <1>5 DEF ScanBlock
  <2> QED
    BY <1>0, <2>1, <2>3, <2>4, FoundStep
<1>6. CASE ~(disk[curr_block].kind = "header" /\ is_path_equal(call.path, disk[curr_block]))
  <2>1. /\ curr_block' = curr_block + Skip(disk[curr_block])
        /\ pc' = pc
        /\ UNCHANGED <<call, ret, result, file_header, buffer, grewBlocks>>
    BY <1>4, <1>6 DEF ScanBlock, Goto
  <2>2. StoreStep
    BY <1>0, <2>1, DiskSame, StepUnseen
  <2>3. HeaderBlocks(call.path)' = HeaderBlocks(call.path)
    BY <1>0, <2>1, DiskSame
  <2>4. ASSUME NEW b \in HeaderBlocks(call.path) PROVE curr_block' <= b
    <3>1. b \in 1 .. UsedOnDisk - 1 /\ b >= curr_block /\ b # curr_block /\ disk[b].kind = "header"
      BY <1>1, <1>2, <1>3, <1>6 DEF NoneBefore, HeaderBlocks
    <3>2. CASE disk[curr_block].kind # "header"
      BY <1>1, <1>2, <2>1, <3>1, <3>2 DEF Skip
    <3>3. CASE disk[curr_block].kind = "header"
      <4>1. PICK n : n = disk[curr_block].count
        OBVIOUS
      <4>2. n \in Nat /\ \A d \in curr_block + 1 .. curr_block + n : disk[d].kind = "data"
        BY <1>1, <1>3, <3>3, <4>1, DiskNow DEF SoundDisk, Headers
      <4>3. curr_block' = curr_block + 1 + n
        BY <1>1, <2>1, <3>3, <4>1, <4>2 DEF Skip
      <4> QED
        BY <1>1, <1>2, <3>1, <4>2, <4>3
    <3> QED
      BY <3>2, <3>3
  <2>5. NoneBefore'
    BY <2>1, <2>3, <2>4 DEF NoneBefore
  <2>6. call'.op = "write" => WithinFile(call)' /\ call'.path \notin LongPaths
    BY <1>0, <2>1, CallSame
  <2>7. TheFile => TheFile'
    BY <1>0, <2>1, TheFileSame
  <2> QED
    BY <1>0, <2>1, <2>2, <2>5, <2>6, <2>7 DEF Refines, StoreStage, Mounted, Ready
<1> QED
  BY <1>5, <1>6

LEMMA ScanEndStep ==
    ASSUME Ready, ScanEnd
    PROVE  Refines
<1>1. pc \in {"find", "rscan"} /\ pc \in Mounted /\ UNCHANGED disk /\ curr_block >= used_blocks /\ NotFound
  BY DEF ScanEnd, Mounted
<1>2. used_blocks = UsedOnDisk /\ UsedOnDisk \in Nat /\ curr_block \in Nat /\ NoneBefore
  BY <1>1, DuringCall DEF Ready, Stage, StoreStage, used_blocks, UsedOnDisk, TypeOK
<1>3. HeaderBlocks(call.path) = {}
  BY <1>1, <1>2 DEF NoneBefore, HeaderBlocks
<1> QED
  BY <1>1, <1>3, NotFoundStep

-----------------------------------------------------------------------------
(* The loop of read_file *)

\* The file of a call, once found.
LEMMA TheFileIs ==
    ASSUME Ready, TheFile
    PROVE  /\ FirstHeader(call.path) \in 1 .. UsedOnDisk - 1
           /\ file_header = disk[FirstHeader(call.path)] /\ file_header \in Headers
           /\ file_header.kind = "header" /\ file_header.path = call.path
           /\ file_header.off = FirstHeader(call.path) + 1
           /\ \A d \in 0 .. file_header.count - 1 :
                 file_header.off + d \in Blocks /\ file_header.off + d \in 1 .. UsedOnDisk - 1
           /\ FileAt(call.path) = Content(file_header) /\ FileAt(call.path) # Absent
           /\ Content(file_header) \in Seq(Bytes) /\ Len(Content(file_header)) = TotalSize(file_header)
<1>1. PICK b : b = FirstHeader(call.path)
  OBVIOUS
<1>2. b \in HeadersOf(disk, call.path) /\ file_header = disk[b] /\ SoundDisk(disk)
  BY <1>1, FileTyped, DiskNow DEF TheFile, Ready
<1>3. /\ b \in 1 .. UsedOnDisk - 1 /\ disk[b] \in Headers /\ disk[b].kind = "header"
      /\ disk[b].path = call.path /\ disk[b].off = b + 1 /\ disk[b].count \in Nat
      /\ \A d \in b + 1 .. b + disk[b].count : d \in Blocks /\ d \in 1 .. UsedOnDisk - 1
  BY <1>2, HeadersAre, DiskNow
<1>4. ASSUME NEW d \in 0 .. disk[b].count - 1
      PROVE  disk[b].off + d \in Blocks /\ disk[b].off + d \in 1 .. UsedOnDisk - 1
  <2>1. disk[b].off + d \in b + 1 .. b + disk[b].count
    BY <1>3
  <2> QED
    BY <1>3, <2>1
<1>5. FileAt(call.path) = Content(file_header)
  BY <1>1, <1>2, FileTyped DEF TheFile
<1>6. Content(file_header) \in Seq(Bytes) /\ Len(Content(file_header)) = TotalSize(file_header)
  BY <1>2, <1>3, ContentIs, DiskNow
<1> QED
  BY <1>1, <1>2, <1>3, <1>4, <1>5, <1>6, AbsentAssumption

LEMMA ToReadIs ==
    ASSUME Ready, pc = "rload"
    PROVE  /\ ReadOffset \in Nat /\ BytesToRead \in Nat
           /\ ReadOffset + BytesToRead <= TotalSize(file_header)
           /\ Len(buffer) \in Nat /\ Len(buffer) < BytesToRead
<1>1. pc \in Mounted /\ TypeOK /\ TheFile /\ Loaded
  BY DEF Mounted, Ready, StoreStage
<1>2. call.off \in Nat /\ call.max \in Nat
  BY <1>1, DuringCall
<1>3. TotalSize(file_header) \in Nat /\ ReadOffset \in Nat /\ ReadOffset < TotalSize(file_header)
  BY <1>1, <1>2, TheFileIs, TotalBounds DEF Loaded, ReadOffset
<1>4. Len(buffer) \in Nat
  BY <1>1, LenProperties DEF TypeOK
<1> QED
  BY <1>1, <1>2, <1>3, <1>4 DEF BytesToRead, Loaded

\* What is collected so far ends in the block that comes next.
LEMMA LoadPlace ==
    ASSUME Ready, pc = "rload",
           NEW from, from = IF buffer = <<>> THEN ReadOffset % BLOCK ELSE 0
    PROVE  /\ from \in 0 .. BLOCK - 1 /\ blk \in Nat
           /\ ReadOffset + Len(buffer) = blk * BLOCK + from
           /\ blk < file_header.count
<1>1. TheFile /\ Loaded /\ BLOCK \in Nat \ {0} /\ blk \in Nat
  BY SizesAssumption DEF Ready, StoreStage, TypeOK
<1>2. /\ ReadOffset \in Nat /\ BytesToRead \in Nat /\ Len(buffer) \in Nat
      /\ ReadOffset + Len(buffer) < TotalSize(file_header)
  BY ToReadIs, <1>1, TheFileIs, TotalBounds
<1>3. from \in 0 .. BLOCK - 1 /\ ReadOffset + Len(buffer) = blk * BLOCK + from
  <2>1. CASE buffer = <<>>
    <3>1. /\ ReadOffset % BLOCK \in 0 .. BLOCK - 1
          /\ ReadOffset = (ReadOffset \div BLOCK) * BLOCK + (ReadOffset % BLOCK)
      BY <1>2, DivModOf
    <3>2. blk = ReadOffset \div BLOCK
      BY <1>1, <2>1 DEF Loaded
    <3>3. ReadOffset = blk * BLOCK + from /\ from \in 0 .. BLOCK - 1 /\ Len(buffer) = 0
      BY <2>1, <3>1, <3>2
    <3> QED
      BY <1>2, <3>3
  <2>2. CASE buffer # <<>>
    <3>1. ReadOffset + Len(buffer) = blk * BLOCK /\ from = 0
      BY <1>1, <2>2 DEF Loaded
    <3>2. blk * BLOCK \in Nat
      BY <1>1
    <3> QED
      BY <1>1, <3>1, <3>2
  <2> QED
    BY <2>1, <2>2
<1>4. blk < file_header.count
  <2>1. PICK a, n : a = ReadOffset + Len(buffer) /\ n = file_header.count
    OBVIOUS
  <2>2. a \in Nat /\ n \in Nat /\ a < n * BLOCK
    BY <1>1, <1>2, <2>1, TheFileIs, TotalBounds
  <2>3. a \div BLOCK < n
    BY <2>2, BlockBefore
  <2>4. a \div BLOCK = blk
    BY <1>1, <1>3, <2>1, <2>2, DivMod
  <2> QED
    BY <2>1, <2>3, <2>4
<1> QED
  BY <1>1, <1>3, <1>4

LEMMA LoadPiece ==
    ASSUME Ready, pc = "rload",
           NEW bytes, bytes = buffer \o Piece(disk[file_header.off + blk])
    PROVE  /\ file_header.off + blk \in Blocks /\ blk < file_header.count
           /\ bytes \in Seq(Bytes) /\ bytes # <<>> /\ Len(bytes) <= BytesToRead
           /\ \A i \in 1 .. Len(bytes) : bytes[i] = Content(file_header)[ReadOffset + i]
           /\ Len(bytes) < BytesToRead =>
                 /\ ReadOffset + Len(bytes) = (blk + 1) * BLOCK
                 /\ blk + 1 < file_header.count
<1> DEFINE from == IF buffer = <<>> THEN ReadOffset % BLOCK ELSE 0
           left == BytesToRead - Len(buffer)
           upto == IF from + left < BLOCK THEN from + left ELSE BLOCK
           block == disk[file_header.off + blk]
<1>1. TheFile /\ Loaded /\ BLOCK \in Nat \ {0} /\ TypeOK /\ SoundDisk(disk)
  BY SizesAssumption DEF Ready, StoreStage
<1>2. /\ ReadOffset \in Nat /\ BytesToRead \in Nat /\ Len(buffer) \in Nat /\ Len(buffer) < BytesToRead
      /\ ReadOffset + BytesToRead <= TotalSize(file_header)
  BY ToReadIs
<1>3. /\ from \in 0 .. BLOCK - 1 /\ blk \in Nat /\ blk < file_header.count
      /\ ReadOffset + Len(buffer) = blk * BLOCK + from
  BY LoadPlace
<1>4. left \in Nat \ {0}
  BY <1>2
<1>5. /\ file_header \in Headers /\ file_header.count \in Nat /\ TotalSize(file_header) \in Nat
      /\ TotalSize(file_header) <= file_header.count * BLOCK /\ file_header.count * BLOCK \in Nat
  BY <1>1, TheFileIs, TotalBounds
<1>6. file_header.off + blk \in Blocks
  <2>1. blk \in 0 .. file_header.count - 1
    BY <1>3, <1>5
  <2>2. \A d \in 0 .. file_header.count - 1 : file_header.off + d \in Blocks
    BY <1>1, TheFileIs
  <2> QED
    BY <2>1, <2>2
<1>7. block \in Contents /\ BytesOf(block) \in [1 .. BLOCK -> Bytes]
  BY <1>1, <1>6, BytesOfTyped DEF TypeOK
<1>8. Piece(block) = SubSeq(BytesOf(block), from + 1, upto)
  BY DEF Piece
<1> HIDE DEF from, left, block
<1>9. /\ upto \in Nat /\ from < upto /\ upto <= BLOCK /\ upto - from <= left
      /\ upto - from < left => upto = BLOCK
  BY <1>1, <1>3, <1>4
<1> HIDE DEF upto
<1>10. PICK k : k = upto - from
  OBVIOUS
<1>11. /\ Piece(block) \in Seq(Bytes) /\ Len(Piece(block)) = k
       /\ \A j \in 1 .. k : Piece(block)[j] = BytesOf(block)[from + j]
  <2>1. \A i \in from + 1 .. upto : BytesOf(block)[i] \in Bytes
    BY <1>1, <1>3, <1>7, <1>9
  <2>2. from + 1 \in Nat \ {0} /\ from + 1 \in Int /\ upto \in Int /\ upto - (from + 1) + 1 = k
    BY <1>3, <1>9, <1>10
  <2>3. PICK s, m, n : s = BytesOf(block) /\ m = from + 1 /\ n = upto
    OBVIOUS
  <2>4. /\ m \in Int /\ n \in Int /\ m <= n /\ n - m + 1 = k /\ k \in Nat
        /\ \A j \in 1 .. k : m + j - 1 = from + j
    BY <1>3, <1>9, <1>10, <2>3
  <2>5. \A i \in m .. n : s[i] \in Bytes
    BY <2>1, <2>3
  <2>6. /\ SubSeq(s, m, n) \in Seq(Bytes)
        /\ Len(SubSeq(s, m, n)) = IF m <= n THEN n - m + 1 ELSE 0
        /\ \A j \in 1 .. n - m + 1 : SubSeq(s, m, n)[j] = s[m + j - 1]
    BY <2>4, <2>5, SubSeqProperties
  <2>7. /\ SubSeq(s, m, n) \in Seq(Bytes) /\ Len(SubSeq(s, m, n)) = k
        /\ \A j \in 1 .. k : SubSeq(s, m, n)[j] = s[from + j]
    BY <2>4, <2>6
  <2> QED
    BY <1>8, <2>3, <2>7
<1>12. /\ bytes \in Seq(Bytes) /\ Len(bytes) = Len(buffer) + k
       /\ \A i \in 1 .. Len(buffer) : bytes[i] = buffer[i]
       /\ \A j \in 1 .. k : bytes[Len(buffer) + j] = Piece(block)[j]
  <2>1. PICK x : x = Piece(block)
    OBVIOUS
  <2>2. bytes = buffer \o x /\ buffer \in Seq(Bytes) /\ x \in Seq(Bytes) /\ Len(x) = k /\ k \in Nat
    BY <1>1, <1>3, <1>9, <1>10, <1>11, <2>1 DEF TypeOK, block
  <2>3. /\ bytes \in Seq(Bytes) /\ Len(bytes) = Len(buffer) + k
        /\ \A i \in 1 .. Len(buffer) + k :
              bytes[i] = IF i <= Len(buffer) THEN buffer[i] ELSE x[i - Len(buffer)]
    BY <2>2, ConcatProperties
  <2>4. ASSUME NEW j \in 1 .. k PROVE bytes[Len(buffer) + j] = x[j]
    <3>1. PICK i : i = Len(buffer) + j
      OBVIOUS
    <3>2. i \in 1 .. Len(buffer) + k /\ ~(i <= Len(buffer)) /\ i - Len(buffer) = j
      BY <1>2, <2>2, <3>1
    <3> QED
      BY <2>3, <3>1, <3>2
  <2>5. \A i \in 1 .. Len(buffer) : bytes[i] = buffer[i]
    BY <1>2, <2>2, <2>3
  <2> QED
    BY <2>1, <2>3, <2>4, <2>5
<1>13. k \in Nat \ {0} /\ k <= left /\ Len(bytes) <= BytesToRead /\ bytes # <<>>
  BY <1>2, <1>3, <1>9, <1>10, <1>12 DEF left
<1>14. ASSUME NEW j \in 1 .. k
       PROVE  bytes[Len(buffer) + j] = Content(file_header)[ReadOffset + (Len(buffer) + j)]
  <2>1. PICK i, a, r : i = ReadOffset + (Len(buffer) + j) /\ a = i - 1 /\ r = from + j - 1
    OBVIOUS
  <2>2. a \in Nat /\ r \in 0 .. BLOCK - 1 /\ a = blk * BLOCK + r /\ r + 1 = from + j
    <3>1. PICK m, l : m = blk * BLOCK /\ l = Len(buffer)
      OBVIOUS
    <3>2. m \in Nat
      BY <1>1, <1>3, <3>1
    <3>3. /\ ReadOffset \in Nat /\ l \in Nat /\ ReadOffset + l = m + from
          /\ from \in 0 .. BLOCK - 1 /\ upto \in Nat /\ upto <= BLOCK /\ k = upto - from
      BY <1>2, <1>3, <1>9, <1>10, <3>1
    <3>4. i = ReadOffset + (l + j) /\ a = i - 1 /\ r = from + j - 1 /\ j \in 1 .. k
      BY <2>1, <3>1
    <3>5. a = m + r /\ r \in 0 .. BLOCK - 1 /\ r + 1 = from + j /\ a \in Nat
      BY <1>1, <3>2, <3>3, <3>4
    <3> QED
      BY <3>1, <3>5
  <2>3. a \div BLOCK = blk /\ a % BLOCK = r
    BY <1>3, <2>2, DivMod
  <2>4. i \in 1 .. TotalSize(file_header)
    BY <1>2, <1>5, <1>12, <1>13, <2>1
  <2>5. Content(file_header)[i] = BytesOf(disk[file_header.off + (i - 1) \div BLOCK])[((i - 1) % BLOCK) + 1]
    BY <2>4 DEF Content
  <2>6. Content(file_header)[i] = BytesOf(disk[file_header.off + blk])[from + j]
    BY <2>1, <2>2, <2>3, <2>5
  <2>7. Piece(block)[j] = BytesOf(disk[file_header.off + blk])[from + j]
    BY <1>11 DEF block
  <2>8. Content(file_header)[ReadOffset + (Len(buffer) + j)] = Content(file_header)[i]
    BY <2>1
  <2> QED
    BY <1>12, <2>6, <2>7, <2>8
<1>15. ASSUME NEW i \in 1 .. Len(bytes) PROVE bytes[i] = Content(file_header)[ReadOffset + i]
  <2>1. CASE i <= Len(buffer)
    BY <1>1, <1>2, <1>12, <2>1 DEF Loaded
  <2>2. CASE i > Len(buffer)
    <3>1. PICK j \in 1 .. k : i = Len(buffer) + j
      <4>1. i - Len(buffer) \in 1 .. k /\ i = Len(buffer) + (i - Len(buffer))
        BY <1>2, <1>12, <1>13, <2>2
      <4> QED
        BY <4>1
    <3> QED
      BY <1>14, <3>1
  <2> QED
    BY <1>2, <1>12, <1>13, <2>1, <2>2
<1>16. ASSUME Len(bytes) < BytesToRead
       PROVE  ReadOffset + Len(bytes) = (blk + 1) * BLOCK /\ blk + 1 < file_header.count
  <2>1. upto = BLOCK
    BY <1>2, <1>9, <1>10, <1>12, <1>13, <1>16 DEF left
  <2>2. (blk + 1) * BLOCK = blk * BLOCK + BLOCK /\ blk * BLOCK \in Nat
    BY <1>1, <1>3
  <2>3. ReadOffset + Len(bytes) = (blk + 1) * BLOCK
    <3>1. PICK m, l : m = blk * BLOCK /\ l = Len(buffer)
      OBVIOUS
    <3>2. m \in Nat /\ ReadOffset + l = m + from /\ k = BLOCK - from /\ Len(bytes) = l + k
      BY <1>3, <1>10, <1>12, <2>1, <2>2, <3>1
    <3>3. from \in Nat /\ BLOCK \in Nat /\ ReadOffset \in Nat /\ l \in Nat
      BY <1>1, <1>2, <1>3, <3>1
    <3>4. ReadOffset + Len(bytes) = m + BLOCK
      BY <3>2, <3>3
    <3> QED
      BY <2>2, <3>1, <3>4
  <2>4. PICK a, n : a = ReadOffset + Len(bytes) /\ n = file_header.count
    OBVIOUS
  <2>5. a \in Nat /\ a < n * BLOCK /\ n \in Nat
    BY <1>2, <1>5, <1>12, <1>13, <1>16, <2>4
  <2>6. a \div BLOCK < n
    BY <2>5, BlockBefore
  <2>7. a = (blk + 1) * BLOCK + 0 /\ 0 \in 0 .. BLOCK - 1 /\ blk + 1 \in Nat
    BY <1>1, <1>3, <2>2, <2>3, <2>4
  <2>8. a \div BLOCK = blk + 1
    BY <2>5, <2>7, DivMod
  <2> QED
    BY <2>3, <2>4, <2>6, <2>8
<1> QED
  BY <1>3, <1>6, <1>12, <1>13, <1>15, <1>16

\* All that was asked for has been collected: for a write the whole file, for
\* a read the slice that it asked for.
LEMMA WholeFile ==
    ASSUME Ready, pc = "rload", call.op = "write", NEW bytes \in Seq(Bytes),
           Len(bytes) = BytesToRead,
           \A i \in 1 .. Len(bytes) : bytes[i] = Content(file_header)[ReadOffset + i]
    PROVE  bytes = Content(file_header)
<1>1. TheFile
  BY DEF Ready, StoreStage
<1>2. PICK c, n : c = Content(file_header) /\ n = TotalSize(file_header)
  OBVIOUS
<1>3. c \in Seq(Bytes) /\ Len(c) = n /\ n \in Nat
  BY <1>1, <1>2, TheFileIs, TotalBounds
<1>4. ReadOffset = 0 /\ Len(bytes) = n
  BY <1>2, <1>3 DEF ReadOffset, BytesToRead
<1>5. \A i \in 1 .. n : bytes[i] = c[i]
  BY <1>2, <1>4
<1> QED
  BY <1>2, <1>3, <1>4, <1>5, SeqEqual

LEMMA WholeAnswer ==
    ASSUME Ready, pc = "rload", call.op = "read", NEW bytes \in Seq(Bytes),
           Len(bytes) = BytesToRead,
           \A i \in 1 .. Len(bytes) : bytes[i] = Content(file_header)[ReadOffset + i]
    PROVE  bytes = Store!Slice(FileAt(call.path))
<1>1. TheFile /\ Loaded
  BY DEF Ready, StoreStage
<1>2. PICK c, m, n : c = Content(file_header) /\ m = ReadOffset + 1 /\ n = ReadOffset + BytesToRead
  OBVIOUS
<1>3. c \in Seq(Bytes) /\ Len(c) = TotalSize(file_header) /\ FileAt(call.path) = c
  BY <1>1, <1>2, TheFileIs
<1>4. /\ ReadOffset = call.off /\ ReadOffset \in Nat /\ BytesToRead \in Nat \ {0}
      /\ n <= TotalSize(file_header) /\ ReadOffset < TotalSize(file_header)
      /\ TotalSize(file_header) \in Nat
  BY <1>1, <1>2, ToReadIs, TheFileIs, TotalBounds DEF ReadOffset, Loaded
<1>5. Store!Slice(c) = SubSeq(c, m, n)
  <2>1. PICK a : a = Len(c) - call.off
    OBVIOUS
  <2>2. BytesToRead = IF call.max > 0 /\ call.max < a THEN call.max ELSE a
    BY <1>3, <1>4, <2>1 DEF BytesToRead
  <2>3. ~(call.off >= Len(c))
    BY <1>3, <1>4
  <2>4. Store!Slice(c) = SubSeq(c, call.off + 1, call.off + BytesToRead)
    BY <2>1, <2>2, <2>3, Zenon DEF Store!Slice
  <2> QED
    BY <1>2, <1>4, <2>4
<1>6. /\ m \in Int /\ n \in Int /\ m <= n /\ n - m + 1 = BytesToRead
      /\ \A i \in m .. n : c[i] \in Bytes
  <2>1. m .. n \subseteq 1 .. Len(c)
    BY <1>2, <1>3, <1>4
  <2>2. \A i \in 1 .. Len(c) : c[i] \in Bytes
    BY <1>3, ElementOfSeq
  <2>3. m \in Int /\ n \in Int /\ m <= n /\ n - m + 1 = BytesToRead
    <3>1. PICK r, k : r = ReadOffset /\ k = BytesToRead
      OBVIOUS
    <3>2. r \in Nat /\ k \in Nat \ {0} /\ m = r + 1 /\ n = r + k
      BY <1>2, <1>4, <3>1
    <3>3. m \in Int /\ n \in Int /\ m <= n /\ n - m + 1 = k
      BY <3>2
    <3> QED
      BY <3>1, <3>3
  <2>4. \A i \in m .. n : c[i] \in Bytes
    BY <2>1, <2>2, Zenon
  <2> QED
    BY <2>3, <2>4
<1>7. PICK s : s = SubSeq(c, m, n)
  OBVIOUS
<1>8. /\ s \in Seq(Bytes) /\ Len(s) = BytesToRead
      /\ \A i \in 1 .. BytesToRead : s[i] = c[m + i - 1]
  BY <1>6, <1>7, SubSeqProperties
<1>9. ASSUME NEW i \in 1 .. BytesToRead PROVE bytes[i] = s[i]
  <2>1. m + i - 1 = ReadOffset + i
    BY <1>2, <1>4
  <2>2. bytes[i] = c[ReadOffset + i]
    BY <1>2
  <2> QED
    BY <1>8, <2>1, <2>2
<1> QED
  BY <1>3, <1>5, <1>7, <1>8, <1>9, SeqEqual

LEMMA LoadStep ==
    ASSUME Ready, NEW ok \in BOOLEAN, LoadBlock(ok), ~ErrorIgnored
    PROVE  Refines
<1>0. /\ pc = "rload" /\ pc \in Mounted /\ UNCHANGED disk /\ read_block(file_header.off + blk, ok)
      /\ TypeOK /\ TheFile /\ Loaded /\ call.op \in {"read", "write"}
  BY DuringCall DEF LoadBlock, Mounted, Ready, StoreStage
<1>1. PICK bytes : bytes = buffer \o Piece(disk[file_header.off + blk])
  OBVIOUS
<1>2. /\ file_header.off + blk \in Blocks /\ blk < file_header.count
      /\ bytes \in Seq(Bytes) /\ bytes # <<>> /\ Len(bytes) <= BytesToRead
      /\ \A i \in 1 .. Len(bytes) : bytes[i] = Content(file_header)[ReadOffset + i]
      /\ Len(bytes) < BytesToRead =>
            /\ ReadOffset + Len(bytes) = (blk + 1) * BLOCK
            /\ blk + 1 < file_header.count
  BY <1>0, <1>1, LoadPiece
<1>3. /\ ReadOffset \in Nat /\ BytesToRead \in Nat /\ Len(bytes) \in Nat
      /\ blk \in Nat /\ file_header.count \in Nat /\ TotalSize(file_header) \in Nat
  BY <1>0, <1>2, ToReadIs, TheFileIs, TotalBounds, LenProperties DEF TypeOK
<1>4. (Len(bytes) >= BytesToRead \/ blk + 1 >= file_header.count) <=> Len(bytes) = BytesToRead
  BY <1>2, <1>3
<1>5. CASE ~ok
  <2>1. faults' > faults
    BY <1>0, <1>2, <1>5 DEF read_block, Refuse, TypeOK
  <2>2. call.op = "read"
    BY <1>0, <2>1 DEF ErrorIgnored
  <2>3. Return("IOError", <<>>)
    BY <1>5, <2>2 DEF LoadBlock
  <2>4. Store!Answer(FileAt(call.path), "IOError", <<>>)
    BY <2>2 DEF Store!Answer, Store!Errors
  <2> QED
    BY <1>0, <2>3, <2>4, StepReturns, StageReturned DEF Refines
<1>6. CASE ok /\ Len(bytes) = BytesToRead /\ call.op = "read"
  <2>1. Return("Success", bytes)
    BY <1>1, <1>4, <1>6 DEF LoadBlock
  <2>2. bytes = Store!Slice(FileAt(call.path))
    BY <1>0, <1>2, <1>6, WholeAnswer
  <2>3. Store!Answer(FileAt(call.path), "Success", bytes)
    BY <1>0, <1>6, <2>2, DuringCall, TheFileIs DEF Store!Answer
  <2> QED
    BY <1>0, <2>1, <2>3, StepReturns, StageReturned DEF Refines
<1>7. CASE ok /\ ~(Len(bytes) = BytesToRead /\ call.op = "read")
  <2>1. /\ buffer' = bytes /\ blk' = blk + 1
        /\ pc' = IF Len(bytes) = BytesToRead THEN "alloc" ELSE "rload"
        /\ UNCHANGED <<call, ret, result, free_blocks_count, curr_block, file_header,
                       expanded_data, grewBlocks>>
    BY <1>1, <1>4, <1>7 DEF LoadBlock, Goto
  <2>2. StoreStep
    BY <1>0, <2>1, DiskSame, StepUnseen
  <2>3. call'.op = "write" => WithinFile(call)' /\ call'.path \notin LongPaths
    BY <1>0, <2>1, CallSame
  <2>4. TheFile' /\ Content(file_header)' = Content(file_header)
    <3>1. TheFile'
      BY <1>0, <2>1, TheFileSame
    <3>2. Content(file_header)' = Content(file_header)
      BY <1>0, <2>1, DiskSame DEF Content, TotalSize
    <3> QED
      BY <3>1, <3>2
  <2>5. call'.path \notin RootPaths
    BY <1>0, <2>1, DuringCall
  <2>6. CASE Len(bytes) = BytesToRead
    <3>1. call.op = "write"
      BY <1>0, <1>7, <2>6
    <3>2. bytes = Content(file_header)
      BY <1>0, <1>2, <2>6, <3>1, WholeFile
    <3>3. file_exists'
      BY <1>0, <2>1, TheFileIs, NoHeaderAssumption DEF file_exists
    <3>4. pc' = "alloc" /\ TheFile' /\ buffer' = Content(file_header)' /\ call'.op = "write"
      BY <2>1, <2>4, <2>6, <3>1, <3>2
    <3>5. StoreStage'
      BY <2>3, <2>5, <3>3, <3>4 DEF StoreStage, Mounted
    <3> QED
      BY <2>1, <2>2, <3>5 DEF Refines, Ready
  <2>7. CASE Len(bytes) # BytesToRead
    <3>1. Len(bytes) < BytesToRead
      BY <1>2, <1>3, <2>7
    <3>2. ReadOffset' = ReadOffset /\ TotalSize(file_header)' = TotalSize(file_header)
          /\ BytesToRead' = BytesToRead
      BY <2>1 DEF ReadOffset, BytesToRead, TotalSize
    <3>3. /\ ReadOffset' < TotalSize(file_header)' /\ Len(buffer') < BytesToRead'
          /\ buffer' # <<>> /\ ReadOffset' + Len(buffer') = blk' * BLOCK
          /\ \A i \in 1 .. Len(buffer') : buffer'[i] = Content(file_header)'[ReadOffset' + i]
      BY <1>0, <1>2, <2>1, <2>4, <3>1, <3>2 DEF Loaded
    <3>4. Loaded'
      BY <3>3 DEF Loaded
    <3>5. pc' = "rload" /\ call'.op # "exists"
      BY <1>0, <2>1, <2>7
    <3>6. StoreStage'
      BY <2>3, <2>4, <2>5, <3>4, <3>5 DEF StoreStage, Mounted
    <3> QED
      BY <2>1, <2>2, <3>6 DEF Refines, Ready
  <2> QED
    BY <2>6, <2>7
<1> QED
  BY <1>5, <1>6, <1>7

-----------------------------------------------------------------------------
(* Allocation *)

\* The header of a new file gives it the size that was asked for.
LEMMA SizeOfNew ==
    ASSUME NEW n \in Nat \ {0}, NEW h, h.count = BlocksFor(n), h.size = LastBlockSize(n)
    PROVE  TotalSize(h) = n
<1>1. PICK q, r : q = n \div BLOCK /\ r = n % BLOCK
  OBVIOUS
<1>2. q \in Nat /\ r \in 0 .. BLOCK - 1 /\ n = q * BLOCK + r /\ BLOCK \in Nat \ {0} /\ q * BLOCK \in Nat
  <2>1. q \in Nat /\ r \in 0 .. BLOCK - 1 /\ n = q * BLOCK + r /\ BLOCK \in Nat \ {0}
    BY <1>1, DivModOf, SizesAssumption
  <2> QED
    BY <2>1
<1>3. CASE r = 0
  <2>1. PICK a, s : a = q - 1 /\ s = BLOCK - 1
    OBVIOUS
  <2>2. q \in Nat \ {0}
    <3>1. q = 0 => q * BLOCK = 0
      BY <1>2
    <3> QED
      BY <1>2, <1>3, <3>1
  <2>3. n + BLOCK - 1 \in Nat /\ n + BLOCK - 1 = q * BLOCK + s /\ s \in 0 .. BLOCK - 1
    BY <1>2, <1>3, <2>1
  <2>4. BlocksFor(n) = q
    BY <1>2, <2>3, DivMod DEF BlocksFor
  <2>5. LastBlockSize(n) = BLOCK
    BY <1>1, <1>3 DEF LastBlockSize
  <2>6. (q - 1) * BLOCK + BLOCK = q * BLOCK
    BY <1>2, <2>2
  <2> QED
    BY <1>2, <1>3, <2>4, <2>5, <2>6 DEF TotalSize
<1>4. CASE r # 0
  <2>1. PICK a, s : a = q + 1 /\ s = r - 1
    OBVIOUS
  <2>2. (q + 1) * BLOCK = q * BLOCK + BLOCK
    BY <1>2
  <2>3. n + BLOCK - 1 \in Nat /\ n + BLOCK - 1 = a * BLOCK + s /\ s \in 0 .. BLOCK - 1 /\ a \in Nat
    BY <1>2, <1>4, <2>1, <2>2
  <2>4. BlocksFor(n) = a
    BY <1>2, <2>3, DivMod DEF BlocksFor
  <2>5. LastBlockSize(n) = r
    BY <1>1, <1>4 DEF LastBlockSize
  <2>6. a - 1 = q
    BY <1>2, <2>1
  <2> QED
    BY <1>2, <2>4, <2>5, <2>6 DEF TotalSize
<1> QED
  BY <1>3, <1>4

LEMMA AllocateNewStep ==
    ASSUME Ready, AllocateNew, IInv'
    PROVE  Refines
<1>0. /\ pc = "alloc" /\ pc \in Mounted /\ ~file_exists /\ UNCHANGED disk
      /\ TypeOK /\ call.op = "write" /\ HeaderBlocks(call.path) = {} /\ buffer = <<>>
  BY DEF AllocateNew, Mounted, Ready, StoreStage
<1>1. /\ call.off \in Nat /\ Len(call.data) \in Nat /\ call.path \notin RootPaths
      /\ call.path \notin LongPaths
  BY <1>0, DuringCall
<1>2. final_size = call.off + Len(call.data) /\ final_size \in Nat
  BY <1>0, <1>1 DEF final_size
<1>3. FileAt(call.path) = Absent
  BY <1>0, FileTyped
<1>4. CASE Return("InvalidParameters", <<>>)
  <2>1. Store!Answer(FileAt(call.path), "InvalidParameters", <<>>)
    BY <1>0, <1>3 DEF Store!Answer, Store!Errors
  <2> QED
    BY <1>0, <1>4, <2>1, StepReturns, StageReturned DEF Refines
<1>5. CASE Return("NoSpaceLeft", <<>>)
  <2>1. Store!Answer(FileAt(call.path), "NoSpaceLeft", <<>>)
    BY <1>0, <1>3 DEF Store!Answer, Store!Errors, Store!Grows
  <2> QED
    BY <1>0, <1>5, <2>1, StepReturns, StageReturned DEF Refines
<1>6. CASE /\ final_size # 0
           /\ Prepared(NewHeader(assigned_header_block + 1), BlocksTaken(BlocksFor(final_size)))
           /\ Goto("header")
           /\ UNCHANGED grewBlocks
  <2>1. /\ pc' = "header" /\ UNCHANGED <<call, ret, result, grewBlocks, disk>>
        /\ file_header' = NewHeader(assigned_header_block + 1)
        /\ expanded_data' = Expanded /\ blk' = 0 /\ buffer' = <<>>
    BY <1>0, <1>6 DEF Prepared, Goto
  <2>2. StoreStep
    BY <1>0, <2>1, DiskSame, StepUnseen
  <2>3. HeaderBlocks(call.path)' = {}
    BY <1>0, <2>1, DiskSame
  <2>4. AtEnd'
    BY <2>1 DEF IInv, Stage, Ready
  <2>5. file_header'.path = call'.path
    BY <2>1 DEF NewHeader
  <2>6. TotalSize(file_header)' = final_size
    <3>1. file_header'.count = BlocksFor(final_size) /\ file_header'.size = LastBlockSize(final_size)
      BY <2>1 DEF NewHeader
    <3>2. TotalSize(file_header') = final_size
      BY <1>2, <1>6, <3>1, SizeOfNew
    <3> QED
      BY <3>2 DEF TotalSize
  <2>7. Len(expanded_data)' = final_size
    BY <1>2, <2>1 DEF Expanded
  <2>8. ASSUME NEW i \in 1 .. final_size
        PROVE  expanded_data'[i] = IF Named(i)' THEN call'.data[i - call'.off] ELSE 0
    BY <1>0, <2>1 DEF Expanded, Named
  <2>9. \A d \in 0 .. blk' - 1 : disk'[file_header'.off + d] = Chunk(d)'
    BY <2>1
  <2>10. Creates'
    BY <1>2, <2>1, <2>3, <2>4, <2>5, <2>6, <2>7, <2>8, <2>9 DEF Creates
  <2>11. call'.op = "write" => WithinFile(call)' /\ call'.path \notin LongPaths
    BY <1>0, <2>1, CallSame
  <2> QED
    BY <1>0, <1>1, <2>1, <2>2, <2>10, <2>11 DEF Refines, StoreStage, Mounted, Ready
<1> QED
  BY <1>4, <1>5, <1>6 DEF AllocateNew

LEMMA AllocateMoreStep ==
    ASSUME Ready, AllocateMore
    PROVE  Refines
<1>0. /\ pc = "alloc" /\ pc \in Mounted /\ file_exists /\ UNCHANGED disk /\ ~grewBlocks
      /\ TypeOK /\ call.op = "write" /\ TheFile /\ buffer = Content(file_header)
      /\ free_blocks_count = disk[0].free /\ free_blocks_count \in Nat
  BY DEF AllocateMore, Mounted, Ready, StoreStage, Stage, TypeOK, file_exists
<1>1. /\ call.off \in Nat /\ Len(call.data) \in Nat /\ call.path \notin RootPaths
      /\ call.path \notin LongPaths /\ WithinFile(call)
  BY <1>0, DuringCall
<1>2. /\ file_header \in Headers /\ TotalSize(file_header) \in Nat
      /\ file_header.path = call.path /\ Len(Content(file_header)) = TotalSize(file_header)
  BY <1>0, TheFileIs, TotalBounds
<1>3. final_size = TotalSize(file_header)
  <2>1. call.off + Len(call.data) <= TotalSize(file_header)
    BY <1>0, <1>1, FileTyped DEF WithinFile, TheFile
  <2> QED
    BY <1>0, <1>1, <1>2, <2>1 DEF final_size
<1>4. BlocksFor(final_size) = file_header.count /\ LastBlockSize(final_size) = file_header.size
  BY <1>2, <1>3, SizeAgain
<1>5. NewHeader(file_header.off) = file_header
  BY <1>2, <1>4 DEF NewHeader, Headers
<1>6. file_header.count \in Nat
  BY <1>2, TotalBounds
<1>7. /\ pc' = "payload" /\ UNCHANGED <<call, ret, result, disk, file_header>> /\ ~grewBlocks'
      /\ expanded_data' = Expanded /\ blk' = 0 /\ buffer' = <<>>
      /\ free_blocks_count' = disk[0].free
  <2>1. PICK n, extra : /\ n = BlocksFor(final_size)
                        /\ extra = IF n > file_header.count THEN n - file_header.count ELSE 0
    OBVIOUS
  <2>2. extra = 0
    BY <1>4, <1>6, <2>1
  <2>3. /\ Prepared(NewHeader(file_header.off), 0) /\ Goto("payload")
        /\ grewBlocks' = (grewBlocks \/ 0 > 0)
    <3>1. ~(free_blocks_count < extra)
      BY <1>0, <2>2
    <3>2. /\ Prepared(NewHeader(file_header.off), extra) /\ Goto("payload")
          /\ grewBlocks' = (grewBlocks \/ extra > 0)
      BY <2>1, <3>1, Zenon DEF AllocateMore
    <3> QED
      BY <2>2, <3>2
  <2>4. ~grewBlocks'
    <3>1. ~(0 > 0)
      OBVIOUS
    <3> QED
      BY <1>0, <2>3, <3>1, Zenon
  <2> QED
    <3>1. /\ file_header' = file_header /\ free_blocks_count' = free_blocks_count - 0
          /\ expanded_data' = Expanded /\ blk' = 0 /\ buffer' = <<>>
      BY <1>5, <2>3 DEF Prepared
    <3>2. pc' = "payload" /\ UNCHANGED <<call, ret, result>>
      BY <2>3 DEF Goto
    <3>3. free_blocks_count - 0 = free_blocks_count
      BY <1>0
    <3> QED
      BY <1>0, <2>4, <3>1, <3>2, <3>3
<1>8. StoreStep
  BY <1>0, <1>7, DiskSame, StepUnseen
<1>9. TheFile' /\ Content(file_header)' = Content(file_header)
  <2>1. TheFile'
    BY <1>0, <1>7, TheFileSame
  <2>2. Content(file_header)' = Content(file_header)
    BY <1>7, DiskSame DEF Content, TotalSize
  <2> QED
    BY <2>1, <2>2
<1>10. Len(expanded_data)' = TotalSize(file_header)' /\ TotalSize(file_header)' = TotalSize(file_header)
  BY <1>2, <1>3, <1>7 DEF Expanded, TotalSize
<1>11. ASSUME NEW i \in 1 .. TotalSize(file_header)
       PROVE  expanded_data'[i] = IF Named(i)' THEN call'.data[i - call'.off]
                                  ELSE Content(file_header)'[i]
  BY <1>0, <1>2, <1>3, <1>7, <1>9 DEF Expanded, Named
<1>12. ASSUME NEW i \in 1 .. TotalSize(file_header) PROVE ~(i <= blk' * BLOCK)
  <2>1. 0 * BLOCK = 0
    BY SizesAssumption
  <2>2. blk' * BLOCK = 0
    BY <1>7, <2>1, Zenon
  <2> QED
    BY <1>2, <2>2
<1>13. Overwrites'
  BY <1>7, <1>9, <1>10, <1>11, <1>12 DEF Overwrites
<1>14. call'.op = "write" => WithinFile(call)' /\ call'.path \notin LongPaths
  BY <1>0, <1>7, CallSame
<1> QED
  BY <1>0, <1>1, <1>7, <1>8, <1>13, <1>14 DEF Refines, StoreStage, Mounted, Ready

-----------------------------------------------------------------------------
(* The writes *)

\* The answer that a write was refused says nothing of the file.
LEMMA RefusedAnswer ==
    ASSUME call.op = "write", NEW file
    PROVE  Store!Answer(file, "WriteFailed", <<>>)
BY DEF Store!Answer, Store!Errors

LEMMA StepFails ==
    ASSUME Ready, pc \in Mounted, call.op = "write", Return("WriteFailed", <<>>),
           Files' \in Store!Patches \cup Store!Enlargements
    PROVE  Refines
<1>1. pc \notin {"boot", "idle"} /\ pc' = "idle" /\ UNCHANGED call /\ ret' = "WriteFailed" /\ result' = <<>>
  BY DEF Return, Mounted
<1>2. Store!Answer(Files'[call.path], ret', result')
  BY <1>1, RefusedAnswer
<1>3. StoreStep
  BY <1>1, <1>2, StepAnswers
<1> QED
  BY <1>3, StageReturned DEF Refines

\* A block that is written after the end of the chain, or not written at all.
LEMMA BeyondNow ==
    ASSUME Ready, NEW t \in Nat \ {0}, t >= UsedOnDisk, NEW x,
           disk' = disk \/ disk' = [disk EXCEPT ![t] = x]
    PROVE  /\ UsedOnDisk' = UsedOnDisk /\ disk'[0] = disk[0] /\ Files' = Files
           /\ \A p : HeaderBlocks(p)' = HeaderBlocks(p) /\ FileAt(p)' = FileAt(p)
           /\ \A d \in 0 .. UsedOnDisk - 1 : d \in Blocks => disk'[d] = disk[d]
<1>1. SoundDisk(disk) /\ TypeOK
  BY DEF Ready
<1>2. CASE disk' = disk
  BY <1>2, DiskSame
<1>3. CASE disk' = [disk EXCEPT ![t] = x]
  <2>1. PICK dk2 : dk2 = disk'
    OBVIOUS
  <2>2. /\ UsedOf(dk2) = UsedOf(disk)
        /\ \A p : HeadersOf(dk2, p) = HeadersOf(disk, p) /\ FileOf(dk2, p) = FileOf(disk, p)
        /\ \A d \in 0 .. UsedOf(disk) - 1 : d \in Blocks => dk2[d] = disk[d]
    <3>1. t >= UsedOf(disk)
      BY DiskNow
    <3>2. dk2 = Put(disk, t, x)
      BY <1>3, <2>1 DEF Put
    <3>3. SoundDisk(disk)
      BY <1>1
    <3> QED
      BY <3>1, <3>2, <3>3, WrittenBeyond
  <2>3. disk'[0] = disk[0]
    BY <1>1, <1>3, BlockZero DEF TypeOK
  <2>4. UsedOnDisk' = UsedOnDisk /\ \A p : HeaderBlocks(p)' = HeaderBlocks(p) /\ FileAt(p)' = FileAt(p)
    BY <2>1, <2>2, DiskNow, DiskNext
  <2>5. Files' = Files
    BY <2>4 DEF Files
  <2> QED
    BY <2>1, <2>2, <2>3, <2>4, <2>5, DiskNow
<1> QED
  BY <1>2, <1>3

\* A file of the call's path that is there cannot be one that is being created.
LEMMA CreatesWritten ==
    ASSUME Ready, pc \in {"payload", "super"}, Creates
    PROVE  NewWritten(IF pc = "super" THEN file_header.count ELSE blk)
<1>1. pc \in Mounted /\ SoundDisk(disk) /\ call.op = "write" /\ HeaderBlocks(call.path) = {}
  BY DEF Mounted, Ready, StoreStage, Creates
<1>2. ~InPlace
  <2>1. SUFFICES ASSUME InPlace PROVE FALSE
    OBVIOUS
  <2>2. PICK b \in 1 .. UsedOnDisk - 1 : disk[b].kind = "header" /\ disk[b].path = call.path
    BY <2>1 DEF InPlace
  <2>3. b \in Blocks
    BY <1>1, <2>2, DiskNow DEF SoundDisk
  <2>4. call.path \notin LongPaths
    BY <1>1, DuringCall
  <2> QED
    BY <1>1, <2>2, <2>3, <2>4 DEF HeaderBlocks, is_path_equal
<1> QED
  BY <1>2 DEF Ready, Stage

LEMMA WriteHeaderStep ==
    ASSUME Ready, NEW ok \in BOOLEAN, WriteHeader(ok)
    PROVE  Refines
<1>0. /\ pc = "header" /\ pc \in Mounted /\ Creates /\ call.op = "write" /\ TypeOK /\ blk = 0
      /\ write_block(file_header.off - 1, file_header, ok)
  BY DEF WriteHeader, WriteStep, Mounted, Ready, StoreStage, HeaderKnown
<1>1. /\ UsedOnDisk \in Nat \ {0} /\ file_header.off - 1 = UsedOnDisk
      /\ call.path \notin RootPaths /\ call.path \notin LongPaths
  BY <1>0, DuringCall DEF Creates, AtEnd
<1>2. disk' = disk \/ disk' = [disk EXCEPT ![UsedOnDisk] = file_header]
  BY <1>0, <1>1, WriteBlockEffect
<1>3. /\ UsedOnDisk' = UsedOnDisk /\ disk'[0] = disk[0] /\ Files' = Files
      /\ \A p : HeaderBlocks(p)' = HeaderBlocks(p) /\ FileAt(p)' = FileAt(p)
  BY <1>1, <1>2, BeyondNow
<1>4. CASE ~ok
  <2>1. Return("WriteFailed", <<>>)
    BY <1>4 DEF WriteHeader, WriteStep
  <2>2. Files' \in Store!Patches \cup Store!Enlargements
    BY <1>3, PatchNothing
  <2> QED
    BY <1>0, <2>1, <2>2, StepFails
<1>5. CASE ok
  <2>1. /\ pc' = "payload"
        /\ UNCHANGED <<call, ret, result, free_blocks_count, curr_block, file_header, buffer,
                       expanded_data, grewBlocks, blk>>
    BY <1>5 DEF WriteHeader, WriteStep, Goto
  <2>2. StoreStep
    BY <1>0, <1>3, <2>1, StepUnseen
  <2>3. disk'[UsedOnDisk'] = file_header'
    BY <1>0, <1>1, <1>3, <1>5, <2>1 DEF write_block, TypeOK
  <2>4. AtEnd'
    BY <1>0, <1>3, <2>1 DEF Creates, AtEnd
  <2>5. /\ TotalSize(file_header)' = TotalSize(file_header)
        /\ \A i : Named(i)' = Named(i)
    BY <2>1 DEF TotalSize, Named
  <2>6. Creates'
    BY <1>0, <1>3, <2>1, <2>3, <2>4, <2>5 DEF Creates
  <2>7. WithinFile(call)'
    BY <1>0, <1>3, <2>1 DEF WithinFile, Creates
  <2> QED
    BY <1>0, <1>1, <2>1, <2>2, <2>6, <2>7 DEF Refines, StoreStage, Mounted, Ready
<1> QED
  BY <1>4, <1>5

\* A payload block of a file that is being created.
LEMMA PayloadCreates ==
    ASSUME Ready, NEW ok \in BOOLEAN, WritePayload(ok), Creates
    PROVE  Refines
<1>0. /\ pc = "payload" /\ pc \in Mounted /\ call.op = "write" /\ TypeOK
      /\ blk \in Nat /\ blk < file_header.count /\ file_header \in Headers /\ file_header.count \in Nat
      /\ write_block(file_header.off + blk, Chunk(blk), ok)
  BY TotalBounds DEF WritePayload, WriteStep, Mounted, Ready, StoreStage, HeaderKnown, TypeOK
<1>1. /\ UsedOnDisk \in Nat \ {0} /\ file_header.off = UsedOnDisk + 1
      /\ call.path \notin RootPaths /\ call.path \notin LongPaths
  BY <1>0, DuringCall DEF Creates, AtEnd
<1>2. PICK t : t = file_header.off + blk
  OBVIOUS
<1>3. t \in Nat \ {0} /\ t >= UsedOnDisk /\ t # UsedOnDisk
  BY <1>0, <1>1, <1>2
<1>4. /\ disk' = disk \/ disk' = [disk EXCEPT ![t] = Chunk(blk)]
      /\ ok => t \in Blocks /\ disk' = [disk EXCEPT ![t] = Chunk(blk)]
  BY <1>0, <1>2, WriteBlockEffect
<1>5. /\ UsedOnDisk' = UsedOnDisk /\ disk'[0] = disk[0] /\ Files' = Files
      /\ \A p : HeaderBlocks(p)' = HeaderBlocks(p) /\ FileAt(p)' = FileAt(p)
  BY <1>3, <1>4, BeyondNow
<1>6. CASE ~ok
  <2>1. Return("WriteFailed", <<>>)
    BY <1>6 DEF WritePayload, WriteStep
  <2>2. Files' \in Store!Patches \cup Store!Enlargements
    BY <1>5, PatchNothing
  <2> QED
    BY <1>0, <2>1, <2>2, StepFails
<1>7. CASE ok
  <2>1. /\ pc' = IF blk + 1 < file_header.count THEN "payload" ELSE "super"
        /\ blk' = blk + 1
        /\ UNCHANGED <<call, ret, result, free_blocks_count, curr_block, file_header, buffer,
                       expanded_data, grewBlocks>>
    BY <1>7 DEF WritePayload, WriteStep, Goto
  <2>2. StoreStep
    BY <1>0, <1>5, <2>1, StepUnseen
  <2>3. /\ t \in Blocks /\ disk'[t] = Chunk(blk)
        /\ \A d \in Blocks : d # t => disk'[d] = disk[d]
    BY <1>0, <1>4, <1>7 DEF TypeOK
  <2>4. disk'[UsedOnDisk'] = file_header'
    <3>1. disk[UsedOnDisk] = file_header /\ UsedOnDisk \in Blocks
      BY <1>0, CreatesWritten DEF Creates, NewWritten
    <3> QED
      BY <1>3, <1>5, <2>1, <2>3, <3>1
  <2>5. AtEnd'
    BY <1>5, <2>1 DEF Creates, AtEnd
  <2>6. /\ TotalSize(file_header)' = TotalSize(file_header)
        /\ \A i : Named(i)' = Named(i)
        /\ \A d : Chunk(d)' = Chunk(d)
    BY <2>1 DEF TotalSize, Named, Chunk
  <2>7. ASSUME NEW d \in 0 .. blk' - 1
        PROVE  disk'[file_header'.off + d] = Chunk(d)'
    <3>1. d \in 0 .. blk /\ file_header'.off + d = file_header.off + d /\ Chunk(d)' = Chunk(d)
      BY <1>0, <2>1, <2>6
    <3>2. CASE d = blk
      BY <1>2, <2>3, <3>1, <3>2
    <3>3. CASE d # blk
      <4>1. d \in 0 .. blk - 1
        BY <1>0, <3>1, <3>3
      <4>2. disk[file_header.off + d] = Chunk(d)
        BY <4>1 DEF Creates
      <4>3. file_header.off + d \in Blocks /\ file_header.off + d # t
        BY <1>0, <1>1, <1>2, <2>3, <4>1, SizesAssumption DEF Blocks
      <4> QED
        BY <2>3, <3>1, <4>2, <4>3
    <3> QED
      BY <3>2, <3>3
  <2>8. Creates'
    BY <1>5, <2>1, <2>4, <2>5, <2>6, <2>7 DEF Creates
  <2>9. WithinFile(call)'
    BY <1>5, <2>1 DEF WithinFile, Creates
  <2>10. pc' = "super" => blk' = file_header'.count
    BY <1>0, <2>1
  <2> QED
    BY <1>0, <1>1, <2>1, <2>2, <2>8, <2>9, <2>10 DEF Refines, StoreStage, Mounted, Ready
<1> QED
  BY <1>6, <1>7

\* The bytes of the expanded data that are in the block that is written.
LEMMA ChunkBytes ==
    ASSUME NEW h \in Headers, Len(expanded_data) = TotalSize(h), NEW i \in 1 .. TotalSize(h)
    PROVE  Chunk((i - 1) \div BLOCK).bytes[((i - 1) % BLOCK) + 1] = expanded_data[i]
<1>1. PICK q, r : q = (i - 1) \div BLOCK /\ r = ((i - 1) % BLOCK) + 1
  OBVIOUS
<1>2. r \in 1 .. BLOCK /\ i = q * BLOCK + r
  BY <1>1, PlaceOf
<1>3. Chunk(q).bytes[r] = IF q * BLOCK + r <= Len(expanded_data) THEN expanded_data[q * BLOCK + r] ELSE 0
  BY <1>2 DEF Chunk
<1>4. i <= Len(expanded_data)
  BY TotalBounds
<1>5. Chunk(q).bytes[r] = expanded_data[i]
  BY <1>2, <1>3, <1>4
<1> QED
  BY <1>1, <1>5

\* A payload block that is written over one of the file of the call.
LEMMA OverNow ==
    ASSUME Ready, pc = "payload", Overwrites, blk < file_header.count, UNCHANGED call,
           disk' = [disk EXCEPT ![file_header.off + blk] = Chunk(blk)]
    PROVE  /\ UsedOnDisk' = UsedOnDisk /\ disk'[0] = disk[0]
           /\ \A p : HeaderBlocks(p)' = HeaderBlocks(p)
           /\ \A p : p # call.path => FileAt(p)' = FileAt(p)
           /\ \A b \in HeaderBlocks(call.path) : disk'[b] = disk[b]
           /\ FileAt(call.path)' = ContentOf(disk', file_header)
           /\ \A i \in 1 .. TotalSize(file_header) :
                 ContentOf(disk', file_header)[i] =
                     IF (i - 1) \div BLOCK = blk THEN expanded_data[i]
                     ELSE Content(file_header)[i]
<1>0. TypeOK /\ TheFile /\ SoundDisk(disk) /\ blk \in Nat /\ Len(expanded_data) = TotalSize(file_header)
  BY DEF Ready, Overwrites, TypeOK
<1>1. PICK b, t, h, dk2 : /\ b = FirstHeader(call.path) /\ t = file_header.off + blk
                          /\ h = file_header /\ dk2 = disk'
  OBVIOUS
<1>2. /\ b \in 1 .. UsedOf(disk) - 1 /\ h = disk[b] /\ h \in Headers /\ h.kind = "header"
      /\ h.path = call.path /\ h.off = b + 1 /\ h.count \in Nat /\ t \in Blocks
  BY <1>0, <1>1, TheFileIs, TotalBounds, DiskNow
<1>3. t \in b + 1 .. b + h.count
  BY <1>0, <1>1, <1>2
<1>4. Chunk(blk) \in Payloads
  BY <1>0, ChunkTyped DEF TypeOK
<1>5. dk2 = Put(disk, t, Chunk(blk))
  BY <1>1 DEF Put
<1>6. /\ UsedOf(dk2) = UsedOf(disk) /\ dk2[0] = disk[0]
      /\ \A p : HeadersOf(dk2, p) = HeadersOf(disk, p)
      /\ \A p : p # disk[b].path => FileOf(dk2, p) = FileOf(disk, p)
      /\ dk2[b] = disk[b]
      /\ \A i \in 1 .. TotalSize(disk[b]) :
            ContentOf(dk2, disk[b])[i] =
                IF disk[b].off + (i - 1) \div BLOCK = t THEN Chunk(blk).bytes[((i - 1) % BLOCK) + 1]
                ELSE ContentOf(disk, disk[b])[i]
  BY <1>0, <1>2, <1>3, <1>4, <1>5, WrittenOver
<1>7. ASSUME NEW i \in 1 .. TotalSize(h)
      PROVE  ContentOf(dk2, h)[i] = IF (i - 1) \div BLOCK = blk THEN expanded_data[i]
                                    ELSE Content(h)[i]
  <2>1. PICK q : q = (i - 1) \div BLOCK
    OBVIOUS
  <2>2. q \in Nat /\ (h.off + q = t <=> q = blk)
    <3>1. q \in 0 .. h.count - 1
      BY <1>2, <2>1, PlaceOf
    <3>2. h.off \in Nat /\ t = h.off + blk
      BY <1>1, <1>2
    <3> QED
      BY <1>0, <3>1, <3>2
  <2>3. ContentOf(dk2, h)[i] = IF h.off + q = t THEN Chunk(blk).bytes[((i - 1) % BLOCK) + 1]
                               ELSE ContentOf(disk, h)[i]
    BY <1>2, <1>6, <2>1
  <2>4. Chunk(q).bytes[((i - 1) % BLOCK) + 1] = expanded_data[i]
    BY <1>0, <1>1, <1>2, <2>1, ChunkBytes
  <2> QED
    BY <2>1, <2>2, <2>3, <2>4, DiskNow
<1>8. ASSUME NEW c \in HeaderBlocks(call.path) PROVE disk'[c] = disk[c]
  <2>1. c \in Blocks /\ disk[c].kind = "header"
    BY DEF HeaderBlocks
  <2>2. disk[t].kind = "data"
    BY <1>0, <1>2, <1>3 DEF SoundDisk
  <2> QED
    BY <1>0, <1>1, <2>1, <2>2 DEF TypeOK
<1>9. FileOf(dk2, call.path) = ContentOf(dk2, h)
  <2>1. HeadersOf(dk2, call.path) = HeadersOf(disk, call.path) /\ HeadersOf(disk, call.path) # {}
    BY <1>0, <1>6, DiskNow DEF TheFile
  <2>2. FirstOf(HeadersOf(dk2, call.path)) = b
    BY <1>1, <2>1, DiskNow
  <2> QED
    BY <1>2, <1>6, <2>1, <2>2 DEF FileOf
<1>10. UsedOnDisk' = UsedOnDisk /\ disk'[0] = disk[0]
  BY <1>1, <1>6, DiskNow, DiskNext
<1>11. \A p : HeaderBlocks(p)' = HeaderBlocks(p)
  BY <1>1, <1>6, DiskNow, DiskNext
<1>12. ASSUME NEW p, p # call.path PROVE FileAt(p)' = FileAt(p)
  <2>1. FileOf(dk2, p) = FileOf(disk, p)
    BY <1>2, <1>6, <1>12
  <2> QED
    BY <1>1, <2>1, DiskNow, DiskNext
<1>13. FileAt(call.path)' = ContentOf(disk', file_header)
  <2>1. \A p : FileAt(p)' = FileOf(disk', p)
    BY DiskNext
  <2>2. FileAt(call.path)' = FileOf(disk', call.path)
    BY <2>1
  <2> QED
    BY <1>1, <1>9, <2>2
<1>14. \A i \in 1 .. TotalSize(file_header) :
          ContentOf(disk', file_header)[i] =
              IF (i - 1) \div BLOCK = blk THEN expanded_data[i] ELSE Content(file_header)[i]
  BY <1>1, <1>7
<1> QED
  BY <1>8, <1>10, <1>11, <1>12, <1>13, <1>14

\* It is one way to replace some of the bytes that the call names.
LEMMA OverPatches ==
    ASSUME Ready, pc = "payload", Overwrites, blk < file_header.count, UNCHANGED call,
           disk' = [disk EXCEPT ![file_header.off + blk] = Chunk(blk)]
    PROVE  Files' \in Store!Patches
<1>0. TheFile /\ call.op = "write" /\ call.path \in Paths /\ call.off \in Nat /\ Len(call.data) \in Nat
  BY DuringCall DEF Ready, StoreStage, Overwrites, Mounted
<1>1. PICK h, old, new, p : /\ h = file_header /\ old = FileAt(call.path) /\ p = call.path
                            /\ new = ContentOf(disk', file_header)
  OBVIOUS
<1>2. /\ old = Content(h) /\ old # Absent /\ old \in Seq(Bytes) /\ Len(old) = TotalSize(h)
      /\ TotalSize(h) \in Nat
  BY <1>0, <1>1, TheFileIs, TotalBounds
<1>3. /\ \A q : q # p => FileAt(q)' = FileAt(q)
      /\ FileAt(p)' = new
      /\ \A i \in 1 .. TotalSize(h) :
            new[i] = IF (i - 1) \div BLOCK = blk THEN expanded_data[i] ELSE old[i]
  <2>1. /\ \A q : q # call.path => FileAt(q)' = FileAt(q)
        /\ FileAt(call.path)' = ContentOf(disk', file_header)
        /\ \A i \in 1 .. TotalSize(file_header) :
              ContentOf(disk', file_header)[i] =
                  IF (i - 1) \div BLOCK = blk THEN expanded_data[i] ELSE Content(file_header)[i]
    BY OverNow
  <2> QED
    BY <1>1, <1>2, <2>1
<1>4. \A i \in 1 .. TotalSize(h) :
         expanded_data[i] = IF Named(i) THEN call.data[i - call.off] ELSE old[i]
  BY <1>1, <1>2 DEF Overwrites
<1> DEFINE done == {i \in 1 .. Len(old) : Store!InRange(i) /\ (i - 1) \div BLOCK = blk}
<1>5. \A i \in 1 .. Len(old) : Named(i) <=> Store!InRange(i)
  BY DEF Named, Store!InRange, Store!target
<1>6. \A i \in 1 .. Len(old) :
         new[i] = IF i \in done THEN call.data[i - call.off] ELSE old[i]
  BY <1>2, <1>3, <1>4, <1>5
<1>7. new = [i \in 1 .. Len(old) |-> new[i]]
  BY <1>1, <1>2 DEF ContentOf
<1>8. Store!Patched(old, done) = new
  BY <1>6, <1>7 DEF Store!Patched, Store!Written
<1>9. Files[p] = old
  BY <1>0, <1>1 DEF Files
<1>10. Files' = [Files EXCEPT ![p] = new]
  BY <1>0, <1>1, <1>3 DEF Files
<1>11. done \in SUBSET {i \in 1 .. Len(Files[p]) : Store!InRange(i)}
  BY <1>9
<1> HIDE DEF done
<1>12. Files' = [Files EXCEPT ![p] = Store!Patched(@, done)]
  BY <1>8, <1>9, <1>10
<1>13. ~(call.op # "write" \/ Files[p] = Absent)
  BY <1>0, <1>2, <1>9
<1>14. call.op = "write" /\ Files[call.path] # Absent
  BY <1>1, <1>13
<1>15. Store!Patches = {[Files EXCEPT ![call.path] = Store!Patched(@, d)] :
                           d \in SUBSET {i \in 1 .. Len(Files[call.path]) : Store!InRange(i)}}
  BY <1>14 DEF Store!Patches, Files
<1> QED
  BY <1>1, <1>11, <1>12, <1>15

\* A byte before the end of a block is in that block or before it.
LEMMA BytesUpTo ==
    ASSUME NEW i \in Nat \ {0}, NEW n \in Nat, i <= (n + 1) * BLOCK, (i - 1) \div BLOCK # n
    PROVE  i <= n * BLOCK
<1>1. PICK a, q, r, m : a = i - 1 /\ q = a \div BLOCK /\ r = a % BLOCK /\ m = n + 1
  OBVIOUS
<1>2. /\ a \in Nat /\ q \in Nat /\ r \in 0 .. BLOCK - 1 /\ a = q * BLOCK + r
      /\ BLOCK \in Nat \ {0} /\ m \in Nat
  BY <1>1, DivModOf, SizesAssumption
<1>3. m * BLOCK \in Nat /\ n * BLOCK \in Nat /\ (q + 1) * BLOCK \in Nat
      /\ (q + 1) * BLOCK = q * BLOCK + BLOCK
  BY <1>2
<1>4. a < m * BLOCK
  BY <1>1, <1>2, <1>3
<1>5. q < m
  BY <1>1, <1>2, <1>4, BlockBefore
<1>6. q + 1 <= n
  BY <1>1, <1>2, <1>5
<1>7. (q + 1) * BLOCK <= n * BLOCK
  BY <1>2, <1>6, Z3
<1>8. i <= (q + 1) * BLOCK
  BY <1>1, <1>2, <1>3
<1> QED
  BY <1>3, <1>7, <1>8

LEMMA PayloadOverwrites ==
    ASSUME Ready, NEW ok \in BOOLEAN, WritePayload(ok), Overwrites
    PROVE  Refines
<1>0. /\ pc = "payload" /\ pc \in Mounted /\ call.op = "write" /\ TypeOK /\ TheFile
      /\ blk \in Nat /\ blk < file_header.count /\ file_header \in Headers /\ file_header.count \in Nat
      /\ write_block(file_header.off + blk, Chunk(blk), ok)
  BY TotalBounds DEF WritePayload, WriteStep, Mounted, Ready, StoreStage, HeaderKnown, TypeOK, Overwrites
<1>1. call.path \notin RootPaths /\ call.path \notin LongPaths /\ WithinFile(call)
  BY <1>0, DuringCall
<1>2. UNCHANGED call
  BY DEF WritePayload, WriteStep, Return, Goto
<1>3. /\ disk' = disk \/ disk' = [disk EXCEPT ![file_header.off + blk] = Chunk(blk)]
      /\ ok => disk' = [disk EXCEPT ![file_header.off + blk] = Chunk(blk)]
  BY <1>0, WriteBlockEffect
<1>4. Files' \in Store!Patches
  <2>1. CASE disk' = disk
    BY <2>1, DiskSame, PatchNothing
  <2>2. CASE disk' = [disk EXCEPT ![file_header.off + blk] = Chunk(blk)]
    BY <1>0, <1>2, <2>2, OverPatches
  <2> QED
    BY <1>3, <2>1, <2>2
<1>5. CASE ~ok
  <2>1. Return("WriteFailed", <<>>)
    BY <1>5 DEF WritePayload, WriteStep
  <2> QED
    BY <1>0, <1>4, <2>1, StepFails
<1>6. CASE ok
  <2>1. /\ pc' = IF blk + 1 < file_header.count THEN "payload" ELSE "super"
        /\ blk' = blk + 1
        /\ UNCHANGED <<call, ret, result, free_blocks_count, curr_block, file_header, buffer,
                       expanded_data, grewBlocks>>
    BY <1>6 DEF WritePayload, WriteStep, Goto
  <2>2. Store!Patch
    BY <1>0, <1>4, <2>1 DEF Store!Patch, Files
  <2>3. StoreStep
    BY <2>2 DEF StoreStep, Store!Next
  <2>4. /\ disk'[0] = disk[0]
        /\ \A p : HeaderBlocks(p)' = HeaderBlocks(p)
        /\ \A b \in HeaderBlocks(call.path) : disk'[b] = disk[b]
        /\ \A i \in 1 .. TotalSize(file_header) :
              ContentOf(disk', file_header)[i] =
                  IF (i - 1) \div BLOCK = blk THEN expanded_data[i] ELSE Content(file_header)[i]
    BY <1>0, <1>2, <1>3, <1>6, OverNow
  <2>5. HeaderBlocks(call.path)' = HeaderBlocks(call.path)
    BY <1>2, <2>4
  <2>6. TheFile'
    <3>1. FirstHeader(call.path)' = FirstHeader(call.path)
      BY <1>2, <2>5 DEF FirstHeader
    <3>2. FirstHeader(call.path) \in HeaderBlocks(call.path)
      BY <1>0, FileTyped DEF TheFile
    <3> QED
      BY <1>0, <2>1, <2>4, <2>5, <3>1, <3>2 DEF TheFile
  <2>7. WithinFile(call)'
    <3>1. WithinFile(call)' = (\A b \in HeaderBlocks(call.path) :
                                  call.off + Len(call.data) <= TotalSize(disk'[b]))
      BY <1>2, <2>5 DEF WithinFile, TotalSize
    <3> QED
      BY <1>1, <2>4, <3>1 DEF WithinFile
  <2>8. /\ TotalSize(file_header)' = TotalSize(file_header)
        /\ Content(file_header)' = ContentOf(disk', file_header)
        /\ \A i : Named(i)' = Named(i)
    BY <2>1 DEF TotalSize, Named, Content, ContentOf
  <2>9. free_blocks_count' = disk'[0].free /\ Len(expanded_data)' = TotalSize(file_header)
    BY <2>1, <2>4 DEF Overwrites
  <2>10. ASSUME NEW i \in 1 .. TotalSize(file_header)
         PROVE  expanded_data'[i] = IF Named(i)' THEN call'.data[i - call'.off]
                                    ELSE Content(file_header)'[i]
    BY <1>2, <2>1, <2>4, <2>8 DEF Overwrites
  <2>11. ASSUME NEW i \in 1 .. TotalSize(file_header), i <= (blk + 1) * BLOCK
         PROVE  Content(file_header)'[i] = expanded_data'[i]
    <3>1. CASE (i - 1) \div BLOCK = blk
      BY <2>1, <2>4, <2>8, <3>1
    <3>2. CASE (i - 1) \div BLOCK # blk
      <4>1. i \in Nat \ {0}
        BY <1>0, TotalBounds
      <4>2. i <= blk * BLOCK
        BY <1>0, <2>11, <3>2, <4>1, BytesUpTo
      <4>3. Content(file_header)[i] = expanded_data[i]
        BY <4>2 DEF Overwrites
      <4> QED
        BY <2>1, <2>4, <2>8, <3>2, <4>3
    <3> QED
      BY <3>1, <3>2
  <2>12. Overwrites'
    BY <2>1, <2>6, <2>8, <2>9, <2>10, <2>11 DEF Overwrites
  <2>13. pc' = "super" => blk' = file_header'.count
    BY <1>0, <2>1
  <2> QED
    BY <1>0, <1>1, <2>1, <2>3, <2>7, <2>12, <2>13 DEF Refines, StoreStage, Mounted, Ready
<1> QED
  BY <1>5, <1>6

LEMMA WritePayloadStep ==
    ASSUME Ready, NEW ok \in BOOLEAN, WritePayload(ok)
    PROVE  Refines
BY PayloadOverwrites, PayloadCreates DEF WritePayload, Ready, StoreStage

\* The file of the call, overwritten to the end, holds the data.
LEMMA SuperOverwrites ==
    ASSUME Ready, NEW ok \in BOOLEAN, WriteSuper(ok), Overwrites
    PROVE  Refines
<1>0. /\ pc = "super" /\ pc \in Mounted /\ call.op = "write" /\ TypeOK /\ TheFile
      /\ disk[0].kind = "super" /\ blk = file_header.count /\ free_blocks_count = disk[0].free
      /\ write_block(0, [kind |-> "super", free |-> free_blocks_count], ok)
  BY DEF WriteSuper, Mounted, Ready, StoreStage, HeaderKnown, Overwrites
<1>1. /\ call.path \in Paths /\ call.path \notin RootPaths /\ WithinFile(call)
      /\ call.off \in Nat /\ Len(call.data) \in Nat
  BY <1>0, DuringCall
<1>2. UNCHANGED disk
  <2>1. disk[0] = [kind |-> "super", free |-> free_blocks_count]
    <3>1. disk[0] \in Superblocks
      BY <1>0, BlockZero, BlockByKind DEF TypeOK
    <3> QED
      BY <1>0, <3>1 DEF Superblocks
  <2>2. disk' = disk \/ disk' = [disk EXCEPT ![0] = [kind |-> "super", free |-> free_blocks_count]]
    BY <1>0, WriteBlockEffect
  <2> QED
    BY <1>0, <2>1, <2>2 DEF TypeOK
<1>3. PICK file, h : file = FileAt(call.path) /\ h = file_header
  OBVIOUS
<1>4. /\ h \in Headers /\ file = Content(h) /\ file # Absent /\ Len(file) = TotalSize(h)
      /\ TotalSize(h) \in Nat /\ TotalSize(h) <= h.count * BLOCK /\ h.count * BLOCK \in Nat
  BY <1>0, <1>3, TheFileIs, TotalBounds
<1>5. Store!target <= Len(file)
  BY <1>0, <1>1, <1>3, <1>4, FileTyped DEF TheFile, WithinFile, Store!target
<1>6. ASSUME NEW i \in 1 .. Len(file), Store!InRange(i) PROVE file[i] = Store!Written(i)
  <2>1. i <= blk * BLOCK
    BY <1>0, <1>3, <1>4
  <2>2. expanded_data[i] = IF Named(i) THEN call.data[i - call.off] ELSE file[i]
    BY <1>3, <1>4 DEF Overwrites
  <2>3. file[i] = expanded_data[i]
    BY <1>3, <1>4, <2>1 DEF Overwrites
  <2>4. Named(i)
    BY <1>6 DEF Store!InRange, Store!target, Named
  <2> QED
    BY <2>2, <2>3, <2>4 DEF Store!Written
<1>7. Store!Stored(file)
  BY <1>4, <1>5, <1>6 DEF Store!Stored
<1>8. Return(IF ok THEN "Success" ELSE "WriteFailed", <<>>)
  BY DEF WriteSuper
<1>9. Store!Answer(FileAt(call.path), IF ok THEN "Success" ELSE "WriteFailed", <<>>)
  BY <1>0, <1>1, <1>3, <1>7, RefusedAnswer DEF Store!Answer
<1> QED
  BY <1>0, <1>2, <1>8, <1>9, StepReturns, StageReturned DEF Refines

\* A new file, once it is counted, holds the data and zeros before it.
LEMMA NewContent ==
    ASSUME Ready, pc = "super", Creates
    PROVE  Content(file_header) = Store!Enlarged(Absent)
<1>0. TypeOK /\ blk = file_header.count /\ file_header \in Headers
      /\ file_header.count \in Nat
  BY TotalBounds DEF Ready, StoreStage, HeaderKnown, TypeOK
<1>1. PICK h : h = file_header
  OBVIOUS
<1>2. h \in Headers /\ TotalSize(h) = Store!target
  BY <1>0, <1>1 DEF Creates, Store!target
<1>3. ASSUME NEW i \in 1 .. TotalSize(h)
      PROVE  Content(h)[i] = IF Store!InRange(i) THEN Store!Written(i) ELSE 0
  <2>1. PICK q : q = (i - 1) \div BLOCK
    OBVIOUS
  <2>2. q \in 0 .. h.count - 1
    BY <1>2, <2>1, PlaceOf
  <2>3. disk[h.off + q] = Chunk(q)
    BY <1>0, <1>1, <2>2 DEF Creates
  <2>4. BytesOf(Chunk(q)) = Chunk(q).bytes
    BY DEF BytesOf, Chunk
  <2>5. Content(h)[i] = BytesOf(disk[h.off + q])[((i - 1) % BLOCK) + 1]
    BY <2>1 DEF Content
  <2>6. Chunk(q).bytes[((i - 1) % BLOCK) + 1] = expanded_data[i]
    BY <1>1, <1>2, <2>1, ChunkBytes DEF Creates
  <2>7. expanded_data[i] = IF Named(i) THEN call.data[i - call.off] ELSE 0
    BY <1>1 DEF Creates
  <2>8. Named(i) <=> Store!InRange(i)
    BY DEF Named, Store!InRange, Store!target
  <2> QED
    BY <2>3, <2>4, <2>5, <2>6, <2>7, <2>8 DEF Store!Written
<1>4. Content(h) = [i \in 1 .. TotalSize(h) |-> IF Store!InRange(i) THEN Store!Written(i) ELSE 0]
  <2>1. Content(h) = [i \in 1 .. TotalSize(h) |-> Content(h)[i]]
    BY DEF Content
  <2> QED
    BY <1>3, <2>1
<1>5. Store!Enlarged(Absent) = [i \in 1 .. Store!target |-> IF Store!InRange(i) THEN Store!Written(i) ELSE 0]
  BY DEF Store!Enlarged
<1> QED
  BY <1>1, <1>2, <1>4, <1>5

\* It appears at once, when the partition header counts its blocks.
LEMMA SuperCreates ==
    ASSUME Ready, NEW ok \in BOOLEAN, WriteSuper(ok), Creates
    PROVE  Refines
<1>0. /\ pc = "super" /\ pc \in Mounted /\ call.op = "write" /\ TypeOK /\ SoundDisk(disk)
      /\ disk[0].kind = "super" /\ file_header \in Headers
      /\ write_block(0, [kind |-> "super", free |-> free_blocks_count], ok)
  BY DEF WriteSuper, Mounted, Ready, StoreStage, HeaderKnown, TypeOK
<1>1. /\ call.path \in Paths /\ call.path \notin RootPaths /\ call.path \notin LongPaths
      /\ call.off \in Nat /\ Len(call.data) \in Nat
  BY <1>0, DuringCall
<1>2. Return(IF ok THEN "Success" ELSE "WriteFailed", <<>>) /\ UNCHANGED call
  BY DEF WriteSuper, Return
<1>3. CASE disk' = disk /\ ~ok
  <2>1. Files' \in Store!Patches \cup Store!Enlargements
    BY <1>3, DiskSame, PatchNothing
  <2> QED
    BY <1>0, <1>2, <1>3, <2>1, StepFails
<1>4. CASE disk' = [disk EXCEPT ![0] = [kind |-> "super", free |-> free_blocks_count]]
  <2>1. PICK h, U, dk2, x : /\ h = file_header /\ U = UsedOf(disk) /\ dk2 = disk'
                            /\ x = [kind |-> "super", free |-> free_blocks_count]
    OBVIOUS
  <2>2. U = UsedOnDisk /\ U \in Nat \ {0} /\ h \in Headers /\ h.path = call.path
        /\ h.count \in Nat /\ h.off = U + 1
    BY <1>0, <2>1, DuringCall, DiskNow, TotalBounds DEF Creates, AtEnd
  <2>3. HeadersOf(disk, h.path) = {}
    BY <2>2, DiskNow DEF Creates
  <2>4. /\ U \in Blocks /\ disk[U] = h
        /\ \A d \in U + 1 .. U + h.count : d \in Blocks /\ disk[d].kind = "data"
    BY <1>0, <2>1, <2>2, CreatesWritten DEF NewWritten
  <2>5. dk2 = Put(disk, 0, x)
    BY <1>4, <2>1 DEF Put
  <2>6. UsedOf(dk2) = U + 1 + h.count
    <3>1. dk2[0] = x
      BY <1>0, <1>4, <2>1, BlockZero DEF TypeOK
    <3>2. UsedOf(dk2) = TotalBlocks - free_blocks_count
      BY <2>1, <3>1 DEF UsedOf
    <3>3. U = TotalBlocks - disk[0].free /\ free_blocks_count + 1 + h.count = disk[0].free
      BY <1>0, <2>1 DEF UsedOf, Creates, AtEnd
    <3>4. free_blocks_count \in Nat
      BY <1>0 DEF TypeOK
    <3> QED
      BY <2>2, <3>2, <3>3, <3>4, SizesAssumption
  <2>7. /\ FileOf(dk2, h.path) = ContentOf(disk, h)
        /\ \A p : p # h.path => FileOf(dk2, p) = FileOf(disk, p)
    <3>1. PayloadsAfter(disk, U, h.count)
      BY <2>4 DEF PayloadsAfter
    <3>2. /\ UsedOf(disk) \in Nat \ {0} /\ UsedOf(disk) \in Blocks /\ disk[UsedOf(disk)] = h
          /\ h \in Headers /\ h.off = UsedOf(disk) + 1 /\ PayloadsAfter(disk, UsedOf(disk), h.count)
          /\ UsedOf(dk2) = UsedOf(disk) + 1 + h.count
      BY <2>1, <2>2, <2>4, <2>6, <3>1
    <3>3. h.path \notin LongPaths /\ SoundDisk(disk)
      BY <1>0, <1>1, <2>2
    <3> QED
      BY <2>3, <2>5, <3>2, <3>3, Committed
  <2>8. PICK new : new = Store!Enlarged(Absent)
    OBVIOUS
  <2>9. ContentOf(disk, h) = new
    BY <1>0, <2>1, <2>8, NewContent, DiskNow
  <2>10. FileAt(call.path) = Absent
    BY <2>2, <2>3, FileTyped, DiskNow
  <2>11. \A p : FileAt(p)' = IF p = call.path THEN new ELSE FileAt(p)
    BY <2>1, <2>2, <2>7, <2>9, DiskNow, DiskNext
  <2>12. Files' = [Files EXCEPT ![call.path] = new]
    BY <1>1, <2>11 DEF Files
  <2>13. Store!target \in Nat \ {0} /\ Store!target = TotalSize(h)
    BY <1>0, <2>1, <2>2, TotalBounds DEF Creates, Store!target
  <2>14. Files' \in Store!Enlargements
    <3>1. Files[call.path] = Absent
      BY <1>1, <2>10 DEF Files
    <3>2. Store!Grows(Files[call.path])
      BY <3>1 DEF Store!Grows
    <3>3. Store!Enlargements = {[Files EXCEPT ![call.path] = Store!Enlarged(@)]}
      BY <1>0, <1>1, <2>13, <3>2 DEF Store!Enlargements, Files
    <3> QED
      BY <2>8, <2>12, <3>1, <3>3
  <2>15. Store!Stored(new)
    <3>1. new # Absent /\ Len(new) = Store!target
      <4>1. Content(h) = new
        BY <2>1, <2>9, DiskNow
      <4>2. Len(new) = Store!target
        BY <2>8, <2>13 DEF Store!Enlarged
      <4>3. new \in Seq(Bytes)
        <5>1. \A i \in 1 .. Store!target : Store!InRange(i) => Store!Written(i) \in Bytes
          <6> SUFFICES ASSUME NEW i \in 1 .. Store!target, Store!InRange(i)
                       PROVE  Store!Written(i) \in Bytes
            OBVIOUS
          <6>1. call.data \in Seq(Bytes) /\ i - call.off \in 1 .. Len(call.data)
            BY <1>0, <1>1, DuringCall DEF Store!InRange, Store!target
          <6> QED
            BY <6>1, ElementOfSeq DEF Store!Written
        <5>2. new \in [1 .. Store!target -> Bytes]
          BY <2>8, <5>1, BytesAssumption DEF Store!Enlarged
        <5> QED
          BY <2>13, <5>2, SeqDef
      <4> QED
        BY <4>2, <4>3, AbsentAssumption
    <3>2. \A i \in 1 .. Len(new) : Store!InRange(i) => new[i] = Store!Written(i)
      BY <2>8, <3>1 DEF Store!Enlarged
    <3> QED
      BY <2>13, <3>1, <3>2 DEF Store!Stored
  <2>16. Files'[call.path] = new
    BY <1>1, <2>12 DEF Files
  <2>17. Store!Answer(new, IF ok THEN "Success" ELSE "WriteFailed", <<>>)
    BY <1>0, <1>1, <2>15, RefusedAnswer DEF Store!Answer
  <2>18. Store!Answer(Files'[call.path], ret', result')
    BY <1>2, <2>16, <2>17 DEF Return
  <2>19. StoreStep
    <3>1. pc \notin {"boot", "idle"} /\ pc' = "idle"
      BY <1>0, <1>2 DEF Return
    <3> QED
      BY <1>2, <2>14, <2>18, <3>1, StepAnswers
  <2> QED
    BY <1>2, <2>19, StageReturned DEF Refines
<1> QED
  BY <1>0, <1>3, <1>4, BlockZero DEF write_block

LEMMA WriteSuperStep ==
    ASSUME Ready, NEW ok \in BOOLEAN, WriteSuper(ok)
    PROVE  Refines
BY SuperOverwrites, SuperCreates DEF WriteSuper, Ready, StoreStage

-----------------------------------------------------------------------------
(* AbtrFS is a FileStore *)

\* The invariant and the step, together: as long as none of the things has
\* happened after which it is none, AbtrFS takes the steps of a FileStore.
LEMMA StepStore ==
    ASSUME Ready, IInv', Next, ~WritesBeyond, ~WritesLongName, ~ErrorIgnored
    PROVE  Refines
BY CallStep, FormatStep, MountStep, ScanStep, ScanEndStep, LoadStep, AllocateNewStep,
   AllocateMoreStep, WriteHeaderStep, WritePayloadStep, WriteSuperStep DEF Next, Step

LEMMA StutterStage ==
    ASSUME StoreStage, UNCHANGED vars
    PROVE  StoreStage'
<1>1. /\ UNCHANGED <<disk, pc, call, free_blocks_count, curr_block, file_header, buffer,
                     expanded_data, blk>>
  BY DEF vars, locals
<1>2. /\ UsedOnDisk' = UsedOnDisk /\ HeaderBlocks(call.path)' = HeaderBlocks(call.path)
      /\ FirstHeader(call.path)' = FirstHeader(call.path)
      /\ Content(file_header)' = Content(file_header)
      /\ TotalSize(file_header)' = TotalSize(file_header)
  BY <1>1, DiskSame DEF Content, TotalSize
<1>3. ReadOffset' = ReadOffset /\ file_exists' = file_exists
  BY <1>1 DEF ReadOffset, file_exists
<1>4. BytesToRead' = BytesToRead
  BY <1>1, <1>2, <1>3 DEF BytesToRead
<1>5. WithinFile(call)' = WithinFile(call) /\ NoneBefore' = NoneBefore
  BY <1>1, <1>2 DEF WithinFile, TotalSize, NoneBefore
<1>6. (\A i : Named(i)' = Named(i)) /\ (\A d : Chunk(d)' = Chunk(d)) /\ AtEnd' = AtEnd
  BY <1>1, <1>2 DEF Named, Chunk, AtEnd
<1>7. TheFile' = TheFile
  BY <1>1, <1>2 DEF TheFile
<1>8. Loaded' = Loaded
  BY <1>1, <1>2, <1>3, <1>4 DEF Loaded
<1>9. Overwrites' = Overwrites
  BY <1>1, <1>2, <1>6, <1>7 DEF Overwrites
<1>10. Creates' = Creates
  BY <1>1, <1>2, <1>6 DEF Creates
<1> QED
  BY <1>1, <1>2, <1>3, <1>5, <1>7, <1>8, <1>9, <1>10 DEF StoreStage

LEMMA InitStore == MCInit => StoreInv /\ Store!Init
<1> SUFFICES ASSUME MCInit PROVE StoreInv /\ Store!Init
  OBVIOUS
<1>1. Init
  BY DEF MCInit
<1>2. StoreInv
  BY <1>1 DEF Init, StoreInv, StoreStage, Mounted
<1>3. disk[0].kind # "super"
  BY <1>1, BlockZero DEF Init, ZeroPayload
<1>4. \A p : HeadersOf(disk, p) = {}
  <2>1. UsedOf(disk) = 0
    BY <1>3 DEF UsedOf
  <2>2. 1 .. UsedOf(disk) - 1 = {}
    BY <2>1
  <2> QED
    BY <2>2 DEF HeadersOf
<1>5. \A p : FileAt(p) = Absent
  BY <1>4, DiskNow DEF FileOf
<1>6. Store!Init
  BY <1>1, <1>5 DEF Init, Store!Init
<1> QED
  BY <1>2, <1>6

LEMMA NextStore ==
    IInv /\ StoreInv /\ IInv' /\ [MCNext]_<<vars, asStore>> =>
        StoreInv' /\ [asStore' => [Store!Next]_(Store!vars)]_<<vars, asStore>>
<1> SUFFICES ASSUME IInv, StoreInv, IInv', [MCNext]_<<vars, asStore>>
             PROVE  StoreInv' /\ [asStore' => [Store!Next]_(Store!vars)]_<<vars, asStore>>
  OBVIOUS
<1>1. CASE UNCHANGED <<vars, asStore>>
  <2>1. UNCHANGED <<grewBlocks, asStore>> /\ UNCHANGED vars
    BY <1>1 DEF vars
  <2>2. StoreInv'
    BY <2>1, StutterStage DEF StoreInv
  <2> QED
    BY <1>1, <2>2
<1>2. CASE MCNext /\ asStore'
  <2>1. asStore /\ Next /\ ~WritesBeyond /\ ~WritesLongName /\ ~ErrorIgnored
    BY <1>2 DEF MCNext
  <2>2. Ready
    BY <2>1, ReadyNow
  <2>3. Refines
    BY <2>1, <2>2, StepStore
  <2> QED
    BY <2>3 DEF Refines, StoreInv, StoreStep
<1>3. CASE ~asStore'
  BY <1>3 DEF StoreInv
<1> QED
  BY <1>1, <1>2, <1>3

\* What AbtrFS does with its blocks is, seen through the headers it can find,
\* what a map from paths to contents does that a call at a time changes: a file
\* appears at once or not at all, an overwritten one changes in the bytes that
\* the call names, and each answer tells the truth.  It holds of every block
\* size, partition, set of calls and choice of refused blocks, until a write
\* reaches beyond its file or goes to a name too long to be found, or a refused
\* read is taken for something else.
THEOREM StoreRefined == MCSpec => StoreUntilGrowth
<1>1. MCInit => IInv /\ StoreInv /\ Store!Init
  BY InitInv, InitStore DEF MCInit
<1>2. IInv /\ [MCNext]_<<vars, asStore>> => IInv'
  <2>1. [MCNext]_<<vars, asStore>> => [Next]_vars
    BY DEF MCNext
  <2> QED
    BY <2>1, NextInv
<1>3. IInv /\ StoreInv /\ [MCNext]_<<vars, asStore>> => StoreInv'
  BY <1>2, NextStore
<1>4. IInv /\ StoreInv /\ [MCNext]_<<vars, asStore>> =>
         [asStore' => [Store!Next]_(Store!vars)]_<<vars, asStore>>
  BY <1>2, NextStore
<1> QED
  BY <1>1, <1>2, <1>3, <1>4, PTL DEF MCSpec, StoreUntilGrowth

=============================================================================
