----------------------------- MODULE SortedBlocks -----------------------------
(***************************************************************************)
(* The downloader's future-block queue (downloader/sorted_blocks.go): a    *)
(* slice of blocks kept in block-number order, from which processBlocks    *)
(* takes the blocks that continue the chain.  A block is its number; the   *)
(* queue is a sequence of numbers.  The operators are pure: they say what  *)
(* the methods compute and what the caller's slice holds afterwards.       *)
(***************************************************************************)
EXTENDS Naturals, Sequences

LOCAL INSTANCE SequencesExt

\* sort.Sort with Len, Swap and Less: ordered by NumberU64
IsSortedQueue(sb) == \A i \in 1..Len(sb) - 1 : sb[i] <= sb[i + 1]

\* insert appends and sorts the method's own copy of the slice header
InsertLocal(sb, blocks) == SortSeq(sb \o blocks, LAMBDA a, b : a < b)

(***************************************************************************)
(* insert and pop have value receivers: the caller's slice keeps its      *)
(* length, and queue starts nil, so append never shares its array.  What  *)
(* d.queue holds after either call is what it held before.                *)
(***************************************************************************)
QueueAfterInsert(sb, blocks) == sb

QueueAfterPop(sb, n) == sb

(***************************************************************************)
(* peekContinuousBlocks: the range loop over sb, leaving pos at the index *)
(* (0-based) where it breaks, or at the last index when it does not.      *)
(* parentNum is set once, from the first block whose parentNum is still   *)
(* 0, and is never advanced.                                              *)
(***************************************************************************)
RECURSIVE PeekPos(_, _, _)
PeekPos(sb, i, parentNum) ==
    IF i > Len(sb) THEN IF sb = <<>> THEN 0 ELSE Len(sb) - 1
    ELSE IF parentNum = 0 THEN PeekPos(sb, i + 1, sb[i])
    ELSE IF parentNum + 1 # sb[i] THEN i - 1
    ELSE PeekPos(sb, i + 1, parentNum)

\* sb[:pos]
PeekContinuousBlocks(sb) == SubSeq(sb, 1, PeekPos(sb, 1, 0))

=============================================================================
