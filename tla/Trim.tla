-------------------------------- MODULE Trim --------------------------------
(***************************************************************************)
(* node_ext2fs_trim of src/glue.c: one pass over the block bitmap that     *)
(* tells the disk to discard every maximal run of free blocks.             *)
(*                                                                         *)
(* Each discard suspends the C code (discard is an EM_ASYNC_JS import), but *)
(* no other C call runs meanwhile (OpQueue: OneCallAtATime), so the bitmap *)
(* changes between two trims, never during one.                            *)
(***************************************************************************)
EXTENDS Integers

CONSTANTS First,   \* s_first_data_block
          Count,   \* s_blocks_count: the blocks are First .. Count - 1
          IntWord  \* 2^32: blk, start and count are unsigned int

\* The loop runs while blk <= count, so count must not be the largest unsigned
\* int, or blk++ would wrap and the loop would never end.
ASSUME TrimAssumption ==
    /\ First \in Nat /\ Count \in Nat /\ IntWord \in Nat
    /\ First < Count
    /\ Count + 1 < IntWord

VARIABLES used,      \* the block bitmap: the blocks in use
          pc,        \* "idle", "loop", "done" or "failed"
          start,     \* first block of the current run
          blk,       \* the block the loop looks at
          requests   \* the runs this trim had the disk discard

trimVars == <<used, pc, start, blk, requests>>

BlockNumbers == First .. Count - 1
Free == BlockNumbers \ used
Discarded == UNION {r.from .. r.to : r \in requests}

TrimInit == /\ used \in SUBSET BlockNumbers
            /\ pc = "idle"
            /\ start = 0 /\ blk = 0
            /\ requests = {}

\* Other calls allocate and free blocks between two trims.
Allocate == /\ pc = "idle"
            /\ used' \in SUBSET BlockNumbers
            /\ UNCHANGED <<pc, start, blk, requests>>

\* The bitmap was read by the mount, or is read now and that may fail.
Begin == /\ pc = "idle"
         /\ pc' \in {"loop", "failed"}
         /\ start' = First /\ blk' = First
         /\ requests' = {}
         /\ UNCHANGED used

\* Slip: the short circuit of the last iteration is lost; a bit beyond the
\* bitmap reads as free.
AtRunEndNoLast == blk \in used
\* The last iteration, or a used block.
AtRunEnd == blk = Count \/ blk \in used

\* The next run starts behind the block that ended this one.
NextStart == (blk + 1) % IntWord

\* Slip: the run includes the block that ends it.
RunToInclusive == blk
\* Last block of the run that ends before blk.
RunTo == blk - 1

\* Slips: blk moves by two, or not at all at the end of a run.
NextBlkTwo == (blk + 2) % IntWord
NextBlkStuck == IF AtRunEnd THEN blk ELSE (blk + 1) % IntWord
\* blk++ of an unsigned int.
NextBlk == (blk + 1) % IntWord

\* One iteration: at the end of a run that is not empty the disk is asked to
\* discard it, and its error is the result of the call.
Iterate ==
    /\ pc = "loop" /\ blk <= Count
    /\ IF AtRunEnd
       THEN /\ start' = NextStart
            /\ IF start < blk
               THEN requests' = requests \cup {[from |-> start, to |-> RunTo]}
               ELSE UNCHANGED requests
       ELSE UNCHANGED <<start, requests>>
    /\ blk' = NextBlk
    /\ UNCHANGED <<used, pc>>

\* disk.discard threw: the call returns the error at once.
DiscardFails ==
    /\ pc = "loop" /\ blk <= Count
    /\ AtRunEnd /\ start < blk
    /\ pc' = "failed"
    /\ UNCHANGED <<used, start, blk, requests>>

\* The loop is over.
End == /\ pc = "loop" /\ blk > Count
       /\ pc' = "done"
       /\ UNCHANGED <<used, start, blk, requests>>

\* The caller has the result and the filesystem is used again.
Return == /\ pc \in {"done", "failed"}
          /\ pc' = "idle"
          /\ UNCHANGED <<used, start, blk, requests>>

TrimNext == Allocate \/ Begin \/ Iterate \/ DiscardFails \/ End \/ Return

\* The C loop runs on, and the disk answers every discard.
TrimSpec == /\ TrimInit /\ [][TrimNext]_trimVars
            /\ WF_trimVars(Iterate \/ DiscardFails \/ End)

-----------------------------------------------------------------------------
(* Safety *)

TrimTypeOK ==
    /\ used \in SUBSET BlockNumbers
    /\ pc \in {"idle", "loop", "done", "failed"}
    /\ start \in 0 .. Count + 1 /\ blk \in 0 .. Count + 1
    /\ requests \subseteq [from : 0 .. Count, to : 0 .. Count]

\* A block in use is never discarded, nor one outside the filesystem.
OnlyFreeDiscarded == pc # "idle" => Discarded \subseteq Free

\* A request covers a whole run: the blocks around it are not free.
MaximalRuns == pc # "idle" =>
    \A r \in requests : r.from <= r.to /\ r.from - 1 \notin Free /\ r.to + 1 \notin Free

\* A trim that succeeds has discarded every free block, the last run included.
CompleteWhenDone == pc = "done" => Free \subseteq Discarded

\* A trim that fails has left no free block below the run that failed.
NoHoleWhenFailed == pc = "failed" =>
    \A b \in Free : b < start => b \in Discarded

-----------------------------------------------------------------------------
(* Liveness *)

\* A trim ends: blk passes count without wrapping around.
TrimEnds == pc = "loop" ~> pc \in {"done", "failed"}

=============================================================================
