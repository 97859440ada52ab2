----------------------------- MODULE DosMemory -----------------------------
(***************************************************************************)
(* The memory blocks of INT 21h in pc_at.c: AH=48h, 49h, 4Ah and 58h, and   *)
(* d2e_pc_at_prepare_dos. There is no chain of blocks, only a cursor from   *)
(* which blocks are handed out, up to the end of memory.                    *)
(***************************************************************************)
EXTENDS Integers

CONSTANTS SegmentLimit, \* 2^16: segments and sizes, in paragraphs
          MemoryEnd     \* dos_memory_end, at most the largest word

ASSUME DosMemoryAssumption ==
  /\ SegmentLimit \in Nat \ {0}
  /\ MemoryEnd \in 0..SegmentLimit - 1

Segment == 0..SegmentLimit - 1

VARIABLES psp,         \* dos_psp_segment
          pspParas,    \* dos_block_paragraphs
          allocation,  \* dos_allocation_cursor
          strategy,    \* dos_allocation_strategy
          blocks       \* blocks handed out since the PSP block was last
                       \* resized, as <<first, past the last>>

dosMemoryVars == <<psp, pspParas, allocation, strategy, blocks>>

DosMemoryTypeOK ==
  /\ psp \in Segment /\ pspParas \in Segment /\ allocation \in Segment
  /\ strategy \in 0..2
  /\ blocks \subseteq (Segment \X Segment)

\* mutant of Available
AvailableOffByOne(segment) == IF segment < MemoryEnd THEN MemoryEnd - segment + 1 ELSE 0

(* What is left behind a segment.                                           *)
Available(segment) == IF segment < MemoryEnd THEN MemoryEnd - segment ELSE 0

(* d2e_pc_at_reset and d2e_pc_at_prepare_dos: the program gets all of the   *)
(* memory behind its PSP, and nothing is left to hand out.                  *)
Prepared(segment) ==
  /\ psp' = segment
  /\ pspParas' = Available(segment)
  /\ allocation' = MemoryEnd
  /\ strategy' = 0 /\ blocks' = {}

DosMemoryInit ==
  /\ psp \in Segment
  /\ pspParas = Available(psp)
  /\ allocation = MemoryEnd
  /\ strategy = 0 /\ blocks = {}

Prepare == \E segment \in Segment : Prepared(segment)

(* AH=48h. A request for nothing, or for too much, gets the size of what    *)
(* is left.                                                                 *)
Allocate ==
  \E requested \in Segment :
    /\ requested # 0 /\ requested <= Available(allocation)
    /\ allocation' = (allocation + requested) % SegmentLimit
    /\ blocks' = blocks \cup {<<allocation, allocation + requested>>}
    /\ UNCHANGED <<psp, pspParas, strategy>>

(* AH=4Ah. Only the block of the PSP can be resized, and what is handed out *)
(* next follows it, over the blocks that a program has.                     *)
Resize ==
  \E requested \in Segment :
    /\ requested # 0 /\ requested <= Available(psp)
    /\ pspParas' = requested
    /\ allocation' = (psp + requested) % SegmentLimit
    /\ blocks' = {}
    /\ UNCHANGED <<psp, strategy>>

(* AH=58h. AH=49h succeeds and changes nothing.                             *)
SetStrategy ==
  /\ strategy' \in 0..2
  /\ UNCHANGED <<psp, pspParas, allocation, blocks>>

DosMemoryNext == Prepare \/ Allocate \/ Resize \/ SetStrategy

DosMemorySpec == DosMemoryInit /\ [][DosMemoryNext]_dosMemoryVars

----------------------------------------------------------------------------
(* What AH=48h hands out between two resizes of the PSP block lies behind   *)
(* that block as it is then, within memory, and does not overlap. A resize  *)
(* gives up the blocks from before it: what is handed out later, and the    *)
(* PSP block itself, may lie over them.                                     *)
BlocksDisjoint ==
  /\ \A b \in blocks : psp + pspParas <= b[1] /\ b[1] < b[2] /\ b[2] <= MemoryEnd
  /\ \A b, c \in blocks : b = c \/ b[2] <= c[1] \/ c[2] <= b[1]
=============================================================================
