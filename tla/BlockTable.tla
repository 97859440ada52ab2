----------------------------- MODULE BlockTable -----------------------------
(***************************************************************************)
(* native_runtime.c: find_block, which the run loop asks for the code of an *)
(* address, and what it should find.                                        *)
(***************************************************************************)
EXTENDS Integers, Sequences

(* find_block, in a table of blocks ordered by their addresses: the place   *)
(* where the binary search ends, of <<low, high>>.                          *)
NoBlock == 0

\* mutant of FindBlock
FindBlockBehind(blocks, ip) ==
  LET Search[r \in (0..Len(blocks)) \X (0..Len(blocks))] ==
        LET middle == r[1] + (r[2] - r[1]) \div 2
        IN  IF r[1] >= r[2] THEN r[1]
            ELSE IF blocks[middle + 1] <= ip THEN Search[<<middle + 1, r[2]>>]
            ELSE Search[<<r[1], middle>>]
      low == Search[<<0, Len(blocks)>>]
  IN  IF low < Len(blocks) /\ blocks[low + 1] = ip THEN low + 1 ELSE NoBlock

FindBlock(blocks, ip) ==
  LET Search[r \in (0..Len(blocks)) \X (0..Len(blocks))] ==
        LET middle == r[1] + (r[2] - r[1]) \div 2
        IN  IF r[1] >= r[2] THEN r[1]
            ELSE IF blocks[middle + 1] < ip THEN Search[<<middle + 1, r[2]>>]
            ELSE Search[<<r[1], middle>>]
      low == Search[<<0, Len(blocks)>>]
  IN  IF low < Len(blocks) /\ blocks[low + 1] = ip THEN low + 1 ELSE NoBlock

(* What is found is there, and nothing is only where nothing is.            *)
BlockFound(blocks, ip, n) ==
  IF n = NoBlock THEN \A k \in DOMAIN blocks : blocks[k] # ip ELSE blocks[n] = ip
=============================================================================
