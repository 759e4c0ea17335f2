------------------------------ MODULE BitBlocks -----------------------------
(***************************************************************************)
(* Where the blocks of a bitset begin and end.  Bit p of the set is in     *)
(* block p \div BITS.                                                      *)
(***************************************************************************)
EXTENDS Integers

CONSTANT BITS  \* bits_per_block

ASSUME BitsAssumption == BITS \in Nat \ {0}

BlockStart(p) == (p \div BITS) * BITS
BlockEnd(p) == BlockStart(p) + BITS         \* for p inside a block
Up(p) == BlockStart(p + BITS - 1)           \* end of the blocks p bits need

\* Mutant of WrittenEnd: a value is written to the end of its last block, even
\* if that is its first one.
WrittenEndWhole(ofs, bits) == Up(ofs + bits)

\* Where writing a value of some bits at an offset ends: the last fraction of a
\* value that does not fit its first block is written as a whole block.
WrittenEnd(ofs, bits) ==
  IF ofs + bits <= BlockEnd(ofs) THEN ofs + bits ELSE Up(ofs + bits)
=============================================================================
