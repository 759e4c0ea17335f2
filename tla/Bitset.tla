------------------------------- MODULE Bitset -------------------------------
(***************************************************************************)
(* utils::bitset: bits in a vector of blocks, the most significant bit of  *)
(* a block first.  data is that vector, written out bit by bit: bit p of   *)
(* the set is data[p + 1], in block p \div BITS.  Blocks are narrower than *)
(* int, as uint8_t and uint16_t are.                                       *)
(*                                                                         *)
(* A call is a record: op, and the arguments.  A value v is the sequence   *)
(* of the bits of its (unsigned) type.  An index beyond the size makes the *)
(* call throw, which changes nothing.                                      *)
(***************************************************************************)
EXTENDS BitBlocks, FiniteSets, SequencesExt

CONSTANTS
  Calls,       \* calls that may be made
  MaxCapacity  \* bound of the check: bits in the vector

VARIABLES
  pos,     \* pos_, the number of bits in the set
  data,    \* data_
  inside,  \* no call has reached outside data_ yet; nothing is known after one has
  call,    \* the last call
  read     \* what it has returned

vars == <<pos, data, inside, call, read>>

S == INSTANCE BitString WITH string <- SubSeq(data, 1, pos)

\* The calls and their arguments.
IsCall(c) ==
  CASE c.op \in {"append", "set"} ->
         /\ c.v \in Seq(S!Bit) /\ c.bits \in 1..Len(c.v)
         /\ c.op = "set" => c.ofs \in Nat
    [] c.op \in {"append_set", "set_set", "|=", "&=", "^="} ->
         c.other \in Seq(S!Bit) /\ (c.op = "set_set" => c.ofs \in Nat)
    [] c.op \in {"set_bit", "flip"} -> c.index \in Nat /\ (c.op = "set_bit" => c.v \in S!Bit)
    [] c.op \in {"range", "count"} -> c.first \in Nat /\ c.last \in Nat
    [] c.op = "get" -> c.ofs \in Nat /\ c.bits \in Nat \ {0}
    [] c.op \in {"shl", "shr"} -> c.bits \in Nat
    [] c.op = "reserve" -> c.blocks \in Nat
    [] OTHER -> c.op \in {"reset", "clear", "++", "--"}

ASSUME CallsAssumption == \A c \in Calls : IsCall(c)

Larger(x, y) == IF x > y THEN x ELSE y
Smaller(x, y) == IF x > y THEN y ELSE x

\* extend() by n bits, of a set of p bits.
Extended(d, p, n) == d \o S!Zeros(Larger(Up(p + n) - Len(d), 0))

\* append(v, bits).  The incomplete block goes first; what v has above the bits
\* to append is not masked and is or-ed into the bits before.
Appended(d, p, v, bits) ==
  LET ext == Extended(d, p, bits)
      n == bits % BITS
      from == IF n = 0 THEN p ELSE Larger(BlockStart(p), p + n - BITS)
      Digit(q) == LET i == Len(v) - (p + bits - 1 - q) IN IF i >= 1 THEN v[i] ELSE 0
  IN [i \in DOMAIN ext |->
        IF i - 1 \in from..(p + bits - 1) THEN S!OrBit(ext[i], Digit(i - 1)) ELSE ext[i]]

\* get_block: n bits from ofs.  Of a part in the next block mask1 drops too much.
GetBlock(d, ofs, n) ==
  LET u == BITS - (ofs % BITS)
  IN [i \in 1..n |-> IF i > u /\ (i - u) + (n - u) > BITS THEN 0 ELSE d[ofs + i]]

\* set_block(v, ofs, n), v having n bits.  In the first of two blocks mask0
\* keeps the bits from weight n - u upwards.
SetBlock(d, ofs, v, n) ==
  LET u == BITS - (ofs % BITS)
      Weight(q) == BITS - 1 - (q % BITS)
      Old(q) == IF Weight(q) >= n - u THEN d[q + 1] ELSE 0
      New(q) == IF Weight(q) < u THEN v[u - Weight(q)] ELSE 0
  IN IF u >= n
       THEN S!Overwritten(d, ofs, v)
       ELSE [i \in DOMAIN d |->
               IF i - 1 \in BlockStart(ofs)..(BlockEnd(ofs) - 1)
                 THEN S!OrBit(Old(i - 1), New(i - 1))
               ELSE IF i - 1 \in BlockEnd(ofs)..(ofs + n - 1) THEN v[i - ofs]
               ELSE d[i]]

-----------------------------------------------------------------------------
\* Canonical representation of a string: what appending its bits gives.
CanonicalData(s) == s \o S!Zeros(Up(Len(s)) - Len(s))

Init ==
  /\ pos = 0
  /\ data = <<>>
  /\ inside = TRUE
  /\ call = [op |-> "none"]
  /\ read = <<>>

Becomes(c, d, p) ==
  /\ Len(d) <= MaxCapacity
  /\ data' = d
  /\ pos' = p
  /\ call' = c
  /\ read' = <<>>
  /\ UNCHANGED inside

\* The call reads or writes outside data_.
Outside ==
  /\ inside' = FALSE
  /\ UNCHANGED <<pos, data, call, read>>

Returns(c, result) ==
  /\ call' = c
  /\ read' = result
  /\ UNCHANGED <<pos, data, inside>>

AppendValue(c) ==
  /\ c.op = "append"
  /\ Becomes(c, Appended(data, pos, c.v, c.bits), pos + c.bits)

\* append(bitset) of a set of the bits t, bit by bit
AppendedSet(d, p, t) ==
  LET Bit(e, i) == Appended(e, p + i - 1, <<t[i]>>, 1)
  IN FoldLeft(Bit, d, [i \in DOMAIN t |-> i])

AppendSet(c) ==
  /\ c.op = "append_set"
  /\ Becomes(c, AppendedSet(data, pos, c.other), pos + Len(c.other))

\* set_impl, of a set x: the last fraction of a value that does not fit its first
\* block is written as a whole block.
SetImpl(x, ofs, v) ==
  LET end == ofs + Len(v)
      written == WrittenEnd(ofs, Len(v))
      ext == IF end > Len(x.data) THEN Extended(x.data, x.pos, end - Len(x.data)) ELSE x.data
  IN [data |-> S!Overwritten(ext, ofs, v \o S!Zeros(written - end)),
      pos |-> Larger(x.pos, written),
      inside |-> x.inside /\ written <= Len(ext)]

\* set(bitset, ofs), bit by bit
SetSetImpl(x, ofs, t) ==
  LET Bit(y, i) == SetImpl(y, ofs + i - 1, <<t[i]>>)
  IN FoldLeft(Bit, x, [i \in DOMAIN t |-> i])

TheSet == [data |-> data, pos |-> pos, inside |-> TRUE]
BecomesIfInside(c, x) == IF x.inside THEN Becomes(c, x.data, x.pos) ELSE Outside

\* set(v, ofs, bits)
SetValue(c) ==
  /\ c.op = "set"
  /\ BecomesIfInside(c, SetImpl(TheSet, c.ofs, S!Low(c.v, c.bits)))

SetSet(c) ==
  /\ c.op = "set_set"
  /\ BecomesIfInside(c, SetSetImpl(TheSet, c.ofs, c.other))

SetBit(c) ==
  /\ c.op = "set_bit"
  /\ Becomes(c, IF c.index < pos THEN [data EXCEPT ![c.index + 1] = c.v] ELSE data, pos)

\* set(!get_bit(index), index, 1)
Flip(c) ==
  /\ c.op = "flip"
  /\ Becomes(c, IF c.index < pos THEN [data EXCEPT ![c.index + 1] = 1 - @] ELSE data, pos)

Reset(c) ==
  /\ c.op = "reset"
  /\ Becomes(c, S!Zeros(Len(data)), pos)

\* Mutant of Clear: the size stays.
ClearKeepsSize(c) ==
  /\ c.op = "clear"
  /\ Becomes(c, <<>>, pos)

Clear(c) ==
  /\ c.op = "clear"
  /\ Becomes(c, <<>>, 0)

Reserve(c) ==
  /\ c.op = "reserve"
  /\ Becomes(c, Extended(data, pos, c.blocks * BITS), pos)

\* Positions of block b that are in the set: all of a whole block, the left part
\* of the last one.
BlockBits(b) == (b * BITS)..(Smaller((b + 1) * BITS, pos) - 1)
BlocksInUse == 0..((pos + BITS - 1) \div BITS - 1)

\* Counting carries from block to block, the last one first: block b is the
\* first that is not full; there the last bit that is not changes, and those
\* behind it, as the blocks behind it have.
Counted(full) ==
  LET Stops(b) == \E q \in BlockBits(b) : data[q + 1] # full
      Carried(b) == \A a \in BlocksInUse : a > b => ~Stops(a)
      Reached(b, q) == \A r \in BlockBits(b) : r > q => data[r + 1] = full
  IN [i \in DOMAIN data |->
        LET b == (i - 1) \div BITS IN
        IF i <= pos /\ Carried(b) /\ Reached(b, i - 1) THEN 1 - data[i] ELSE data[i]]

Increment(c) ==
  /\ c.op = "++"
  /\ Becomes(c, Counted(1), pos)

Decrement(c) ==
  /\ c.op = "--"
  /\ Becomes(c, Counted(0), pos)

\* Cutting n bits into chunks of a block, the last one maybe smaller: how many
\* there are, where the i-th begins, and its size.
Chunks(n) == (n + BITS - 1) \div BITS
Begin(i) == (i - 1) * BITS
Chunk(n, i) == Smaller(n - Begin(i), BITS)

\* Assigned what the constructor makes of a range of the set itself: whole blocks
\* of it, then the rest is appended.
FromRange(c) ==
  /\ c.op = "range"
  /\ LET first == Smaller(c.first, pos)
         n == Larger(Smaller(c.last, pos) - first, 0)
         rest == n % BITS
         whole == FlattenSeq([i \in 1..(n \div BITS) |-> GetBlock(data, first + Begin(i), BITS)])
     IN Becomes(c, IF rest = 0 THEN whole
                   ELSE Appended(whole, n - rest, GetBlock(data, first + n - rest, rest), rest),
                n)

\* get(ofs, bits): the rest of the first block, whole blocks, a part of the last.
Get(c) ==
  /\ c.op = "get"
  /\ LET first == Smaller(BITS - (c.ofs % BITS), c.bits)
         Block(i) == GetBlock(data, c.ofs + first + Begin(i), Chunk(c.bits - first, i))
     IN Returns(c, IF c.ofs + c.bits > pos THEN <<>>
                   ELSE FlattenSeq(Cons(GetBlock(data, c.ofs, first),
                                        [i \in 1..Chunks(c.bits - first) |-> Block(i)])))

\* count(first, last), which any, all and none of the range follow from
Count(c) ==
  /\ c.op = "count"
  /\ Returns(c, <<Cardinality({i \in (c.first + 1)..Smaller(c.last, pos) : data[i] = 1})>>)

\* Bits are shifted by moves of at most a block: copy_block(from, to, bits), or
\* set_block of zeros, from nowhere.
Nowhere == -1
Moved(d, m) ==
  SetBlock(d, m.to, IF m.from = Nowhere THEN S!Zeros(m.bits) ELSE GetBlock(d, m.from, m.bits), m.bits)

\* The moves of a loop over n bits.
Moves(n, From(_), To(_)) ==
  [i \in 1..Chunks(n) |-> [from |-> From(i), to |-> To(i), bits |-> Chunk(n, i)]]

\* shl: blocks are copied from the left, then the rest is overwritten with zeros.
MovesLeft(p, n) ==
  LET kept == p - n
  IN Moves(kept, LAMBDA i : n + Begin(i), Begin)
       \o Moves(n, LAMBDA i : Nowhere, LAMBDA i : kept + Begin(i))

\* shr: the last block or its used part first, from r to w; then, from right to
\* left, the blocks before it, and zeros.
LastUsed(p) == IF p % BITS # 0 THEN p % BITS ELSE BITS
MovesRight(p, n) ==
  LET single == LastUsed(p) = p
      first == IF single THEN p - n ELSE LastUsed(p)
      r == p - first - n
      w == r + n
      Left(k, i) == k - Begin(i) - Chunk(k, i)
  IN <<[from |-> r, to |-> w, bits |-> first]>>
       \o Moves(r, LAMBDA i : Left(r, i), LAMBDA i : Left(r, i) + n)
       \o Moves(n, LAMBDA i : Nowhere, LAMBDA i : Left(n, i))

Shl(c) ==
  /\ c.op = "shl"
  /\ Becomes(c, IF c.bits >= pos THEN S!Zeros(Len(data))
                ELSE FoldLeft(Moved, data, MovesLeft(pos, c.bits)), pos)

\* Unless there is one block only, the offset it copies from first may be below
\* zero, that is, wrapped around.
Shr(c) ==
  /\ c.op = "shr"
  /\ IF c.bits >= pos THEN Becomes(c, S!Zeros(Len(data)), pos)
     ELSE IF LastUsed(pos) # pos /\ LastUsed(pos) + c.bits > pos THEN Outside
     ELSE Becomes(c, FoldLeft(Moved, data, MovesRight(pos, c.bits)), pos)

\* operator|= and operator^=: the set grows to the size of the other one, then
\* every block is combined with the block of the other one.
Grow(c, Op(_, _)) ==
  LET n == Len(c.other)
      ext == IF pos < n THEN Extended(data, pos, n - pos) ELSE data
      theirs == CanonicalData(c.other)
  IN IF Len(ext) > Len(theirs)
       THEN Outside
       ELSE Becomes(c, [i \in DOMAIN ext |-> Op(ext[i], theirs[i])], Larger(pos, n))

Or(c) == c.op = "|=" /\ Grow(c, S!OrBit)
Xor(c) == c.op = "^=" /\ Grow(c, S!XorBit)

\* Mutant of And: the bits beyond the other's size are not reset.
AndKeepsRest(c) ==
  /\ c.op = "&="
  /\ LET n == Len(c.other)
         theirs == CanonicalData(c.other)
         wide == theirs \o [i \in 1..Larger(Len(data) - Len(theirs), 0) |-> 1]
     IN Becomes(c, [i \in DOMAIN data |-> S!AndBit(data[i], wide[i])], Smaller(pos, n))

\* operator&=: the bits beyond the other's size are reset, then every block is
\* combined.
And(c) ==
  /\ c.op = "&="
  /\ LET n == Len(c.other)
         cut == [i \in DOMAIN data |-> IF i \in (n + 1)..pos THEN 0 ELSE data[i]]
         theirs == CanonicalData(c.other)
     IN IF Len(cut) > Len(theirs)
          THEN Outside
          ELSE Becomes(c, [i \in DOMAIN cut |-> S!AndBit(cut[i], theirs[i])], Smaller(pos, n))

Next ==
  /\ inside
  /\ \E c \in Calls :
       \/ AppendValue(c) \/ AppendSet(c) \/ SetValue(c) \/ SetSet(c) \/ SetBit(c) \/ Flip(c)
       \/ Reset(c) \/ Clear(c) \/ Reserve(c) \/ FromRange(c) \/ Get(c) \/ Count(c)
       \/ Increment(c) \/ Decrement(c) \/ Shl(c) \/ Shr(c) \/ Or(c) \/ Xor(c) \/ And(c)

Spec == Init /\ [][Next]_vars

-----------------------------------------------------------------------------
\* Type correctness; the vector holds whole blocks, enough for the bits.
TypeOK ==
  /\ data \in Seq(S!Bit)
  /\ Len(data) % BITS = 0
  /\ pos \in 0..Len(data)
  /\ inside \in BOOLEAN

\* The unused part of the vector is zero: append and the logic operators or
\* into it without clearing it first.
TailZero == \A i \in (pos + 1)..Len(data) : data[i] = 0

\* As long as no call reaches outside the vector, every call does to the bits
\* what its documentation says, and nothing to any other bit.
ImplementsString == S!Spec
=============================================================================
