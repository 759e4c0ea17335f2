------------------------------ MODULE MCBitset ------------------------------
(***************************************************************************)
(* Instance of Bitset for TLC: the calls a run makes.  Values have WIDTH   *)
(* bits, offsets and sizes go up to MaxBits.                               *)
(***************************************************************************)
EXTENDS Bitset

CONSTANTS WIDTH, MaxBits

Values(bits) == {v \in [1..WIDTH -> {0, 1}] : \A i \in 1..(WIDTH - bits) : v[i] = 0}
Strings(n) == UNION {[1..m -> {0, 1}] : m \in 0..n}

Appends == UNION {[op : {"append"}, bits : {n}, v : Values(n)] : n \in 1..WIDTH}
Sets(Allowed(_, _)) ==
  UNION {[op : {"set"}, ofs : {o}, bits : {n}, v : Values(n)] :
           <<o, n>> \in {x \in (0..(MaxBits - 1)) \X (1..WIDTH) :
                           x[1] + x[2] <= MaxBits /\ Allowed(x[1], x[2])}}
Singles ==
  [op : {"set_bit"}, index : 0..MaxBits, v : {0, 1}] \cup [op : {"flip"}, index : 0..MaxBits]
Ranges == {x \in (0..MaxBits) \X (0..MaxBits) : x[1] < x[2]}
Plain == [op : {"reset", "clear", "++", "--"}] \cup [op : {"reserve"}, blocks : {1}]
Logic == [op : {"|=", "&=", "^="}, other : Strings(MaxBits - 1)]
Shifts == [op : {"shl", "shr"}, bits : {0, MaxCapacity}]
Copies ==
  [op : {"append_set"}, other : Strings(2)] \cup [op : {"set_set"}, ofs : 0..2, other : Strings(2)]
    \cup {[op |-> "range", first |-> a, last |-> b] :
             <<a, b>> \in {x \in Ranges : x[1] % BITS = 0}}
Reads ==
  {[op |-> "count", first |-> a, last |-> b] : <<a, b>> \in Ranges}
    \cup [op : {"get"}, ofs : 0..(MaxBits - 1), bits : 2..WIDTH]

\* A value that stays in one block or ends with one.
Fits(ofs, bits) == ofs + bits <= BlockEnd(ofs) \/ (ofs + bits) % BITS = 0

\* The calls whose documentation the code meets, with blocks of any size.  Of the
\* shifts these are those by nothing and by the whole set, of the copies of a
\* range those that begin with a block: others move bits across the blocks, where
\* set_block and get_block mask what they should not.
SoundCalls ==
  Copies \cup Reads \cup Appends \cup Sets(Fits) \cup Singles \cup Plain \cup Shifts \cup Logic

=============================================================================
