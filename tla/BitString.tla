----------------------------- MODULE BitString -----------------------------
(***************************************************************************)
(* What a bitset promises: it is a string of bits, written from left to    *)
(* right, the leftmost one being the most significant, and every call has  *)
(* the effect its documentation names.  A call that throws has none.       *)
(***************************************************************************)
EXTENDS Integers, SequencesExt

CONSTANT Calls  \* calls that may be made, see Bitset

VARIABLES
  string,  \* the bits
  call,    \* the last call
  read     \* what it has returned: bits, or a number

Bit == {0, 1}
Zeros(n) == [i \in 1..n |-> 0]
Number(s) == FoldLeft(LAMBDA sum, b : 2 * sum + b, 0, s)
Digits(x, n) == [i \in 1..n |-> (x \div 2^(n - i)) % 2]

\* The n rightmost bits of v.
Low(v, n) == SubSeq(v, Len(v) - n + 1, Len(v))

\* v written over s behind the first ofs bits.
Overwritten(s, ofs, v) ==
  LET m == Len(s)
      n == ofs + Len(v)
  IN [i \in 1..(IF m > n THEN m ELSE n) |->
        IF i \in (ofs + 1)..n THEN v[i - ofs] ELSE IF i <= m THEN s[i] ELSE 0]

\* Bit by bit, the strings aligned at the left, to the length n.
Combined(s, t, n, Op(_, _)) ==
  LET Digit(u, i) == IF i \in DOMAIN u THEN u[i] ELSE 0
  IN [i \in 1..n |-> Op(Digit(s, i), Digit(t, i))]

Longer(s, t) == IF Len(s) > Len(t) THEN Len(s) ELSE Len(t)
Shorter(s, t) == IF Len(s) > Len(t) THEN Len(t) ELSE Len(s)
OrBit(x, y) == IF x = 1 \/ y = 1 THEN 1 ELSE 0
AndBit(x, y) == x * y
XorBit(x, y) == (x + y) % 2

\* Iterators stop at the end.
Slice(s, first, last) == SubSeq(s, first + 1, IF last > Len(s) THEN Len(s) ELSE last)

Ones(s) == Cardinality({i \in DOMAIN s : s[i] = 1})

Effect(s, c) ==
  CASE c.op = "append"  -> s \o Low(c.v, c.bits)
    [] c.op = "set"     -> Overwritten(s, c.ofs, Low(c.v, c.bits))
    [] c.op = "set_bit" -> IF c.index < Len(s) THEN [s EXCEPT ![c.index + 1] = c.v] ELSE s
    [] c.op = "flip"    -> IF c.index < Len(s) THEN [s EXCEPT ![c.index + 1] = 1 - @] ELSE s
    [] c.op = "reset"   -> Zeros(Len(s))
    [] c.op = "clear"   -> <<>>
    [] c.op \in {"reserve", "get", "count"} -> s
    [] c.op = "append_set" -> s \o c.other
    [] c.op = "set_set"    -> IF c.other = <<>> THEN s ELSE Overwritten(s, c.ofs, c.other)
    [] c.op = "range"      -> Slice(s, c.first, c.last)
    [] c.op = "++"      -> Digits((Number(s) + 1) % 2^Len(s), Len(s))
    [] c.op = "--"      -> Digits((Number(s) - 1) % 2^Len(s), Len(s))
    [] c.op = "shl"     ->
         [i \in 1..Len(s) |-> IF i + c.bits <= Len(s) THEN s[i + c.bits] ELSE 0]
    [] c.op = "shr"     -> [i \in 1..Len(s) |-> IF i > c.bits THEN s[i - c.bits] ELSE 0]
    [] c.op = "|="      -> Combined(s, c.other, Longer(s, c.other), OrBit)
    [] c.op = "&="      -> Combined(s, c.other, Shorter(s, c.other), AndBit)
    [] c.op = "^="      -> Combined(s, c.other, Longer(s, c.other), XorBit)

Result(s, c) ==
  CASE c.op = "get" /\ c.ofs + c.bits <= Len(s) -> SubSeq(s, c.ofs + 1, c.ofs + c.bits)
    [] c.op = "count" -> <<Ones(Slice(s, c.first, c.last))>>
    [] OTHER -> <<>>

Init == string = <<>> /\ call = [op |-> "none"] /\ read = <<>>

Next ==
  \E c \in Calls : call' = c /\ string' = Effect(string, c) /\ read' = Result(string, c)

Spec == Init /\ [][Next]_<<string, call, read>>
=============================================================================
