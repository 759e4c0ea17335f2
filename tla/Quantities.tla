----------------------------- MODULE Quantities -----------------------------
(***************************************************************************)
(* A program that calculates with units and quantities (basic_unit.hpp,    *)
(* basic_unit_ops.hpp, basic_quantity.hpp, basic_quantity_ops.hpp).  It    *)
(* has a value, a number of some unit or a quantity, and applies one       *)
(* operation after the other to it; what it should mean by then, in base   *)
(* units of the SI, is kept beside it.                                     *)
(***************************************************************************)
EXTENDS Units

CONSTANTS
    Operands,       \* units of the second operand of an operation
    MaxSteps        \* bound on the operations

ASSUME OperandsAssumption == Operands \subseteq DOMAIN AllUnits
ASSUME MaxStepsAssumption == MaxSteps \in Nat

VARIABLES
    q,              \* the value; its unit is NoUnit if it is a quantity
    truth,          \* what it means, or Disputed
    steps           \* counts the operations

NoUnit == "none"
NoValue == [unit |-> NoUnit, dim |-> <<>>, val |-> <<>>]
basic_unit(u, v) == [unit |-> u, dim |-> AllUnits[u].dim, val |-> v]
basic_quantity(d, v) == [unit |-> NoUnit, dim |-> d, val |-> v]
quantity(u, v) == basic_quantity(AllUnits[u].dim, ToQuantity(u, v))

-----------------------------------------------------------------------------
(***************************************************************************)
(* What numbers of a unit mean.  The dimensions are those by which the SI  *)
(* defines its units, not those of the source; the literals are read as    *)
(* the size of a unit or as how many of it make one base unit.             *)
(***************************************************************************)
Physical ==
    LET L == <<1, 0, 0, 0, 0>>  M == <<0, 1, 0, 0, 0>>  T == <<0, 0, 1, 0, 0>>
        K == <<0, 0, 0, 1, 0>>  I == <<0, 0, 0, 0, 1>>
        by(d, e) == [i \in 1..5 |-> d[i] + e[i]]
        per(d, e) == [i \in 1..5 |-> d[i] - e[i]]
        velocity == per(L, T)
        force == by(M, per(velocity, T))
        energy == by(force, L)
        power == per(energy, T)
        voltage == per(power, I)
        flux == by(voltage, T)
        charge == by(I, T)
        of(table, d) == [u \in DOMAIN table |-> d]
    IN  of(LengthUnits, L) @@ of(AreaUnits, by(L, L)) @@ of(VolumeUnits, by(L, by(L, L)))
          @@ of(VelocityUnits, velocity) @@ of(TemperatureUnits, K)
          @@ of(PressureUnits, per(force, by(L, L))) @@ of(MassUnits, M)
          @@ [hertz |-> per(per(L, L), T), newton |-> force, joule |-> energy,
              watt |-> power, ampere |-> I, volt |-> voltage, coulomb |-> charge,
              farad |-> per(charge, voltage), ohm |-> per(voltage, I),
              siemens |-> per(I, voltage), weber |-> flux,
              tesla |-> per(flux, by(L, L)), henry |-> per(flux, I), seconds |-> T]

PerBaseUnit ==
    {"liters", "rankine", "fahrenheit"}
      \cup (DOMAIN VelocityUnits \cup DOMAIN PressureUnits)

Literal(u) == {s[2] : s \in {t \in ToSet(AllUnits[u].to) : t[1] \in {"times", "over"}}}
Size(u) ==
    CASE u = "kilometers" -> Symbol("1000")
      [] u = "millimeters" -> Power("1000", -1)
      [] Literal(u) = {} -> One
      [] OTHER -> Power(CHOOSE l \in Literal(u) : TRUE, IF u \in PerBaseUnit THEN -1 ELSE 1)

\* zero degrees, in kelvin
AtZero(u) ==
    CASE u \in {"celsius", "reaumur"} -> Symbol("273.15")
      [] u = "fahrenheit" -> Over(Symbol("459.67"), Symbol("1.8"))
      [] OTHER -> <<>>

\* the base unit of the pressure is bar, not pascal
BaseSize(d) == IF d = Dimension.pressure THEN Symbol("100000") ELSE One

Means(dim, v) == [dim |-> dim, val |-> v]
MeaningOf(u, v) ==
    Means(Physical[u], Product(BaseSize(Physical[u]), Sum(Product(Size(u), v), AtZero(u))))

\* Operations whose meaning nobody can tell, or on which the source and the SI do
\* not agree: numbers of degrees are added and multiplied as they are, the ratio of
\* a divisor is multiplied by (basic_quantity_ops.hpp:61), tesla and weber have each
\* other's dimension and henry a length too few (dimension.hpp:43), and a product of
\* a pressure, or one that is a pressure, is not in bar.
Disputed == <<>>
Degrees == {"celsius", "fahrenheit", "reaumur"}
Misplaced == {"tesla", "weber", "henry"}
Truth(agreed, dim, v) == IF truth # Disputed /\ agreed THEN Means(dim, v) ELSE Disputed

-----------------------------------------------------------------------------
InitQuantity ==
    /\ q = NoValue
    /\ truth = Disputed
    /\ steps = 0

New(u) ==
    /\ q = NoValue
    /\ q' = basic_unit(u, Symbol("a"))
    /\ truth' = IF u \in Misplaced THEN Disputed ELSE MeaningOf(u, Symbol("a"))
    /\ UNCHANGED steps

Counted ==
    /\ q # NoValue
    /\ steps < MaxSteps
    /\ steps' = steps + 1

IsUnit == q.unit # NoUnit
InDegrees == q.unit \in Degrees
NoPressure(dims) == Dimension.pressure \notin dims

\* the converting constructor of basic_unit
ConvertTo(w) ==
    /\ Counted
    /\ IsUnit
    /\ q.dim = AllUnits[w].dim
    /\ q' = basic_unit(w, Convert(q.unit, w, q.val))
    /\ UNCHANGED truth

\* the one of basic_quantity, and get
ToQuantityOf ==
    /\ Counted
    /\ IsUnit
    /\ q' = quantity(q.unit, q.val)
    /\ UNCHANGED truth

Get(w) ==
    /\ Counted
    /\ ~IsUnit
    /\ q.dim = AllUnits[w].dim
    /\ q' = basic_unit(w, get(w, q.val))
    /\ truth' = IF w \in Misplaced THEN Disputed ELSE truth

\* *= and /= with a number, unary minus
Scaled(factor) ==
    /\ Counted
    /\ q' = [q EXCEPT !.val = Product(@, factor)]
    /\ truth' = Truth(~InDegrees, truth.dim, Product(truth.val, factor))

Scale == Scaled(Symbol("s"))
Shrink == Scaled(Power("s", -1))
Negate == Scaled(Minus(One))

\* + and - of units have the unit of the first
AddUnit(w, sign) ==
    /\ Counted
    /\ IsUnit
    /\ q.dim = AllUnits[w].dim
    /\ LET b == Product(sign, Symbol("b"))
           number == Product(sign, Convert(w, q.unit, Symbol("b")))
       IN  /\ q' = basic_unit(q.unit, Sum(q.val, number))
           /\ truth' = Truth(~InDegrees /\ w \notin Misplaced, truth.dim,
                             Sum(truth.val, Product(sign, MeaningOf(w, Symbol("b")).val)))

AddQuantity(w, sign) ==
    /\ Counted
    /\ ~IsUnit
    /\ q.dim = AllUnits[w].dim
    /\ q' = basic_quantity(q.dim,
               Sum(q.val, Product(sign, ToQuantity(w, Symbol("b")))))
    /\ truth' = Truth(w \notin Misplaced, truth.dim,
                      Sum(truth.val, Product(sign, MeaningOf(w, Symbol("b")).val)))

\* * and / of two units, or of two quantities; of two units, each has its ratio
Multiply(w) ==
    LET dim == dim_result_add(q.dim, AllUnits[w].dim)
        a == IF IsUnit THEN ToQuantity(q.unit, q.val) ELSE q.val
        b == MeaningOf(w, Symbol("b"))
    IN  /\ Counted
        /\ q' = basic_quantity(dim, Product(a, ToQuantity(w, Symbol("b"))))
        /\ truth' = Truth(/\ w \notin Misplaced
                          /\ NoPressure({dim, q.dim, AllUnits[w].dim}),
                          [i \in 1..5 |-> truth.dim[i] + b.dim[i]],
                          Product(truth.val, b.val))

DivideUnits(w) ==
    LET b == to_base(w, Symbol("b"))
    IN  Product(Over(Product(to_base(q.unit, q.val), AllUnits[q.unit].ratio), b),
                AllUnits[w].ratio)

Divide(w) ==
    LET dim == dim_result_sub(q.dim, AllUnits[w].dim)
        b == MeaningOf(w, Symbol("b"))
    IN  /\ Counted
        /\ Divisor(ToQuantity(w, Symbol("b")))
        /\ q' = basic_quantity(dim,
                   IF IsUnit THEN DivideUnits(w)
                   ELSE Over(q.val, ToQuantity(w, Symbol("b"))))
        /\ truth' = Truth(/\ w \notin Misplaced
                          /\ NoPressure({dim, q.dim, AllUnits[w].dim})
                          /\ IsUnit => AllUnits[w].ratio = One,
                          [i \in 1..5 |-> truth.dim[i] - b.dim[i]],
                          Over(truth.val, b.val))

Operate ==
    \/ \E u \in DOMAIN AllUnits : New(u)
    \/ \E w \in DOMAIN AllUnits : ConvertTo(w) \/ Get(w)
    \/ ToQuantityOf
    \/ Scale \/ Shrink \/ Negate
    \/ \E w \in Operands, sign \in {One, Minus(One)} : AddUnit(w, sign) \/ AddQuantity(w, sign)
    \/ \E w \in Operands : Multiply(w) \/ Divide(w)

-----------------------------------------------------------------------------
(***************************************************************************)
(* Whatever a program does to a value, in whatever units, the number it    *)
(* has means what it should mean, and has the dimension it should have:    *)
(* conversions there and back, sums over different units and products of   *)
(* them lose and double no factor.                                         *)
(***************************************************************************)
Meaning == IF IsUnit THEN MeaningOf(q.unit, q.val)
           ELSE Means(q.dim, Product(BaseSize(q.dim), q.val))

QuantityMeans == truth # Disputed => Meaning = truth
=============================================================================
