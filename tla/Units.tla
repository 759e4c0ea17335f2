-------------------------------- MODULE Units --------------------------------
(***************************************************************************)
(* The units and dimensions of marnav::units (units.hpp, dimension.hpp)    *)
(* and the arithmetic of their values.  A value is a sum of products of    *)
(* symbols: the numbers the program is given and the literals of the       *)
(* source, each with its power.  So a conversion is exact, and what one    *)
(* conversion multiplies by another must divide by; what is left out is    *)
(* how precise a literal is, and the rounding of a double.                 *)
(***************************************************************************)
EXTENDS Integers, Sequences, SequencesExt, TLC

\* A product is a function from its symbols to their powers, none of them zero,
\* a value a function from its products to their factors, none of them zero.
NonZero(f) == [x \in {y \in DOMAIN f : f[y] # 0} |-> f[x]]
At(f, x) == IF x \in DOMAIN f THEN f[x] ELSE 0
Sum(f, g) == NonZero([x \in DOMAIN f \cup DOMAIN g |-> At(f, x) + At(g, x)])

Power(symbol, n) == [p \in {[s \in {symbol} |-> n]} |-> 1]
Symbol(symbol) == Power(symbol, 1)
One == [p \in {<<>>} |-> 1]

Minus(v) == [p \in DOMAIN v |-> -v[p]]
Product(v, w) ==
    LET pairs == (DOMAIN v) \X (DOMAIN w)
        of(p) == {q \in pairs : Sum(q[1], q[2]) = p}
    IN  NonZero([p \in {Sum(q[1], q[2]) : q \in pairs} |->
                    MapThenSumSet(LAMBDA q : v[q[1]] * w[q[2]], of(p))])

\* only what is one product can be divided by
Divisor(v) == \E p \in DOMAIN v : DOMAIN v = {p} /\ v[p] = 1
Reciprocal(v) == [p \in {[s \in DOMAIN q |-> -q[s]] : q \in DOMAIN v} |-> 1]
Over(v, w) == Product(v, Reciprocal(w))

-----------------------------------------------------------------------------
\* Powers of length, mass, time, temperature and current; the amount of substance
\* and the luminous intensity are zero in every dimension that has a name.
Dimension ==
    [length |-> <<1, 0, 0, 0, 0>>, area |-> <<2, 0, 0, 0, 0>>,
     volume |-> <<3, 0, 0, 0, 0>>, mass |-> <<0, 1, 0, 0, 0>>,
     temperature |-> <<0, 0, 0, 1, 0>>, time |-> <<0, 0, 1, 0, 0>>,
     velocity |-> <<1, 0, -1, 0, 0>>, pressure |-> <<-1, 1, -2, 0, 0>>,
     frequency |-> <<0, 0, -1, 0, 0>>, energy |-> <<2, 1, -2, 0, 0>>,
     power |-> <<2, 1, -3, 0, 0>>, force |-> <<1, 1, -2, 0, 0>>,
     magnetic_flux |-> <<2, 1, -2, 0, -1>>,
     magnetic_flux_density |-> <<0, 1, -2, 0, -1>>,
     inductance |-> <<0, 1, -2, 0, -2>>, capacitance |-> <<-2, -1, 4, 0, 2>>,
     electric_current |-> <<0, 0, 0, 0, 1>>, electric_charge |-> <<0, 0, 1, 0, 1>>,
     voltage |-> <<2, 1, -3, 0, -1>>,
     electrical_conductance |-> <<-2, -1, 3, 0, 2>>,
     electrical_resistance |-> <<2, 1, -3, 0, -2>>]

dim_result_add(d, e) == [i \in 1..5 |-> d[i] + e[i]]
dim_result_sub(d, e) == [i \in 1..5 |-> d[i] - e[i]]

\* A unit says how its numbers become those of the base unit and come back, steps
\* of one operation and one literal each, and has a ratio (std::kilo, std::milli).
Row(dim, to, from) ==
    [dim |-> Dimension[dim], to |-> to, from |-> from, ratio |-> One]
Base(dim) == Row(dim, <<>>, <<>>)
Multiple(dim, l) == Row(dim, <<<<"times", l>>>>, <<<<"over", l>>>>)
Fraction(dim, l) == Row(dim, <<<<"over", l>>>>, <<<<"times", l>>>>)

LengthUnits ==
    [meters |-> Base("length"), feet |-> Multiple("length", "0.3048"),
     inches |-> Multiple("length", "0.0254"), yards |-> Multiple("length", "0.9144"),
     imperial_miles |-> Multiple("length", "1609.34"),
     nautical_miles |-> Multiple("length", "1852"),
     fathoms |-> Multiple("length", "1.8288"),
     kilometers |-> [Base("length") EXCEPT !.ratio = Symbol("1000")],
     millimeters |-> [Base("length") EXCEPT !.ratio = Power("1000", -1)]]

AreaUnits ==
    [squaremeters |-> Base("area"), acres |-> Multiple("area", "4046.86")]

VolumeUnits ==
    [qubicmeters |-> Base("volume"), liters |-> Fraction("volume", "1000"),
     gallons_uk |-> Multiple("volume", "0.00454609"),
     quarts_uk |-> Multiple("volume", "0.0011365225"),
     pints_uk |-> Multiple("volume", "0.000568261"),
     cups_uk |-> Multiple("volume", "0.000284131"),
     gallons_liquid_us |-> Multiple("volume", "0.00378541"),
     quarts_liquid_us |-> Multiple("volume", "0.000946352946"),
     pints_liquid_us |-> Multiple("volume", "0.000473176"),
     cups_liquid_us |-> Multiple("volume", "0.00024"),
     gallons_dry_us |-> Multiple("volume", "0.004404883771"),
     quarts_dry_us |-> Multiple("volume", "0.001101220942715"),
     pints_dry_us |-> Multiple("volume", "0.000550610471")]

VelocityUnits ==
    [meters_per_second |-> Base("velocity"), knots |-> Fraction("velocity", "1.94384"),
     kilometers_per_hour |-> Fraction("velocity", "3.6"),
     miles_per_hour |-> Fraction("velocity", "2.23694")]

\* 5/9 is the inverse of 1.8, 0.8 the one of 1.25
TemperatureUnits ==
    [kelvin |-> Base("temperature"),
     celsius |-> Row("temperature", <<<<"plus", "273.15">>>>, <<<<"minus", "273.15">>>>),
     fahrenheit |-> Row("temperature", <<<<"plus", "459.67">>, <<"over", "1.8">>>>,
                                       <<<<"times", "1.8">>, <<"minus", "459.67">>>>),
     rankine |-> Fraction("temperature", "1.8"),
     reaumur |-> Row("temperature", <<<<"times", "1.25">>, <<"plus", "273.15">>>>,
                                    <<<<"minus", "273.15">>, <<"over", "1.25">>>>)]

PressureUnits ==
    [bar |-> Base("pressure"), pascal |-> Fraction("pressure", "100000"),
     psi |-> Fraction("pressure", "14.503773773"),
     torr |-> Fraction("pressure", "750.061682704"),
     atm |-> Fraction("pressure", "0.986923")]

MassUnits ==
    [kilograms |-> Base("mass"), pounds |-> Multiple("mass", "0.453592333346"),
     ounces |-> Multiple("mass", "0.0283495"),
     troy_ounces |-> Multiple("mass", "0.0311034768"),
     stones |-> Multiple("mass", "6.35029")]

\* the dimensions of tesla and weber are the wrong way round in the source
OtherUnits ==
    [tesla |-> Base("magnetic_flux"), weber |-> Base("magnetic_flux_density"),
     hertz |-> Base("frequency"), newton |-> Base("force"),
     joule |-> Base("energy"), watt |-> Base("power"),
     ampere |-> Base("electric_current"), volt |-> Base("voltage"),
     coulomb |-> Base("electric_charge"), farad |-> Base("capacitance"),
     ohm |-> Base("electrical_resistance"), siemens |-> Base("electrical_conductance"),
     henry |-> Base("inductance"), seconds |-> Base("time")]

AllUnits ==
    LengthUnits @@ AreaUnits @@ VolumeUnits @@ VelocityUnits @@ TemperatureUnits
      @@ PressureUnits @@ MassUnits @@ OtherUnits

-----------------------------------------------------------------------------
Step(v, s) ==
    CASE s[1] = "times" -> Product(v, Symbol(s[2]))
      [] s[1] = "over" -> Over(v, Symbol(s[2]))
      [] s[1] = "plus" -> Sum(v, Symbol(s[2]))
      [] s[1] = "minus" -> Sum(v, Minus(Symbol(s[2])))

to_base(u, v) == FoldLeft(Step, v, AllUnits[u].to)
from_base(u, v) == FoldLeft(Step, v, AllUnits[u].from)
scale(ratio, v) == Product(v, ratio)

\* of a unit to the quantity, of a quantity to a unit, of a unit to another
ToQuantity(u, v) == scale(AllUnits[u].ratio, to_base(u, v))

\* Mutant of get: the ratio is multiplied by once more.
getScaled(u, v) == scale(AllUnits[u].ratio, from_base(u, v))

get(u, v) == scale(Reciprocal(AllUnits[u].ratio), from_base(u, v))
Convert(u, w, v) ==
    scale(Reciprocal(AllUnits[w].ratio),
          from_base(w, scale(AllUnits[u].ratio, to_base(u, v))))
=============================================================================
