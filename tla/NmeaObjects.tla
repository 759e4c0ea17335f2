----------------------------- MODULE NmeaObjects -----------------------------
(***************************************************************************)
(* The life of a sentence object: it is constructed empty, its setters are *)
(* called, append_data_to writes its fields, and a parsing constructor     *)
(* makes an object of the fields of a line, its own or one another program *)
(* has sent, or throws.  One state variable says which class it is of; the *)
(* layout of the class says all the rest.  A tag block lives the same life *)
(* (tag_block.cpp): its setters, to_string and its constructor.            *)
(***************************************************************************)
EXTENDS NmeaSentences, NmeaTagBlock

CONSTANTS
    MaxSets,        \* bound on the calls of setters
    Reach           \* bound on the distance of two odd fields in a line

ASSUME BoundsAssumption == MaxSets \in Nat /\ Reach \in Nat

\* the provers are not told that a literal is a string
ASSUME TextsAssumption ==
    /\ {"", "?", "*", "0", "1", "a", "b", "s", "x"} \subseteq STRING
    /\ \A k \in 1..7 : Keys[k] \in STRING /\ DOMAIN Kept(k) \subseteq STRING

\* no line; only one of XDR may have no fields
None == <<>>

VARIABLES
    id,             \* the class
    obj,            \* the values of the members, by the fields
    line,           \* the fields of the line to be read, or None
    from,           \* the object that has written the line, or None
    phase,          \* "object", "line" or "refused"
    sets            \* counts the calls of setters

vars == <<id, obj, line, from, phase, sets>>

\* a tag block is such an object too, but its fields are not at fixed places
IsBlock == id = "TAG"
layout == IF IsBlock THEN TagBlock ELSE Layouts[id]
Field(i) == layout.fields[i]

Init ==
    /\ id \in DOMAIN Layouts \cup {"TAG"}
    /\ obj = Initial(layout)
    /\ line = None
    /\ from = None
    /\ phase = "object"
    /\ sets = 0

\* A setter gives values to the members of its group.  A geo::latitude or
\* geo::longitude brings its hemisphere along, the default magnetic none.
Given(i) ==
    LET members == Group(layout, i)
    IN  {g \in [members -> UNION {Field(j).args : j \in members}] :
            \A j \in members :
                /\ g[j] \in Field(j).args
                /\ Field(j).part = "hemisphere"
                     => g[j] = Field(j).sides[IF g[i] = "-1" THEN 2 ELSE 1]
                /\ g[j] = "none" => g[i] = "0"}

Set(i) ==
    /\ phase = "object"
    /\ sets < MaxSets
    /\ \A j \in Group(layout, i) : Field(j).old => obj[j] \in Field(j).only
    /\ layout.append /\ i > layout.head =>
         \A j \in (layout.head + 1)..Len(obj) : j < i <=> obj[j] # ""
    /\ \E g \in Given(i) :
          obj' = [j \in DOMAIN obj |-> IF j \in DOMAIN g THEN g[j] ELSE obj[j]]
    /\ sets' = sets + 1
    /\ line' = None
    /\ from' = None
    /\ UNCHANGED <<id, phase>>

\* One call gives the list n entries.
SetList(n) ==
    LET places == (layout.head + 1)..(layout.head + n * layout.entry)
    IN  /\ phase = "object"
        /\ sets < MaxSets
        /\ \E g \in [places -> UNION {Field(j).args : j \in places}] :
              /\ \A j \in places : g[j] \in Field(j).args
              /\ obj' = [j \in DOMAIN obj |->
                            IF j \in places THEN g[j]
                            ELSE IF j > layout.head THEN "" ELSE obj[j]]
        /\ sets' = sets + 1
        /\ line' = None
        /\ from' = None
        /\ UNCHANGED <<id, phase>>

\* the setters of a tag block
SetBlock ==
    /\ IsBlock
    /\ phase = "object"
    /\ sets < MaxSets
    /\ \E k \in DOMAIN obj : \E t \in SetterArgs(k) : obj' = [obj EXCEPT ![k] = Cut(t)]
    /\ sets' = sets + 1
    /\ line' = None
    /\ from' = None
    /\ UNCHANGED <<id, phase>>

Write ==
    /\ phase = "object"
    /\ from = None
    /\ Writable(layout, obj)
    /\ line' = IF IsBlock THEN WrittenBlock(obj) ELSE Written(layout, obj)
    /\ from' = obj
    /\ phase' = "line"
    /\ UNCHANGED <<id, obj, sets>>

Texts(f) == {"", "?"} \cup DOMAIN f.type.means

\* A line of another program: all fields empty or all in order, but for two
ForeignLine ==
    LET sizes == UNION {{n - 1, n, n + 1} : n \in layout.sizes}
        good(f) == CHOOSE t \in Texts(f) : t \notin {"", "?"}
        F(i) == IF i \in DOMAIN layout.fields THEN Field(i) ELSE Opt(Number)
    IN  /\ phase = "object"
        /\ sets = 0
        /\ from = None
        /\ line = None
        /\ \E n \in sizes, full \in BOOLEAN :
             \E i \in 1..n :
               \E j \in {k \in i..n : k <= i + Reach} :
                 \E a \in Texts(F(i)), b \in Texts(F(j)) :
                   line' = [k \in 1..n |->
                              CASE k = i -> a
                                [] k = j /\ j # i -> b
                                [] OTHER -> IF full THEN good(F(k)) ELSE ""]
        /\ phase' = "line"
        /\ UNCHANGED <<id, obj, from, sets>>

\* two fields with any keys and texts, the same key perhaps twice
ForeignBlock ==
    LET known == UNION {{<<Keys[k], t>> : t \in DOMAIN Kept(k) \cup {""}} : k \in 1..7}
        any == known \cup {<<"x", "a">>, <<"x", "">>}
    IN  /\ IsBlock
        /\ phase = "object"
        /\ sets = 0
        /\ from = None
        /\ line = None
        /\ \E n \in 0..2 : line' \in [1..n -> any]
        /\ phase' = "line"
        /\ UNCHANGED <<id, obj, from, sets>>

Read ==
    /\ phase = "line"
    /\ \E o \in IF IsBlock THEN {ReadBlock(line)} ELSE Outcomes(layout, line) :
          IF o = NoObject
          THEN phase' = "refused" /\ obj' = obj
          ELSE phase' = "object" /\ obj' = o
    /\ UNCHANGED <<id, line, from, sets>>

Next ==
    \/ \E i \in Leaders(layout) : Set(i)
    \/ \E n \in layout.calls : SetList(n)
    \/ SetBlock
    \/ Write
    \/ ForeignLine
    \/ ForeignBlock
    \/ Read

Spec == Init /\ [][Next]_vars

-----------------------------------------------------------------------------
(***************************************************************************)
(* Type invariant: every member has a value of its type, and only optional *)
(* members and texts are unset (io.hpp, the members of the classes).       *)
(***************************************************************************)
MayBe(f, v) ==
    \/ v = f.init
    \/ v \in DOMAIN f.type.says
    \/ v \in f.type.none \ {Keep, Refuse}
    \/ v = "" /\ (f.opt \/ f.part = "unread")

TypeOK ==
    /\ id \in DOMAIN Layouts \cup {"TAG"}
    /\ DOMAIN obj = DOMAIN layout.fields
    /\ \A i \in DOMAIN obj : MayBe(Field(i), obj[i])
    /\ phase \in {"object", "line", "refused"}
    /\ line # None => line \in Seq(IF IsBlock THEN STRING \X STRING ELSE STRING)
    /\ from # None => DOMAIN from = DOMAIN obj
    /\ sets \in 0..MaxSets

\* ALM of satellite 0, the default (alm.cpp, check), XDR without transducers, DSC
\* for an area, written with another code (dsc.cpp), APA and APB with a reference
\* that only the setter after it would object to (apa.cpp, apb.cpp), the direction
\* of a default magnetic, written as "none", and a unit that is left out with its
\* value but read into a variable nothing has set (bod.cpp, vpw.cpp, vdr.cpp).  A
\* tag block without valid members is written as no text at all, a delimiter in one
\* of its texts ends the field.
Unreadable(o) ==
    \/ IsBlock /\ (WrittenBlock(o) = <<>> \/ "a*b" \in ToSet(o))
    \/ id = "ALM" /\ o[3] = "0"
    \/ id = "DSC" /\ o[1] = "02"
    \/ id = "XDR" /\ \A i \in DOMAIN o : ~Present(layout, o, i)
    \/ \E i \in DOMAIN o :
          \/ o[i] = "none"
          \/ Field(i).old /\ o[i] = "R"
          \/ /\ Field(i).part = "unit" /\ ~Field(i).opt /\ ~Field(i).always
             /\ o[i - 1] = ""

(***************************************************************************)
(* A parsing constructor takes every line append_data_to writes, whatever  *)
(* calls of setters and readings have made the object, but for what is     *)
(* Unreadable, and gives the object that has written it: no two fields     *)
(* change places between the members, append_data_to and the parsing       *)
(* constructor. Places left free between transducers close up              *)
(* (xdr.cpp:70), and so do those of the empty waypoints of a route, which  *)
(* are lost (rte.cpp:32).  Values that lose something: of some times a     *)
(* millisecond, as the parser cuts off (time.cpp:22); format of a time     *)
(* with two digits takes them from the wrong end, a duration loses its     *)
(* fraction, a date its century; an empty waypoint is not told from one    *)
(* that is not there (time.cpp, date.cpp, r00.cpp).  A tag block comes     *)
(* back the same, in whatever order its fields came before, but for texts  *)
(* in which a ',' begins another field (tag_block.cpp:164).                *)
(***************************************************************************)
OwnLineReadBack ==
    from # None =>
        CASE phase = "refused" -> Unreadable(from)
          [] phase = "object" ->
               LET shown == IF IsBlock THEN from ELSE Named(layout, Shown(layout, from))
               IN  \/ \A i \in DOMAIN obj :
                        \/ obj[i] = shown[i]
                        \/ Loses(Field(i), shown[i]) /\ obj[i] \in Left(Field(i))
                   \/ IsBlock /\ "a,s:b" \in ToSet(from)
          [] OTHER -> TRUE

(***************************************************************************)
(* The sign of an angle and its hemisphere, two members, agree whatever    *)
(* was set or read, and a latitude is never of the east or west            *)
(* (correct_hemisphere of geo.hpp, the setters of positions).              *)
(***************************************************************************)
PositionAgrees ==
    phase = "object" =>
        \A i \in DOMAIN obj :
            LET f == Field(i)
            IN  f.part = "hemisphere" /\ obj[i] # "" /\ obj[i - 1] # ""
                  => /\ obj[i] \in {f.sides[1], f.sides[2]}
                     /\ obj[i - 1] \in {"1", "-1"}
                          => (obj[i - 1] = "-1" <=> obj[i] = f.sides[2])

(***************************************************************************)
(* What another program has sent is refused or kept, never dropped without *)
(* notice, but for the fields the code calls unsupported (DSC, DSE, TPR,   *)
(* TPT, the last two of TTM), a unit without a value, a value whose        *)
(* partners are missing (GLC, LCD, ZDA), and of GSV a satellite without    *)
(* its number or after the last one there is room for.  Of a tag block the *)
(* last of two fields with the same key is kept, and a number of zero is   *)
(* one that is not valid (tag_block.cpp:70).                               *)
(***************************************************************************)
Overlooked(i) ==
    \/ id \in {"GSV", "TTM"} /\ i > Len(obj)
    \/ /\ i <= Len(obj)
       /\ \/ Field(i).part = "unread"
          \/ layout.skips /\ ~Present(layout, obj, i)
          \/ Field(i).part = "unit" /\ obj[i - 1] = ""
          \/ /\ Field(i).part = "joint"
             /\ \E j \in Group(layout, Leader(layout, i)) : line[j] = ""

\* empty names of waypoints leave no place
Place(i) ==
    IF layout.append
    THEN i - Cardinality({k \in (layout.head + 1)..(i - 1) : line[k] = ""})
    ELSE i

BlockKept ==
    \A i \in DOMAIN line :
        \/ line[i][2] \in {"", "0"}
        \/ \E j \in (i + 1)..Len(line) : line[j][1] = line[i][1]
        \/ line[i][1] \in {f[1] : f \in ToSet(WrittenBlock(obj))}

NothingDropped ==
    phase = "object" /\ line # None /\ from = None =>
      IF IsBlock THEN BlockKept ELSE
      LET own == Written(layout, obj)
      IN \A i \in DOMAIN line : line[i] # "" =>
            \/ Place(i) \in DOMAIN own /\ own[Place(i)] # ""
            \/ Overlooked(i)
=============================================================================
