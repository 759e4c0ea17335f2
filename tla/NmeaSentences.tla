---------------------------- MODULE NmeaSentences ----------------------------
(***************************************************************************)
(* The layouts of all sentences, by the tags make_sentence looks them up.  *)
(***************************************************************************)
EXTENDS NmeaSentencesAToM, NmeaSentencesNToZ

Layouts ==
    [AAM |-> Aam, ACK |-> Ack, ALM |-> Alm, ALR |-> Alr, APA |-> Apa,
     APB |-> Apb, BEC |-> Bec, BOD |-> Bod, BWC |-> Bwc, BWR |-> Bwr,
     BWW |-> Bww, DBK |-> Dbk, DBT |-> Dbt, DPT |-> Dpt, DSC |-> Dsc,
     DSE |-> Dse, DTM |-> Dtm, FSI |-> Fsi, GBS |-> Gbs, GGA |-> Gga,
     GLC |-> Glc, GLL |-> Gll, GNS |-> Gns, GRS |-> Grs, GSA |-> Gsa,
     GST |-> Gst, GSV |-> Gsv, GTD |-> Gtd, HDG |-> Hdg, HDM |-> Hdm, HDT |-> Hdt,
     HFB |-> Hfb, HSC |-> Hsc, ITS |-> Its, LCD |-> Lcd, MOB |-> Mob,
     MSK |-> Msk, MSS |-> Mss, MTA |-> Mta, MTW |-> Mtw, MWD |-> Mwd,
     MWV |-> Mwv, OSD |-> Osd, PGRME |-> Pgrme, PGRMM |-> Pgrmm,
     PGRMZ |-> Pgrmz, R00 |-> R00, RMA |-> Rma, RMB |-> Rmb, RMC |-> Rmc,
     ROT |-> Rot, RPM |-> Rpm, RSA |-> Rsa, RSD |-> Rsd, RTE |-> Rte,
     SFI |-> Sfi, STALK |-> Stalk, STN |-> Stn,
     TDS |-> Tds, TEP |-> Tep, TFI |-> Tfi, TLL |-> Tll, TPC |-> Tpc,
     TPR |-> Tpr, TPT |-> Tpt, TTM |-> Ttm, VBW |-> Vbw, VDM |-> Vdm,
     VDO |-> Vdo, VDR |-> Vdr, VHW |-> Vhw, VLW |-> Vlw, VPW |-> Vpw,
     VTG |-> Vtg, VWE |-> Vwe, VWR |-> Vwr, WCV |-> Wcv, WDC |-> Wdc,
     WDR |-> Wdr, WNC |-> Wnc, WPL |-> Wpl, XDR |-> Xdr, XTE |-> Xte, XTR |-> Xtr,
     ZDA |-> Zda, ZDL |-> Zdl, ZFI |-> Zfi, ZFO |-> Zfo, ZLZ |-> Zlz,
     ZPI |-> Zpi, ZTA |-> Zta, ZTE |-> Zte, ZTG |-> Ztg]

-----------------------------------------------------------------------------
(***************************************************************************)
(* What all layouts have in common.  Nothing in the actions depends on it, *)
(* the proofs do.                                                          *)
(***************************************************************************)
\* the classes with a list
Lists == {"GSV", "RTE", "SFI", "STALK", "XDR"}

\* the types of which some values lose something when they are written and read,
\* which these are, and what may be left: of a time all but a millisecond, of a
\* waypoint that there is none or an empty one
LossyTypes == {Time, TimeIn2Digits, Duration, Date, Waypoint}
Losing(T) ==
    IF T = Time THEN {"16.121"}
    ELSE IF T = Waypoint THEN {"", "blank"}
    ELSE {"16.01", "16.12", "16.121", "2015"}
Loses(f, v) == f.type \in LossyTypes /\ v \in Losing(f.type)
Left(f) ==
    f.only \cap IF f.type = Time THEN {"16.12"}
               ELSE IF f.type = Waypoint THEN {"", "blank"}
               ELSE f.only \ {Refuse}

\* an empty waypoint of a list that is appended to leaves no entry
Named(l, o) ==
    IF l.append
    THEN ClosedUp(l, [i \in DOMAIN l.fields |->
                        IF i > l.head /\ o[i] = "blank" THEN "" ELSE o[i]])
    ELSE o

\* what a member that is there may hold, and what of it shows in its own field
Holds(l, i) ==
    LET f == l.fields[i]
    IN  UNION {DOMAIN f.type.says, f.type.none \ {Keep, Refuse},
               IF f.opt THEN {""} ELSE {}, IF i <= l.head THEN {f.init} ELSE {}}
Unsigned(v) == IF v = "-1" THEN "1" ELSE v

\* what a setter takes, or the default is, and the checks after reading refuse
Excused(c, l, i, v) ==
    \/ l.fields[i].old /\ v = "R"
    \/ c = "ALM" /\ i = 3 /\ v = "0"

SignFollows(l, i) == i < Len(l.fields) /\ l.fields[i + 1].part = "hemisphere"

\* units, hemispheres and fields that depend on another stand behind it
PartsFit(l, i) ==
    LET f == l.fields[i]
        b == l.fields[i - 1]
    IN  /\ f.part \in {"member", "joint", "hemisphere", "unit", "unread"}
        /\ f.with \in 0..(i - 1)
        /\ f.with # 0 /\ f.part # "hemisphere" =>
             /\ l.fields[i - f.with].part = f.part
             /\ l.fields[i - f.with].with = 0
        /\ f.part = "unit" =>
             /\ i > 1
             /\ f.init = ""
             /\ DOMAIN f.type.says = {""}
             /\ f.type.says[""] # ""
             /\ f.type.says[""] \in DOMAIN f.type.means
             /\ f.type.none \subseteq {"", Refuse}
             /\ \A t \in DOMAIN f.type.means : f.type.means[t] = ""
        /\ f.part = "unread" =>
             /\ f.init \in STRING /\ "" \in f.only
             /\ \A k \in l.sizes : i <= k
        /\ l.append => f.part \notin {"hemisphere", "joint"}
        /\ f.part \in {"unit", "unread"} =>
             /\ f.with = 0
             /\ i <= l.head
             /\ Initial(l)[i] = ""
             /\ ~f.needed
        /\ f.part = "hemisphere" =>
             /\ 1 < i /\ i <= l.head
             /\ f.with = 1
             /\ f.sides[1] # f.sides[2]
             /\ f.args = {f.sides[1], f.sides[2]}
             /\ "" \notin f.args
             /\ Initial(l)[i] \in {f.sides[1], ""}
        /\ SignFollows(l, i) =>
             /\ f.part = "member" /\ f.with = 0
             /\ {"1", "-1"} \subseteq DOMAIN f.type.says \cap f.only
             /\ f.type.says["1"] # "" /\ f.type.says["-1"] # ""
        /\ f.part = "joint" =>
             /\ f.opt /\ "" \in f.only
             /\ i <= l.head
             /\ Initial(l)[i] = ""
             /\ "" \notin f.args
             /\ \A j \in Group(l, Leader(l, i)) : l.fields[j].part = "joint"
             /\ \A k \in l.sizes : i <= k
        /\ f.needed =>
             /\ 1 < i /\ i <= l.head
             /\ f.part = "member" /\ f.with = 1 /\ f.type \notin LossyTypes
             /\ b.part = "member" /\ b.with = 0 /\ b.type \notin LossyTypes
             /\ "" \notin f.args
             /\ Initial(l)[i - 1] = ""
        /\ f.type \in LossyTypes => f.part = "member" /\ ~SignFollows(l, i)

\* values are of the type, signs come from hemispheres only
ValuesFit(c, l, i) ==
    LET f == l.fields[i]
        texts == {""} \cup DOMAIN f.type.means
    IN  /\ texts \subseteq STRING
        /\ \E t \in texts : t \notin {"", "?"}
        /\ \A v \in DOMAIN f.type.says : f.type.says[v] \in STRING
        /\ f.type.none # {}
        /\ \A t \in texts :
             /\ "-1" \notin FieldOutcomes(f, t)
             /\ FieldOutcomes(f, t) \ {Refuse} \subseteq IF f.part = "unread" THEN {""} ELSE Holds(l, i)
        /\ f.part # "unread" =>
             Holds(l, i) \subseteq DOMAIN f.type.says \cup {""} /\ Refuse \notin Holds(l, i)
        /\ f.init # "-1" /\ Initial(l)[i] # "-1"
        /\ \/ Initial(l)[i] \in Holds(l, i)
           \/ Initial(l)[i] = "" /\ (i > l.head \/ f.part = "unread")
        /\ f.args \subseteq Holds(l, i)
        /\ "-1" \in f.args => SignFollows(l, i)
        /\ f.part # "unit" =>
             \A v \in f.args \cup {Initial(l)[i]} : v \in f.only \/ Excused(c, l, i, v)

\* what append_data_to writes of a value the constructor reads as the same value
ReadsBack(c, l, i) ==
    LET f == l.fields[i]
    IN  f.part \notin {"unit", "unread"} =>
          /\ \A v \in Holds(l, i) :
               LET read == FieldOutcomes(f, IF v = "" THEN "" ELSE f.type.says[v])
               IN  \/ read = {Unsigned(v)}
                   \/ Loses(f, v) /\ read \subseteq Left(f) \ {Refuse}
                   \/ read = {Refuse} /\ (v = "none" \/ (c = "DSC" /\ i = 1 /\ v = "02"))
          /\ \A t \in DOMAIN f.type.means \ {""} :
               f.type.means[t] # "" /\ f.type.says[f.type.means[t]] # ""

\* an entry repeats, is set by one call and tells by its first field that it is there
EntriesFit(l, i) ==
    LET f == l.fields[i]
    IN  i > l.head =>
          /\ f.part = "member" /\ ~f.needed /\ ~f.old
          /\ f.init = "" /\ f.fresh = "" /\ "" \in f.only
          /\ f.type \notin LossyTypes \/ l.append
          /\ "none" \notin DOMAIN f.type.says
          /\ FirstOf(l, i) = i - f.with
          /\ \A j \in (l.head + 1)..Len(l.fields) : i - FirstOf(l, i) = j - FirstOf(l, j) => l.fields[j] = f
          /\ f.with = 0 => "" \notin f.args /\ \A t \in DOMAIN f.type.means : f.type.means[t] # ""
          /\ ~l.append => \A v \in Holds(l, i) : v # "" => f.type.says[v] # ""
          /\ l.append => \A v \in Holds(l, i) :
               FieldOutcomes(f, IF v = "" THEN "" ELSE f.type.says[v])
                 = {IF v = "blank" THEN "" ELSE v}
          /\ f.with = 0 /\ ~l.append /\ ~l.skips => "" \notin FieldOutcomes(f, "")
          /\ l.append => FieldOutcomes(f, "") = {""}

\* the fields a line may have
SizesFit(c, l) ==
    LET n == Len(l.fields)
    IN  /\ n \in Nat \ {0} /\ DOMAIN l.fields = 1..n
        /\ l.head \in 0..n
        /\ l.head < n => c \in Lists
        /\ c = "XDR" => l.head = 0
        /\ l.entry \in {1, 2, 4} /\ (n - l.head) % l.entry = 0
        /\ l.append => l.entry = 1 /\ ~l.holes /\ ~l.skips
        /\ l.skips <=> l.holes
        /\ l.least \in {0, 1} /\ l.least <= Most(l)
        /\ l.calls \subseteq 0..Most(l)
        /\ \A k \in l.sizes :
             /\ k \in Nat
             /\ l.head < n => k >= l.head /\ (k - l.head) % l.entry = 0
             /\ k <= n \/ c \in {"GSV", "TTM"}
        /\ \A k \in l.least..Most(l) :
             l.head + k * l.entry \in l.sizes \/ (c = "XDR" /\ k = 0)

WellFormed(c, l) ==
    /\ SizesFit(c, l)
    /\ \A i \in 1..Len(l.fields) :
         PartsFit(l, i) /\ ValuesFit(c, l, i) /\ ReadsBack(c, l, i) /\ EntriesFit(l, i)

ASSUME LayoutsAssumption == \A c \in DOMAIN Layouts : WellFormed(c, Layouts[c])
=============================================================================
