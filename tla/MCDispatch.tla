----------------------------- MODULE MCDispatch -----------------------------
(***************************************************************************)
(* Model-checking instances of Dispatch: request bodies for each handler, *)
(* an mm2/dcc switch catalog, and the meaning of str.strip().lower() and  *)
(* int() on the strings those bodies contain.                             *)
(***************************************************************************)
EXTENDS Dispatch

Loco == 16385      \* 0x4001, an mfx loco uid
JStr(x) == [t |-> "str", v |-> x]

MCLower(x) ==
    CASE x = "REV"     -> "rev"
      [] x = " Fwd "   -> "fwd"
      [] x = "Off"     -> "off"
      [] x = "ON"      -> "on"
      [] OTHER         -> x
MCIsNumeral(x) == x \in {"16385", "2"}
MCNumeralOf(x) == IF x = "2" THEN 2 ELSE 16385

Body(h, d) == [handler |-> h, data |-> d]

\* magnetartikel.cs2 with ids 1 and 2 at positions 0 and 1, and one with
\* id 2 missing (the smallest gap between position and uid), read by
\* parse_magnetartikel_cs2; an entry without an id keeps no 'id' key.
P == INSTANCE CatalogParse
MagnetartikelLines ==
    << P!Hdr("version"), P!Key(1, "major", <<"1">>),
       P!Hdr("artikel"), P!Key(1, "id", <<"1">>), P!Key(1, "dectyp", <<"m", "m", "2">>),
       P!Hdr("artikel"), P!Key(1, "id", <<"2">>), P!Key(1, "dectyp", <<"D", "C", "C">>) >>
AsArticle(e) == IF e.id = P!None THEN [dectyp |-> e.dectyp] ELSE e
ArticlesOf(lines) ==
    LET es == P!ParseMagnetartikel(lines) IN [i \in DOMAIN es |-> AsArticle(es[i])]
DenseArticles == ArticlesOf(MagnetartikelLines)
GapArticles   == ArticlesOf([MagnetartikelLines EXCEPT ![7] = P!Key(1, "id", <<"3">>),
                                                   ![8] = P!Key(1, "dectyp", <<"m", "m", "2">>)])

\* Well-formed bodies of every handler, and bodies each handler rejects.
WellFormed ==
    { Body("stop", [state |-> JBool(TRUE)]), Body("stop", <<>>),
      Body("control", [loco_id |-> JStr("16385"), speed |-> JInt(300)]),
      Body("control", [loco_id |-> JInt(Loco), direction |-> JInt(2)]),
      Body("control", [loco_id |-> JInt(Loco), fn |-> JInt(2), on |-> JBool(TRUE)]),
      Body("control", [loco_id |-> JInt(Loco), function |-> JStr("2"), value |-> JInt(0)]),
      Body("keyboard", [idx |-> JInt(1), value |-> JInt(1)]),
      Body("keyboard", [idx |-> JInt(2), value |-> JStr("2")]),
      Body("info", [loco_id |-> JInt(Loco), function |-> JInt(1)]),
      Body("control", [speed |-> JInt(5)]),
      Body("control", [loco_id |-> JInt(Loco)]),
      Body("keyboard", [idx |-> JStr("Off"), value |-> JInt(1)]),
      Body("info", [function |-> JInt(1)]) }

\* speed outside [0,1023] (spec 8.4: -5 and 5000).
OutOfRangeSpeed ==
    { Body("control", [loco_id |-> JInt(Loco), speed |-> JInt(v)]) : v \in {-5, 5000} }

\* A function value given as a string.
StringFunctionValue ==
    { Body("control", [loco_id |-> JInt(Loco), function |-> JInt(0), value |-> JStr(x)])
      : x \in {"Off", "ON"} }

\* keyboard indices outside the switch array (spec 8.6: -1 and 64).
OutOfRangeIdx ==
    { Body("keyboard", [idx |-> JInt(i), value |-> JInt(1)]) : i \in {-1, 3} }

\* Bad loco id or speed: rejected input.
BadInput ==
    { Body("control", [loco_id |-> JInt(-1), speed |-> JInt(5)]),
      Body("control", [loco_id |-> JInt(Loco), speed |-> JStr("fast")]) }

\* Every body above.
AllBodies == WellFormed \cup OutOfRangeSpeed \cup StringFunctionValue
                        \cup OutOfRangeIdx \cup BadInput
=============================================================================
