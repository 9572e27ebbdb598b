---------------------------- MODULE CatalogParse ----------------------------
(***************************************************************************)
(* The catalog parsers of server.py: parse_value, parse_lokomotive_cs2 and *)
(* parse_magnetartikel_cs2, and the int() their callers apply to a uid or  *)
(* an id.  A file is a sequence of lines, already strip()ped.  A line is   *)
(* its leading dots, a word (a header such as lokomotive, or a key), and,  *)
(* if it has an '=', the characters of its value.  Values keep their       *)
(* characters because parse_value and int() look at them; words are       *)
(* atomic, and a word cut short is the word "~", equal to no other.       *)
(***************************************************************************)
EXTENDS Naturals, Sequences, SequencesExt, FiniteSets

Line(dots, word, eq, val) == [dots |-> dots, key |-> word, eq |-> eq, val |-> val]
Hdr(word)      == Line(0, word, FALSE, <<>>)
Key(d, k, val) == Line(d, k, TRUE, val)

HexLower  == <<"0", "1", "2", "3", "4", "5", "6", "7", "8", "9", "a", "b", "c", "d", "e", "f">>
HexUpper  == [HexLower EXCEPT ![11] = "A", ![12] = "B", ![13] = "C", ![14] = "D", ![15] = "E", ![16] = "F"]
Digits    == {HexLower[i] : i \in 1..10}
HexDigits == ToSet(HexLower) \cup ToSet(HexUpper)
HexOf(c)  == CHOOSE n \in 0..15 : HexLower[n + 1] = c \/ HexUpper[n + 1] = c

(* A parsed value: an int, or the string itself.                         *)
IntVal(n) == [t |-> "int", n |-> n, s |-> <<>>]
StrVal(s) == [t |-> "str", n |-> 0, s |-> s]
NumeralIn(s, base) == FoldLeft(LAMBDA acc, c : acc * base + HexOf(c), 0, s)

(* parse_value: "0x..." through int(val, 16), which raises (keeping the   *)
(* string) unless hex digits follow; all digits through int(); else the   *)
(* string.                                                                *)
ParseValue(v) ==
    IF Len(v) >= 2 /\ v[1] = "0" /\ v[2] = "x"
    THEN IF Len(v) > 2 /\ \A i \in 3..Len(v) : v[i] \in HexDigits
         THEN IntVal(NumeralIn(SubSeq(v, 3, Len(v)), 16))
         ELSE StrVal(v)
    ELSE IF v # <<>> /\ \A i \in DOMAIN v : v[i] \in Digits
         THEN IntVal(NumeralIn(v, 10))
         ELSE StrVal(v)

(* int(x) of a parsed value: an int stays; over the characters modelled  *)
(* (digits, hex digits, x) no string parse_value leaves is one int()      *)
(* accepts, since it would have been a numeral; None: int() raised.       *)
None == -1
PyIntOf(rec, k) == IF k \in DOMAIN rec /\ rec[k].t = "int" THEN rec[k].n ELSE None

-----------------------------------------------------------------------------
(* parse_lokomotive_cs2: one pass over the lines.  cur is                 *)
(* current_locomotive (open is FALSE while it is None), fns               *)
(* current_functions, fkey current_function_key (None and "" are both    *)
(* falsy, the only way it is tested), pf parsing_function.               *)
NoAttrs == [k \in {} |-> IntVal(0)]
LocoStart == [locos |-> <<>>, open |-> FALSE, cur |-> NoAttrs, fns |-> [k \in {} |-> NoAttrs],
              fkey |-> <<>>, pf |-> FALSE]

(* if current_locomotive: (an empty dict is falsy) append it, with its    *)
(* functions under 'funktionen' when there are any.                      *)
Flush(st) ==
    IF DOMAIN st.cur # {} THEN Append(st.locos, [attrs |-> st.cur, fns |-> st.fns])
    ELSE st.locos

LocoStep(st, l) ==
    IF l = Hdr("lokomotive")
    THEN [LocoStart EXCEPT !.locos = Flush(st), !.open = TRUE]
    ELSE IF ~st.open THEN st
    ELSE CASE l.dots >= 1 /\ l.key = "funktionen" ->                 \* '.funktionen' in line
                [st EXCEPT !.pf = TRUE, !.fkey = <<>>]
           [] st.pf /\ l.dots = 2 /\ l.key = "nr" /\ l.eq ->         \* startswith('..nr=')
                [st EXCEPT !.fkey = l.val, !.fns = (l.val :> NoAttrs) @@ st.fns]
           [] st.pf /\ l.dots >= 2 /\ l.eq /\ st.fkey # <<>> ->
                [st EXCEPT !.fns[st.fkey] = (l.key :> ParseValue(l.val)) @@ @]
           [] l.dots = 1 /\ l.eq ->
                [st EXCEPT !.cur = (l.key :> ParseValue(l.val)) @@ @, !.pf = FALSE]
           [] OTHER -> st

ParseLokomotive(lines) == Flush(FoldLeft(LocoStep, LocoStart, lines))

(* The uid the watcher's merge takes of a loco: int(loco.get('uid')).    *)
LocoUid(loco) == PyIntOf(loco.attrs, "uid")
LocoUids(ls) == {LocoUid(ls[i]) : i \in DOMAIN ls} \ {None}

(* run_server's pre-initialisation: one try around the whole loop, so    *)
(* the first loco int() rejects ends it.                                 *)
StartUids(ls) ==
    LET bad  == {i \in DOMAIN ls : LocoUid(ls[i]) = None}
        stop == IF bad = {} THEN Len(ls) + 1 ELSE Min(bad)
    IN  {LocoUid(ls[i]) : i \in 1..(stop - 1)}

-----------------------------------------------------------------------------
(* parse_magnetartikel_cs2: blank lines skipped; a line 'artikel' appends *)
(* a new entry and makes 'artikel' the section, other headers change      *)
(* nothing; a line with dots has them all lstrip()ped and, if it has an   *)
(* '=', sets that key of the current entry while the section is artikel.  *)
ArtikelStep(st, l) ==
    CASE l = Hdr("artikel") ->
              [sec |-> TRUE, entries |-> Append(st.entries, NoAttrs)]
      [] l.dots >= 1 /\ l.eq /\ st.sec ->
              [st EXCEPT !.entries[Len(st.entries)] = (l.key :> ParseValue(l.val)) @@ @]
      [] OTHER -> st

Lower(s) == [i \in DOMAIN s |-> CASE s[i] = "M" -> "m" [] s[i] = "D" -> "d" [] s[i] = "C" -> "c"
                                      [] s[i] = "S" -> "s" [] s[i] = "X" -> "x" [] OTHER -> s[i]]

(* str(entry.get('dectyp', '')).lower(), as the name magnetartikel_uid   *)
(* tests; str() of an int is digits, which name no decoder type.         *)
Dectyp(e) ==
    LET s == IF "dectyp" \in DOMAIN e /\ e.dectyp.t = "str" THEN Lower(e.dectyp.s) ELSE <<>>
    IN  CASE s = <<"m", "m", "2">> -> "mm2" [] s = <<"d", "c", "c">> -> "dcc"
          [] s = <<"s", "x", "1">> -> "sx1" [] OTHER -> "other"

(* The entries, each with the id int() gives (None: no 'uid' is set).    *)
ParseMagnetartikel(lines) ==
    LET es == FoldLeft(ArtikelStep, [sec |-> FALSE, entries |-> <<>>], lines).entries
    IN  [i \in DOMAIN es |-> [id |-> PyIntOf(es[i], "id"), dectyp |-> Dectyp(es[i])]]

-----------------------------------------------------------------------------
(* A line cut short by a reader that sees a file being written: the dots *)
(* so far, a word cut inside, the word without its '=', or the value cut *)
(* inside.                                                               *)
Cuts(l) ==
    {Line(d, "", FALSE, <<>>) : d \in 0..l.dots}
    \cup (IF l.key = "" THEN {} ELSE {Line(l.dots, "~", FALSE, <<>>)})
    \cup (IF l.eq THEN {Line(l.dots, l.key, FALSE, <<>>)} \cup
                       {Line(l.dots, l.key, TRUE, SubSeq(l.val, 1, n)) : n \in 0..(Len(l.val) - 1)}
          ELSE {})

(* The contents a reader can see while lines is being written: a whole   *)
(* number of lines, or also a last line cut anywhere.                    *)
LinePrefixes(lines) == {SubSeq(lines, 1, n) : n \in 0..(Len(lines) - 1)}
TornPrefixes(lines) ==
    LinePrefixes(lines) \cup
    UNION {{SubSeq(lines, 1, n - 1) \o <<x>> : x \in Cuts(lines[n])} : n \in DOMAIN lines}
=============================================================================
