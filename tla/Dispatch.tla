------------------------------ MODULE Dispatch ------------------------------
(***************************************************************************)
(* The command path of mswebapp/files/python/server.py, one request at a  *)
(* time: the HTTP handlers stop_button, control_event, keyboard_event and *)
(* srseii_commands (/api/info_events) with the set_* calls they make and  *)
(* send_cs2_udp, which validates, coerces and frames the command; then    *)
(* the CS2 answering that frame with the response bit set, and            *)
(* listen_cs2_udp applying the answer.  Request bodies are JSON values    *)
(* ([t, v] records); Python's int(), bool(), str.strip().lower() and the  *)
(* _coerce_* helpers are modelled by what they do.  The interleaving of   *)
(* these calls with other threads is the Bridge module's.                 *)
(***************************************************************************)
EXTENDS Naturals, Integers, Sequences, Bitwise, TLC

CONSTANTS Articles,     \* switch_list['artikel']: <<[id, dectyp], ...>>
          NumSwitches,  \* len(switch_state) (64 in the code)
          Lower(_),     \* s.strip().lower() on the strings the model uses
          IsNumeral(_), \* int(s) succeeds on string s
          NumeralOf(_), \* and returns this
          Bodies,       \* [handler, data] request bodies that may arrive
          MaxReq        \* bound on requests

C == INSTANCE Codec

VARIABLES store,  \* [sys, loco, sw]: system_state, loco_state, switch_state
          log,    \* events passed to publish_event, in order
          wire,   \* the datagram the last request put on the wire, or <<>>
          phase,  \* "idle", "sent" (awaiting the CS2's answer), "echoed"
          last,   \* the last request and its HTTP status
          before, \* history: store and Len(log) before the last request
          after,  \* history: store right after the last request
          reqs    \* requests handled

vars == <<store, log, wire, phase, last, before, after, reqs>>

-----------------------------------------------------------------------------
(* JSON values and Python conversions.                                   *)
Null        == [t |-> "null", v |-> 0]
Ok(x)       == [ok |-> TRUE, v |-> x]
Fail        == [ok |-> FALSE, v |-> 0]

\* data.get(k)
Get(d, k) == IF k \in DOMAIN d THEN d[k] ELSE Null

\* _get_first: the value of the first key present (even if it is null).
GetFirst(d, ks) ==
    LET present == {i \in 1..Len(ks) : ks[i] \in DOMAIN d}
    IN  IF present = {} THEN Null
        ELSE d[ks[CHOOSE i \in present : \A j \in present : i <= j]]

\* int(x): TypeError for None, ValueError for a non-numeral string.
PyInt(x) ==
    CASE x.t = "int"                    -> Ok(x.v)
      [] x.t = "bool"                   -> Ok(IF x.v THEN 1 ELSE 0)
      [] x.t = "str" /\ IsNumeral(x.v)  -> Ok(NumeralOf(x.v))
      [] OTHER                          -> Fail

\* bool(x)
PyBool(x) ==
    CASE x.t = "bool" -> x.v
      [] x.t = "int"  -> x.v # 0
      [] x.t = "str"  -> x.v # ""
      [] OTHER        -> FALSE

\* str(x) for the values that reach it (strings and None).
PyStr(x) == IF x.t = "str" THEN x.v ELSE "None"

DirTokens == [keep |-> 0, forward |-> 1, fwd |-> 1, reverse |-> 2, rev |-> 2, toggle |-> 3]

\* _coerce_direction (bool is an int subclass).
CoerceDirection(x) ==
    IF x.t \in {"int", "bool"} THEN PyInt(x).v
    ELSE LET s == Lower(PyStr(x))
         IN  IF s \in DOMAIN DirTokens THEN DirTokens[s]
             ELSE IF IsNumeral(s) THEN NumeralOf(s) ELSE 0

\* _coerce_bool
CoerceBool(x) ==
    CASE x.t = "bool" -> IF x.v THEN 1 ELSE 0
      [] x.t = "int"  -> IF x.v # 0 THEN 1 ELSE 0
      [] OTHER        -> IF Lower(PyStr(x)) \in {"1", "true", "on", "yes"} THEN 1 ELSE 0

\* _clamp_speed10
ClampSpeed10(n) == IF n < 0 THEN 0 ELSE IF n > 1023 THEN 1023 ELSE n

\* artikel[i] with Python's negative indexing; Fail for IndexError.
PyIndex(s, i) ==
    CASE i \in 0..(Len(s) - 1)  -> Ok(s[i + 1])
      [] i \in (-Len(s))..(-1)  -> Ok(s[Len(s) + i + 1])
      [] OTHER                  -> Fail
-----------------------------------------------------------------------------
(* The state store's write operations, the set_ functions, as the       *)
(* handlers call them on raw JSON values and the listener on integers. *)
(* A Python exception leaves earlier in-place writes behind.           *)
JInt(n)  == [t |-> "int", v |-> n]
JBool(b) == [t |-> "bool", v |-> b]

SwIdx   == 0..(NumSwitches - 1)
NewLoco == [speed |-> 0, direction |-> 1, functions |-> <<>>]

Done(s, evs) == [store |-> s, events |-> evs, raised |-> FALSE]
Raised(s)    == [store |-> s, events |-> <<>>, raised |-> TRUE]

\* _ensure_loco_state
EnsureLoco(s, u) ==
    IF u \in DOMAIN s.loco THEN s ELSE [s EXCEPT !.loco = (u :> NewLoco) @@ @]

\* set_system_state: write and publish only on a change.
SetSystemState(s, new) ==
    IF s.sys = new THEN Done(s, <<>>)
    ELSE Done([s EXCEPT !.sys = new],
              <<[type |-> "system", key |-> 0, value |-> IF new = C!Running THEN 1 ELSE 0]>>)

\* set_loco_state_speed / _direction / _function: int(loc_id), ensure,
\* store int(x) (bool(x) for a function), publish the raw arguments.
SetLocoState(s, type, lid, fn, x) ==
    LET u == PyInt(lid)
        s1 == EnsureLoco(s, u.v)
        n == PyInt(IF type = "function" THEN fn ELSE x)
    IN  CASE ~u.ok -> Raised(s)
          [] ~n.ok -> Raised(s1)
          [] OTHER ->
             Done(CASE type = "speed"     -> [s1 EXCEPT !.loco[u.v].speed = n.v]
                    [] type = "direction" -> [s1 EXCEPT !.loco[u.v].direction = n.v]
                    [] OTHER -> [s1 EXCEPT !.loco[u.v].functions = (n.v :> PyBool(x)) @@ @],
                  <<[type |-> type, key |-> <<lid, fn>>, value |-> x]>>)

\* set_switch_state: only 0 <= idx < len(switch_state).
SetSwitchState(s, idx, value) ==
    IF idx \notin SwIdx THEN Done(s, <<>>)
    ELSE Done([s EXCEPT !.sw[idx] = value], <<[type |-> "switch", key |-> idx, value |-> value]>>)

-----------------------------------------------------------------------------
(* send_cs2_udp: loco id check, per-command coercion, frame assembly.    *)
(* status "send" hands the datagram to sendto; "exception" is an exception  *)
(* Flask turns into a 500 (uid.to_bytes(4) of a negative or too-large  *)
(* id raises OverflowError outside any try).                            *)
\* n.to_bytes(4, 'big') succeeds (TLC integers are 32-bit signed).
FitsU32(n) == n >= 0 /\ n \div 65536 < 65536

Payload(cmd, uid, v) ==
    CASE cmd = C!SPEED     -> C!PayloadSpeed(uid, v[1])
      [] cmd = C!DIRECTION -> C!PayloadDirection(uid, v[1])
      [] cmd = C!FUNCTION  -> C!PayloadFunction(uid, v[1], v[2])
      [] cmd = C!SWITCH    -> C!PayloadSwitch(uid, v[1])
      [] OTHER             -> C!PayloadSystemState(uid, v[1])

Coerce(cmd, x, y) ==
    LET n == PyInt(x) IN
    CASE cmd = C!SYSTEM    -> Ok(<<PyBool(x)>>)
      [] cmd = C!DIRECTION -> Ok(<<CoerceDirection(x)>>)
      [] ~n.ok             -> Fail
      [] cmd = C!SPEED     -> Ok(<<ClampSpeed10(n.v)>>)
      [] cmd = C!FUNCTION  -> Ok(<<n.v, CoerceBool(y)>>)
      [] OTHER             -> Ok(<<n.v>>)

SendCs2(data, keys, cmd, dlc) ==
    LET uid  == PyInt(Get(data, "loco_id"))
        vals == Coerce(cmd, Get(data, keys[1]),
                       IF Len(keys) > 1 THEN Get(data, keys[2]) ELSE Null)
    IN  CASE ~uid.ok \/ ~vals.ok          -> [status |-> "bad_request", frame |-> <<>>]
          [] ~FitsU32(uid.v)               -> [status |-> "exception", frame |-> <<>>]
          [] OTHER -> [status |-> "send",
                       frame |-> C!Datagram(C!BuildCanId(0, cmd, 0, 0),
                                            Payload(cmd, uid.v, vals.v), dlc)]
-----------------------------------------------------------------------------
(* The HTTP handlers.  Each yields the store and events it leaves and    *)
(* the status: "bad_request" (a 400), "exception" (an uncaught          *)
(* exception, which Flask answers with a 500), or "send".                *)
Reject == [store |-> store, events |-> <<>>, status |-> "bad_request", frame |-> <<>>]

\* A set_* call followed by send_cs2_udp, unless the set_* call raised.
Then(r, sd) ==
    IF r.raised THEN [store |-> r.store, events |-> <<>>, status |-> "exception", frame |-> <<>>]
    ELSE [store |-> r.store, events |-> r.events, status |-> sd.status, frame |-> sd.frame]

\* stop_button (/api/stop_button)
StopButton(data) ==
    LET running == PyBool(Get(data, "state"))
    IN  Then(SetSystemState(store, IF running THEN C!Running ELSE C!Stopped),
             SendCs2([loco_id |-> JInt(0), state |-> JBool(running)], <<"state">>, C!SYSTEM, 5))

\* control_event (/api/control_event): speed, else direction, else function.
ControlEvent(data) ==
    LET lid == Get(data, "loco_id")
        fn  == GetFirst(data, <<"function", "fn">>)
        val == GetFirst(data, <<"value", "val", "on">>)
    IN  CASE lid.t = "null" -> Reject
          [] "speed" \in DOMAIN data ->
               Then(SetLocoState(store, "speed", lid, Null, Get(data, "speed")),
                    SendCs2(data, <<"speed">>, C!SPEED, 6))
          [] "direction" \in DOMAIN data ->
               Then(SetLocoState(store, "direction", lid, Null, Get(data, "direction")),
                    SendCs2(data, <<"direction">>, C!DIRECTION, 5))
          [] fn.t # "null" ->
               Then(SetLocoState(store, "function", lid, fn, val),
                    SendCs2(("function" :> fn) @@ ("value" :> val) @@ data,
                            <<"function", "value">>, C!FUNCTION, 6))
          [] OTHER -> Reject

\* parse_magnetartikel_cs2 gives an entry with an id the key 'uid'.
ArtikelUid(a, default) ==
    IF "id" \in DOMAIN a THEN C!MagnetartikelUid(a.id, a.dectyp) ELSE default

\* Mutant of keyboard_event: set_switch_state runs before the input checks.
KeyboardEventWriteFirst(data) ==
    LET i == PyInt(Get(data, "idx"))
        v == PyInt(Get(data, "value"))
        r == SetSwitchState(store, i.v, v.v)
        e == PyIndex(Articles, i.v)
        Send(uid) == SendCs2([loco_id |-> JInt(uid), value |-> JInt(v.v)], <<"value">>, C!SWITCH, 6)
        Rejected == [Reject EXCEPT !.store = r.store]
    IN  CASE Get(data, "idx").t = "null" \/ Get(data, "value").t = "null" -> Rejected
          [] ~i.ok \/ ~v.ok                          -> Rejected
          [] Articles = <<>> \/ i.v >= Len(Articles) -> Then(r, Send(i.v))
          [] ~e.ok -> Then(r, [status |-> "exception", frame |-> <<>>])
          [] OTHER -> Then(r, Send(ArtikelUid(e.v, i.v)))

\* keyboard_event (/api/keyboard_event): set_switch_state(idx, value),
\* then the command goes to artikel[idx]'s uid when idx < len(artikel).
KeyboardEvent(data) ==
    LET i == PyInt(Get(data, "idx"))
        v == PyInt(Get(data, "value"))
        r == SetSwitchState(store, i.v, v.v)
        e == PyIndex(Articles, i.v)
        Send(uid) == SendCs2([loco_id |-> JInt(uid), value |-> JInt(v.v)], <<"value">>, C!SWITCH, 6)
    IN  CASE Get(data, "idx").t = "null" \/ Get(data, "value").t = "null" -> Reject
          [] ~i.ok \/ ~v.ok                          -> Reject
          [] Articles = <<>> \/ i.v >= Len(Articles) -> Then(r, Send(i.v))
          [] ~e.ok -> Then(r, [status |-> "exception", frame |-> <<>>])   \* IndexError
          [] OTHER -> Then(r, Send(ArtikelUid(e.v, i.v)))

\* srseii_commands (/api/info_events): a function command, no store write.
InfoEvents(data) ==
    LET GetOr(k, d) == IF k \in DOMAIN data THEN data[k] ELSE d
        lid == Get(data, "loco_id")
    IN  IF lid.t = "null" THEN Reject
        ELSE Then(Done(store, <<>>),
                  SendCs2([loco_id |-> lid, function |-> GetOr("function", JInt(0)),
                           value |-> GetOr("value", JInt(1))],
                          <<"function", "value">>, C!FUNCTION, 6))

Handle(b) ==
    CASE b.handler = "stop"     -> StopButton(b.data)
      [] b.handler = "control"  -> ControlEvent(b.data)
      [] b.handler = "keyboard" -> KeyboardEvent(b.data)
      [] OTHER                  -> InfoEvents(b.data)

-----------------------------------------------------------------------------
Init ==
    /\ store  = [sys |-> C!Stopped, loco |-> <<>>, sw |-> [i \in SwIdx |-> 0]]
    /\ log    = <<>>
    /\ wire   = <<>>
    /\ phase  = "idle"
    /\ last   = [handler |-> "none", data |-> <<>>, status |-> "none"]
    /\ before = [store |-> store, nlog |-> 0]
    /\ after  = store
    /\ reqs   = 0

(* One request, handled to its response.  A "send" becomes "ok" (200)   *)
(* when sendto succeeds and "send_failed" (500) when it raises; the     *)
(* store is not rolled back.                                             *)
Request(b) ==
    /\ reqs < MaxReq
    /\ LET o == Handle(b)
       IN  \E sent \in IF o.status = "send" THEN BOOLEAN ELSE {FALSE} :
             /\ store'  = o.store
             /\ log'    = log \o o.events
             /\ wire'   = IF sent THEN o.frame ELSE <<>>
             /\ phase'  = IF sent THEN "sent" ELSE "idle"
             /\ last'   = [handler |-> b.handler, data |-> b.data,
                           status |-> CASE sent -> "ok"
                                        [] o.status = "send" -> "send_failed"
                                        [] OTHER -> o.status]
             /\ before' = [store |-> store, nlog |-> Len(log)]
             /\ after'  = o.store
             /\ reqs'   = reqs + 1

(* The CS2 answers the datagram with the response bit set.               *)
Answer(pkt) == C!IntToBytes(C!CanIdOf(pkt) | 65536, 4) \o SubSeq(pkt, 5, 13)

\* listen_cs2_udp: the set_* call for a routed datagram.
ApplyRouted(s, o) ==
    CASE o.call = "system"    -> SetSystemState(s, o.state)
      [] o.call = "speed"     -> SetLocoState(s, "speed", JInt(o.loco), Null, JInt(o.value))
      [] o.call = "direction" -> SetLocoState(s, "direction", JInt(o.loco), Null, JInt(o.value))
      [] o.call = "function"  -> SetLocoState(s, "function", JInt(o.loco), JInt(o.fn), JInt(o.value))
      [] o.call = "switch"    -> SetSwitchState(s, o.idx, o.value)
      [] OTHER                -> Done(s, <<>>)

Echo ==
    /\ phase = "sent"
    /\ LET r == ApplyRouted(store, C!Route(Answer(wire)))
       IN  /\ store' = r.store
           /\ log'   = log \o r.events
    /\ phase' = "echoed"
    /\ UNCHANGED <<wire, last, before, after, reqs>>

Next == (\E b \in Bodies : Request(b)) \/ Echo

Spec == Init /\ [][Next]_vars
-----------------------------------------------------------------------------
TypeOK ==
    /\ store.sys \in {C!Stopped, C!Running, C!Halted}
    /\ DOMAIN store.sw = SwIdx
    /\ phase \in {"idle", "sent", "echoed"}
    /\ (phase = "sent") => Len(wire) = 13
    /\ reqs \in 0..MaxReq

(* Spec section 7: a request answered 400 has changed no state and      *)
(* published no event.  The 400 comes from the handler's own checks, or  *)
(* from send_cs2_udp after the set_* call already ran; it relies on the *)
(* set_* call raising on every value send_cs2_udp's coercion rejects.   *)
(* (An uncaught exception, a 500, can leave writes behind: README.)      *)
BadRequestLeavesStore ==
    last.status = "bad_request"
        => store = before.store /\ Len(log) = before.nlog
=============================================================================
