------------------------------- MODULE Bridge -------------------------------
(***************************************************************************)
(* The state store of mswebapp/files/python/server.py and the threads that *)
(* write and read it concurrently:                                         *)
(*  - HTTP worker threads (Flask threaded=True) running stop_button,       *)
(*    control_event and keyboard_event, i.e. set_system_state,             *)
(*    set_loco_state_{speed,direction,function} and set_switch_state;      *)
(*  - the listen_cs2_udp thread, which routes CS2 response datagrams to    *)
(*    the same set_* calls;                                                *)
(*  - one stream() generator per /api/events connection, which sends a     *)
(*    catch-up burst read from the store and then consumes its queue.      *)
(* The fan-out itself is the EventBus module.  Every set_* call commits    *)
(* first (under loc_data_lock for loco data, unguarded for the system      *)
(* state and the switch list) and calls publish_event afterwards, as the   *)
(* code does.  Sending the UDP frame ends a handler and touches no state   *)
(* modelled here; its bytes are the Codec module's.                        *)
(***************************************************************************)
EXTENDS Naturals, Integers, Sequences, SequencesExt, FiniteSets, TLC

CONSTANTS Handlers,    \* HTTP worker threads
          Listener,    \* the listen_cs2_udp thread
          Watcher,     \* the _watch_lokomotive thread
          Subs, QCap,  \* /api/events connections and the queue bound
          Locos,       \* loco uids the model uses
          Catalog,     \* uids pre-initialised from lokomotive.cs2
          FnIdx,       \* function numbers the model uses
          NumSwitches, \* len(switch_state) (64 in the code)
          HttpCalls,   \* set_* calls the HTTP handlers make
          Frames,      \* datagrams the CS2 may send to the listener
          MaxOps,      \* bound on requests plus datagrams handled
          MaxReloads   \* bound on catalog reloads

ASSUME /\ Catalog \subseteq Locos
       /\ Listener \notin Handlers /\ Watcher \notin Handlers \cup {Listener}
       /\ NumSwitches \in Nat \ {0}
       /\ MaxOps \in Nat

VARIABLES sysState,    \* system_state
          locoState,   \* loco_state: uid -> [speed, direction, functions]
          switchState, \* switch_state: index -> value
          pc,          \* pc[t]: the step thread t is at
          op,          \* op[t]: the set_* call thread t is executing
          ev,          \* ev[t]: the event thread t is about to publish
          snap,        \* snap[s]: loco_items not yet read, uid -> record reference
          item,        \* item[s]: the loco item stream() is in, or Null
          buf,         \* buf[s]: the catch-up events read, not yet put
          lost,        \* history: a catch-up put_nowait of s raised queue.Full
          cur,         \* cur[s]: stream()'s index into switch_state
          ops,         \* requests and datagrams handled so far
          reloads,     \* catalog reloads so far
          subscribers, q, stream, gone, recv, log, joined

Bus == INSTANCE EventBus WITH Events <- {}, MaxPublish <- MaxOps
C   == INSTANCE Codec

storeVars == <<sysState, locoState, switchState>>
threadVars == <<pc, op, ev, ops, reloads>>
busVars == <<subscribers, q, stream, gone, recv, log, joined>>
burstVars == <<snap, item, buf, cur, lost>>
vars == <<storeVars, threadVars, burstVars, busVars>>

Threads == Handlers \cup {Listener, Watcher}
SwIdx   == 0..(NumSwitches - 1)
Null    == [call |-> "none"]

-----------------------------------------------------------------------------
(* Records and events.                                                   *)
NewLoco == [speed |-> 0, direction |-> 1, functions |-> [f \in {} |-> FALSE]]

\* _ensure_loco_state: create the record lazily.
EnsureLoco(ls, u) == IF u \in DOMAIN ls THEN ls ELSE (u :> NewLoco) @@ ls

Event(type, key, value, isSnap) ==
    [type |-> type, key |-> key, value |-> value, snap |-> isSnap]

\* status = 1 if system_state == SystemState.RUNNING else 0
RunFlag(st) == IF st = C!Running THEN 1 ELSE 0

\* The store change and the event of a set_loco_state_* call.
LocoCommit(o) ==
    LET ls == EnsureLoco(locoState, o.loco)
    IN  CASE o.call = "speed"     -> [ls EXCEPT ![o.loco].speed = o.value]
          [] o.call = "direction" -> [ls EXCEPT ![o.loco].direction = o.value]
          [] o.call = "function"  ->
               [ls EXCEPT ![o.loco].functions = (o.fn :> (o.value # 0)) @@ @]

LocoEvent(o) ==
    IF o.call = "function" THEN Event("function", <<o.loco, o.fn>>, o.value, FALSE)
    ELSE Event(o.call, o.loco, o.value, FALSE)

LocoCalls == {"speed", "direction", "function"}

-----------------------------------------------------------------------------
Init ==
    /\ sysState    = C!Stopped
    /\ locoState   = [u \in Catalog |-> NewLoco]
    /\ switchState = [i \in SwIdx |-> 0]
    /\ pc   = [t \in Threads |-> "idle"]
    /\ op   = [t \in Threads |-> Null]
    /\ ev   = [t \in Threads |-> Null]
    /\ snap = [s \in Subs |-> <<>>]
    /\ item = [s \in Subs |-> Null]
    /\ buf  = [s \in Subs |-> <<>>]
    /\ lost = [s \in Subs |-> FALSE]
    /\ cur  = [s \in Subs |-> 0]
    /\ ops  = 0
    /\ reloads = 0
    /\ Bus!BusInit

(* A thread takes the next request or datagram.                          *)
Accept(t) == pc[t] = "idle" /\ ops < MaxOps /\ ops' = ops + 1

\* Inputs: an HTTP handler's set_* call, the listener's routed datagram.
Calls(t) == CASE t = Listener -> {C!Route(f) : f \in Frames}
             [] t = Watcher  -> {}
             [] OTHER        -> HttpCalls

(* set_system_state, first line: compare with the current state.         *)
SysCheck(t, o) ==
    /\ Accept(t)
    /\ o.call = "system"
    /\ IF sysState # o.state
       THEN pc' = [pc EXCEPT ![t] = "sys_write"] /\ op' = [op EXCEPT ![t] = o]
       ELSE UNCHANGED <<pc, op>>
    /\ UNCHANGED <<storeVars, ev, burstVars, reloads, busVars>>

(* system_state = new_state (no lock is held).                          *)
SysWrite(t) ==
    /\ pc[t] = "sys_write"
    /\ sysState' = op[t].state
    /\ pc' = [pc EXCEPT ![t] = "sys_status"]
    /\ op' = [op EXCEPT ![t] = Null]
    /\ UNCHANGED <<locoState, switchState, ev, ops, burstVars, reloads, busVars>>

(* state_wif reads the global system_state again.                        *)
SysStatus(t) ==
    /\ pc[t] = "sys_status"
    /\ ev' = [ev EXCEPT ![t] = Event("system", "-", RunFlag(sysState), FALSE)]
    /\ pc' = [pc EXCEPT ![t] = "publish"]
    /\ UNCHANGED <<storeVars, op, ops, burstVars, reloads, busVars>>

(* set_loco_state_*: ensure and write under loc_data_lock.               *)
LocoWrite(t, o) ==
    /\ Accept(t)
    /\ o.call \in LocoCalls
    /\ locoState' = LocoCommit(o)
    /\ ev' = [ev EXCEPT ![t] = LocoEvent(o)]
    /\ pc' = [pc EXCEPT ![t] = "publish"]
    /\ UNCHANGED <<sysState, switchState, op, burstVars, reloads, busVars>>

(* set_switch_state: write if 0 <= idx < 64 (no lock is held).           *)
SwitchWrite(t, o) ==
    /\ Accept(t)
    /\ o.call = "switch"
    /\ IF o.idx \in SwIdx
       THEN /\ switchState' = [switchState EXCEPT ![o.idx] = o.value]
            /\ ev' = [ev EXCEPT ![t] = Event("switch", o.idx, o.value, FALSE)]
            /\ pc' = [pc EXCEPT ![t] = "publish"]
       ELSE UNCHANGED <<switchState, ev, pc>>
    /\ UNCHANGED <<sysState, locoState, op, burstVars, reloads, busVars>>

(* The listener drops a datagram it does not route.                      *)
Discard(t, o) ==
    /\ Accept(t)
    /\ o.call = "none"
    /\ UNCHANGED <<storeVars, pc, op, ev, burstVars, reloads, busVars>>

(* The publish_event call that ends every set_* call that changed state. *)
PublishStep(t) ==
    /\ pc[t] = "publish"
    /\ Bus!Publish(ev[t])
    /\ pc' = [pc EXCEPT ![t] = IF t = Watcher /\ ev[t].type = "system"
                               THEN "reload_list" ELSE "idle"]
    /\ ev' = [ev EXCEPT ![t] = Null]
    /\ UNCHANGED <<storeVars, op, ops, burstVars, reloads, stream, gone, recv, joined>>

-----------------------------------------------------------------------------
(* _watch_lokomotive after a change of lokomotive.cs2 to a catalog with  *)
(* the same locos (say, a renamed one): under loc_data_lock, a new record *)
(* dict for every catalog uid with the old values copied; then publish   *)
(* the system status (read unlocked) and loco_list_reloaded.  Every dict *)
(* a catch-up burst holds from list(loco_state.items()) is now an orphan *)
(* that no later write reaches: its reference freezes to its values.     *)
\* A reference: <<>> for the dict loco_state holds, <<rec>> for an orphan.
Live == <<>>

\* The dict a reference of the burst denotes.
Deref(u, r) == IF r = Live THEN locoState[u] ELSE r[1]

\* What the reload makes of a reference.
Freeze(u, r) == IF r = Live THEN <<locoState[u]>> ELSE r

Reload(t) ==
    /\ t = Watcher /\ pc[t] = "idle" /\ reloads < MaxReloads
    /\ reloads' = reloads + 1
    /\ locoState' = [u \in Catalog |-> IF u \in DOMAIN locoState THEN locoState[u] ELSE NewLoco]
    /\ snap' = [s \in Subs |-> [u \in DOMAIN snap[s] |-> Freeze(u, snap[s][u])]]
    /\ item' = [s \in Subs |-> IF item[s] = Null THEN Null
                               ELSE [item[s] EXCEPT !.ref = Freeze(item[s].uid, @)]]
    /\ pc' = [pc EXCEPT ![t] = "reload_status"]
    /\ UNCHANGED <<sysState, switchState, op, ev, ops, buf, cur, lost, busVars>>

ReloadStatus(t) ==
    /\ pc[t] = "reload_status"
    /\ ev' = [ev EXCEPT ![t] = Event("system", "-", RunFlag(sysState), FALSE)]
    /\ pc' = [pc EXCEPT ![t] = "publish"]
    /\ UNCHANGED <<storeVars, op, ops, reloads, burstVars, busVars>>

ReloadList(t) ==
    /\ pc[t] = "reload_list"
    /\ ev' = [ev EXCEPT ![t] = Event("loco_list_reloaded", "-", 0, FALSE)]
    /\ pc' = [pc EXCEPT ![t] = "publish"]
    /\ UNCHANGED <<storeVars, op, ops, reloads, burstVars, busVars>>

-----------------------------------------------------------------------------
(* stream(): the catch-up burst, then the q.get() loop of EventBus.      *)
(* Each item is read and put_nowait in a later step: the status; per     *)
(* loco of the snapshot, speed and direction, then each entry of the     *)
(* live functions dict; each switch_state entry.                         *)
\* Mutant: the burst's puts do not respect the queue bound.
PutAllIgnoringFull(s, es) == q' = [q EXCEPT ![s] = @ \o es]

(* A put_nowait that raises queue.Full leaves the queue as it is.        *)
PutAll(s, es) ==
    q' = [q EXCEPT ![s] = @ \o SubSeq(es, 1, Min({Len(es), QCap - Len(@)}))]

BurstVars == <<storeVars, threadVars, subscribers, gone, recv, log, joined>>

\* Read one item into buf[s] and move to the stage that puts it.
Read(s, es, next) ==
    /\ buf' = [buf EXCEPT ![s] = es]
    /\ stream' = [stream EXCEPT ![s] = next]

\* The stage after a loco item: the next loco, or the switches.
NextLoco(s, rest) == IF DOMAIN rest = {} THEN "switches" ELSE "locos"

(* status = 1 if system_state == RUNNING else 0 (no lock).               *)
CatchSystem(s) ==
    /\ stream[s] = "pending"
    /\ Read(s, <<Event("system", "-", RunFlag(sysState), TRUE)>>, "sys_put")
    /\ UNCHANGED <<BurstVars, q, snap, item, cur, lost>>

(* loco_items = list(loco_state.items()) under loc_data_lock.           *)
CatchSnapshot(s) ==
    /\ stream[s] = "snapshot"
    /\ snap' = [snap EXCEPT ![s] = [u \in DOMAIN locoState |-> Live]]
    /\ stream' = [stream EXCEPT ![s] = NextLoco(s, locoState)]
    /\ UNCHANGED <<BurstVars, q, buf, item, cur, lost>>

(* spd, dirv of the record the snapshot holds for u.                     *)
CatchLoco(s, u) ==
    /\ stream[s] = "locos"
    /\ u \in DOMAIN snap[s]
    /\ LET st == Deref(u, snap[s][u])
       IN  Read(s, <<Event("speed", u, st.speed, TRUE),
                     Event("direction", u, st.direction, TRUE)>>, "loco_put")
    /\ item' = [item EXCEPT ![s] = [uid |-> u, ref |-> snap[s][u], size |-> 0, seen |-> {}]]
    /\ snap' = [snap EXCEPT ![s] = [v \in DOMAIN @ \ {u} |-> @[v]]]
    /\ UNCHANGED <<BurstVars, q, cur, lost>>

(* for fn_idx, active in fnmap.items(): the iterator raises RuntimeError *)
(* once the dict has changed size, and the loco's except clause moves on *)
(* to the next loco; otherwise it yields an entry not yielded yet (in    *)
(* insertion order, which the model leaves open).                        *)
CatchFn(s) ==
    /\ stream[s] = "fns"
    /\ LET it == item[s]
           fns == Deref(it.uid, it.ref).functions
       IN  IF Cardinality(DOMAIN fns) # it.size \/ DOMAIN fns \subseteq it.seen
           THEN /\ stream' = [stream EXCEPT ![s] = NextLoco(s, snap[s])]
                /\ item' = [item EXCEPT ![s] = Null]
                /\ UNCHANGED buf
           ELSE \E f \in DOMAIN fns \ it.seen :
                  /\ Read(s, <<Event("function", <<it.uid, f>>, IF fns[f] THEN 1 ELSE 0, TRUE)>>, "fn_put")
                  /\ item' = [item EXCEPT ![s].seen = @ \cup {f}]
    /\ UNCHANGED <<BurstVars, q, snap, cur, lost>>

(* enumerate(switch_state): the value at index cur[s].                  *)
CatchSwitch(s) ==
    /\ stream[s] = "switches"
    /\ Read(s, <<Event("switch", cur[s], switchState[cur[s]], TRUE)>>, "switch_put")
    /\ UNCHANGED <<BurstVars, q, snap, item, cur, lost>>

(* The put_nowait calls of the item read.  queue.Full on the status     *)
(* skips the whole burst; on speed or direction, the rest of the loco;   *)
(* on a function, only that entry; on a switch it ends the loop (the     *)
(* fallback fails on the list and passes).  After a loco's direction,   *)
(* fnmap.items() starts iterating over the dict's current entries.      *)
BurstPut(s) ==
    /\ stream[s] \in {"sys_put", "loco_put", "fn_put", "switch_put"}
    /\ PutAll(s, buf[s])
    /\ buf' = [buf EXCEPT ![s] = <<>>]
    /\ lost' = [lost EXCEPT ![s] = @ \/ Len(q[s]) + Len(buf[s]) > QCap]
    /\ LET fits == Len(q[s]) + Len(buf[s]) <= QCap
           st   == stream[s]
           it   == item[s]
       IN  /\ stream' = [stream EXCEPT ![s] =
                 CASE st = "sys_put"  -> IF fits THEN "snapshot" ELSE "live"
                   [] st = "loco_put" -> IF fits THEN "fns" ELSE NextLoco(s, snap[s])
                   [] st = "fn_put"   -> "fns"
                   [] OTHER -> IF fits /\ cur[s] + 1 < NumSwitches THEN "switches" ELSE "live"]
           /\ item' = [item EXCEPT ![s] =
                 CASE st = "loco_put" /\ fits ->
                        [it EXCEPT !.size = Cardinality(DOMAIN Deref(it.uid, it.ref).functions)]
                   [] st \in {"loco_put", "sys_put"} -> Null
                   [] OTHER -> it]
           /\ cur' = [cur EXCEPT ![s] =
                 IF st = "switch_put" /\ fits /\ @ + 1 < NumSwitches THEN @ + 1 ELSE 0]
    /\ UNCHANGED <<BurstVars, snap>>

StreamStep(s) ==
    \/ CatchSystem(s) \/ CatchSnapshot(s) \/ CatchFn(s) \/ CatchSwitch(s) \/ BurstPut(s)
    \/ \E u \in Locos : CatchLoco(s, u)

-----------------------------------------------------------------------------
ThreadStep(t) == SysWrite(t) \/ SysStatus(t) \/ PublishStep(t) \/ ReloadStatus(t) \/ ReloadList(t)

Next ==
    \/ \E t \in Threads : \E o \in Calls(t) :
          SysCheck(t, o) \/ LocoWrite(t, o) \/ SwitchWrite(t, o) \/ Discard(t, o)
    \/ \E t \in Threads : ThreadStep(t)
    \/ Reload(Watcher)
    \/ \E s \in Subs :
          \/ Bus!Connect(s) /\ UNCHANGED <<storeVars, threadVars, burstVars>>
          \/ StreamStep(s)
          \/ Bus!Consume(s) /\ UNCHANGED <<storeVars, threadVars, burstVars>>
          \/ Bus!Leave(s) /\ UNCHANGED <<storeVars, threadVars, burstVars>>

(* Python threads that can run are eventually scheduled: a thread in the *)
(* middle of a set_* call and a generator in its catch-up burst finish   *)
(* it.  Requests, datagrams and browsers reading their stream get no     *)
(* fairness: a consumer may be arbitrarily slow.                         *)
Fairness ==
    /\ \A t \in Threads : WF_vars(ThreadStep(t))
    /\ \A s \in Subs : WF_vars(StreamStep(s))

Spec == Init /\ [][Next]_vars /\ Fairness

(* Browsers that keep reading their stream.                              *)
FairConsumerSpec == Spec /\ \A s \in Subs : WF_vars(Bus!Consume(s) /\ UNCHANGED <<storeVars, threadVars, burstVars>>)

-----------------------------------------------------------------------------
(* What a browser shows: the events it received applied in order, each   *)
(* overwriting the entry it names.                                       *)
LocoFns == Locos \X FnIdx

InitView == [sys |-> 0, speed |-> [u \in Locos |-> 0], direction |-> [u \in Locos |-> 1],
             fn |-> [k \in LocoFns |-> FALSE], sw |-> [i \in SwIdx |-> 0]]

Apply(v, e) ==
    CASE e.type = "system"    -> [v EXCEPT !.sys = e.value]
      [] e.type = "speed"     -> [v EXCEPT !.speed[e.key] = e.value]
      [] e.type = "direction" -> [v EXCEPT !.direction[e.key] = e.value]
      [] e.type = "function"  -> [v EXCEPT !.fn[e.key] = (e.value # 0)]
      [] e.type = "switch"    -> [v EXCEPT !.sw[e.key] = e.value]
      [] OTHER                -> v

ViewOf(s) == FoldLeft(Apply, InitView, recv[s])

(* The store, as a browser would show it.                                *)
Shown ==
    LET has(u) == u \in DOMAIN locoState
    IN [sys |-> RunFlag(sysState),
        speed |-> [u \in Locos |-> IF has(u) THEN locoState[u].speed ELSE 0],
        direction |-> [u \in Locos |-> IF has(u) THEN locoState[u].direction ELSE 1],
        fn |-> [k \in LocoFns |-> has(k[1]) /\ k[2] \in DOMAIN locoState[k[1]].functions
                                 /\ locoState[k[1]].functions[k[2]]],
        sw |-> switchState]

TypeOK ==
    /\ sysState \in {C!Stopped, C!Running, C!Halted}
    /\ DOMAIN locoState \subseteq Locos
    /\ switchState \in [SwIdx -> Nat]
    /\ pc \in [Threads -> {"idle", "sys_write", "sys_status", "publish",
                           "reload_status", "reload_list"}]
    /\ stream \in [Subs -> {"none", "pending", "sys_put", "snapshot", "locos", "loco_put",
                            "fns", "fn_put", "switches", "switch_put", "live", "closed"}]
    /\ ops \in 0..MaxOps /\ reloads \in 0..MaxReloads
    /\ Bus!BusTypeOK

(* A quiet moment for connection s: no set_* call is under way, s is    *)
(* registered, its browser is there, and it has read everything queued. *)
Settled(s) ==
    /\ \A t \in Threads : pc[t] = "idle"
    /\ stream[s] = "live" /\ s \in subscribers /\ s \notin gone /\ q[s] = <<>>

(* Spec 3: "the published event for a given state change always reflects *)
(* the value actually stored" and 4.3: a subscriber "reconstructs full    *)
(* state without polling".  Whenever it has settled, a subscribed browser *)
(* shows what the store holds.                                           *)
ViewConsistent == \A s \in Subs : Settled(s) => ViewOf(s) = Shown

(* Spec 3: "no publish-before-commit or commit-without-publish", and a   *)
(* store change and its publish are not separated by an observable      *)
(* point.  Whenever no set_* call is under way, the broadcast events,    *)
(* applied in broadcast order, give what the store holds.                *)
PublishedMatchesStore ==
    (\A t \in Threads : pc[t] = "idle") => FoldLeft(Apply, InitView, log) = Shown

(* Spec 3: a subscriber is destroyed when its channel fills.  A stream   *)
(* whose queue publish_event discarded as full ends, once its browser    *)
(* has read what the queue held.                                         *)
EvictedStreamCloses ==
    \A s \in Subs : (stream[s] = "live" /\ s \notin subscribers) ~> stream[s] = "closed"

(* Spec 4.3: catch-up messages "are subject to the same backpressure-drop *)
(* policy" as live ones, under which a subscriber whose enqueue fails is *)
(* unregistered.  A connection that lost part of its catch-up burst to  *)
(* queue.Full is no longer registered.                                   *)
CatchUpLossDropsSubscriber == \A s \in Subs : lost[s] => s \notin subscribers

(* publish_event never waits for a slow reader (put_nowait, then drop):  *)
(* every set_* call a thread has started returns, whether or not any     *)
(* browser ever reads its stream.                                        *)
ProducersNeverBlock == \A t \in Threads : pc[t] # "idle" ~> pc[t] = "idle"

(* The fan-out keeps broadcast order per connection across all threads. *)
StreamIsLogSlice == Bus!StreamIsLogSlice

(* Spec 4.3: with every writer thread and the catch-up burst, the fan-out *)
(* still implements Broadcast (EventBus's refinement mapping).            *)
ImplementsBroadcast == Bus!BroadcastSpec
=============================================================================
