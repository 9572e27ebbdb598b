------------------------------ MODULE EventBus ------------------------------
(***************************************************************************)
(* The server-sent-event fan-out of mswebapp/files/python/server.py: the   *)
(* global set `subscribers` guarded by `subs_lock`, one                    *)
(* queue.Queue(maxsize=1000) per open /api/events connection,              *)
(* publish_event, and the registering, consuming and closing parts of      *)
(* sse_events and its stream() generator.  The catch-up burst stream()     *)
(* sends first reads the state store and is modelled in Bridge; here a     *)
(* stream goes from "pending" to "live" directly.                          *)
(***************************************************************************)
EXTENDS Naturals, Sequences, SequencesExt

CONSTANTS Subs,        \* one element per /api/events connection
          QCap,        \* the queue bound, Queue(maxsize=1000)
          Events,      \* events the standalone producers publish
          MaxPublish   \* bound on publish_event calls (bounds log)

ASSUME QCap \in Nat \ {0} /\ MaxPublish \in Nat

VARIABLES subscribers, \* the set `subscribers`
          q,           \* q[s]: contents of connection s's queue
          stream,      \* stream[s]: where connection s's generator is
          gone,        \* connections whose browser has disconnected
          recv,        \* history: data stream() has yielded to s
          log,         \* history: every event publish_event broadcast
          joined       \* history: Len(log) when s was registered

busVars == <<subscribers, q, stream, gone, recv, log, joined>>

(* Catch-up entries carry snap = TRUE, published ones snap = FALSE.      *)
IsLive(e) == ~e.snap

BusInit ==
    /\ subscribers = {}
    /\ q      = [s \in Subs |-> <<>>]
    /\ stream = [s \in Subs |-> "none"]
    /\ gone   = {}
    /\ recv   = [s \in Subs |-> <<>>]
    /\ log    = <<>>
    /\ joined = [s \in Subs |-> 0]

-----------------------------------------------------------------------------
(* sse_events: a new queue is added to `subscribers` under subs_lock;    *)
(* the generator has not run yet.                                        *)
Connect(s) ==
    /\ stream[s] = "none"
    /\ subscribers' = subscribers \cup {s}
    /\ q'      = [q EXCEPT ![s] = <<>>]
    /\ stream' = [stream EXCEPT ![s] = "pending"]
    /\ joined' = [joined EXCEPT ![s] = Len(log)]
    /\ UNCHANGED <<gone, recv, log>>

\* Mutant: a queue counts as full only beyond its bound.
DeadPastBound == {s \in subscribers : Len(q[s]) > QCap}

(* The queues publish_event leaves out: put_nowait raises queue.Full.    *)
Dead == {s \in subscribers : Len(q[s]) >= QCap}

(* Mutants of publish_event: a blocking q.put(), and a loop that skips   *)
(* full queues without discarding them.                                  *)
BlockingPublish(e) ==
    /\ \A s \in subscribers : Len(q[s]) < QCap
    /\ q' = [s \in Subs |-> IF s \in subscribers THEN Append(q[s], e) ELSE q[s]]
    /\ UNCHANGED subscribers
    /\ log' = Append(log, e)

PublishKeepingFull(e) ==
    /\ q' = [s \in Subs |-> IF s \in subscribers \ Dead THEN Append(q[s], e) ELSE q[s]]
    /\ UNCHANGED subscribers
    /\ log' = Append(log, e)

(* publish_event: under subs_lock, put_nowait into every subscriber's    *)
(* queue; those that are full are collected and discarded.               *)
Publish(e) ==
    /\ q' = [s \in Subs |-> IF s \in subscribers \ Dead
                            THEN Append(q[s], e) ELSE q[s]]
    /\ subscribers' = subscribers \ Dead
    /\ log' = Append(log, e)

(* stream(): put_nowait into its own queue, which succeeds iff not full. *)
Put(s, e) == q' = [q EXCEPT ![s] = IF Len(@) < QCap THEN Append(@, e) ELSE @]

(* stream()'s loop: q.get() then yield.  The yield to a browser that has *)
(* gone raises GeneratorExit, and the finally clause discards the queue. *)
Consume(s) ==
    /\ stream[s] = "live"
    /\ q[s] # <<>>
    /\ q' = [q EXCEPT ![s] = Tail(@)]
    /\ IF s \in gone
       THEN /\ subscribers' = subscribers \ {s}
            /\ stream' = [stream EXCEPT ![s] = "closed"]
            /\ UNCHANGED recv
       ELSE /\ recv' = [recv EXCEPT ![s] = Append(@, Head(q[s]))]
            /\ UNCHANGED <<subscribers, stream>>
    /\ UNCHANGED <<gone, log, joined>>

(* The browser closes the connection; the server notices at the next     *)
(* yield only.                                                           *)
Leave(s) ==
    /\ stream[s] \notin {"none", "closed"}
    /\ s \notin gone
    /\ gone' = gone \cup {s}
    /\ UNCHANGED <<subscribers, q, stream, recv, log, joined>>

-----------------------------------------------------------------------------
(* Standalone bus: producers publish events of Events atomically.        *)
StartLive(s) ==
    /\ stream[s] = "pending"
    /\ stream' = [stream EXCEPT ![s] = "live"]
    /\ UNCHANGED <<subscribers, q, gone, recv, log, joined>>

BusNext ==
    \/ \E s \in Subs : Connect(s) \/ StartLive(s) \/ Consume(s) \/ Leave(s)
    \/ \E e \in Events : Len(log) < MaxPublish /\ Publish(e) /\ UNCHANGED <<stream, gone, recv, joined>>

BusSpec == BusInit /\ [][BusNext]_busVars

-----------------------------------------------------------------------------
BusTypeOK ==
    /\ subscribers \subseteq Subs
    /\ \A s \in Subs : Len(q[s]) <= QCap
    /\ gone \subseteq Subs

(* Per-subscriber order (publish_event enqueues to every queue under one *)
(* subs_lock hold, and discards a full queue for good): the published    *)
(* events a connection has received or still holds are exactly the       *)
(* events broadcast since it registered, in broadcast order, with no gap *)
(* or repeat; once discarded, they are a prefix of them.                 *)
StreamIsLogSlice ==
    \A s \in Subs : stream[s] \notin {"none", "closed"} =>
        LET got  == SelectSeq(recv[s] \o q[s], IsLive)
            sent == SubSeq(log, joined[s] + 1, Len(log))
        IN  IF s \in subscribers THEN got = sent ELSE IsPrefix(got, sent)

-----------------------------------------------------------------------------
(* Refinement: the queues and generators implement Broadcast.  A stream   *)
(* from Connect until it closes is a subscriber, "in" while registered    *)
(* and "dropped" once publish_event discarded it; what its browser got is *)
(* the published events it yielded; a dropped one can still get what its  *)
(* queue held when it was discarded.                                      *)
LiveIn(s, seq) == Len(SelectSeq(seq, IsLive))

AbsStatus(s) ==
    CASE stream[s] = "none"   -> "out"
      [] stream[s] = "closed" -> "closed"
      [] s \in subscribers    -> "in"
      [] OTHER                -> "dropped"

AbsCut(s) ==
    CASE AbsStatus(s) = "closed"  -> joined[s] + LiveIn(s, recv[s])
      [] AbsStatus(s) = "dropped" -> joined[s] + LiveIn(s, recv[s] \o q[s])
      [] OTHER                    -> 0

Abstract == INSTANCE Broadcast
              WITH status <- [s \in Subs |-> AbsStatus(s)],
                   from   <- joined,
                   got    <- [s \in Subs |-> SelectSeq(recv[s], IsLive)],
                   cut    <- [s \in Subs |-> AbsCut(s)]

(* Spec 4.3: the fan-out is a broadcast: each connection is handed the    *)
(* events broadcast since it registered, one at a time and in order, and *)
(* one publish_event discarded gets nothing broadcast after that.         *)
BroadcastSpec == Abstract!Spec
=============================================================================
