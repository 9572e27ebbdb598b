----------------------------- MODULE Broadcast -----------------------------
(***************************************************************************)
(* What the event fan-out of server.py promises its subscribers (spec 4.3, *)
(* "EventBus"), with no queues: broadcasts form one append-only log; a     *)
(* subscriber joins at some point of it and is then handed the events      *)
(* broadcast after that point, one at a time and in log order.  The bus    *)
(* may drop a subscriber when it broadcasts (the backpressure policy); a   *)
(* dropped subscriber is handed at most the events broadcast before it was *)
(* dropped and never rejoins.  A connection may close at any time.         *)
(***************************************************************************)
EXTENDS Naturals, Sequences

CONSTANT Subs

VARIABLES log,    \* every event broadcast so far
          status, \* status[s]: "out", "in", "dropped" or "closed"
          from,   \* from[s]: Len(log) when s joined
          got,    \* got[s]: the events handed to s so far
          cut     \* cut[s]: Len(log) when s was dropped

vars == <<log, status, from, got, cut>>

Init ==
    /\ log = <<>>
    /\ status = [s \in Subs |-> "out"]
    /\ from = [s \in Subs |-> 0]
    /\ got = [s \in Subs |-> <<>>]
    /\ cut = [s \in Subs |-> 0]

Join(s) ==
    /\ status[s] = "out"
    /\ status' = [status EXCEPT ![s] = "in"]
    /\ from' = [from EXCEPT ![s] = Len(log)]
    /\ UNCHANGED <<log, got, cut>>

(* A broadcast of one event (whatever it is), dropping some subscribers. *)
Bcast(dropped) ==
    /\ \A s \in dropped : status[s] = "in"
    /\ Len(log') = Len(log) + 1 /\ SubSeq(log', 1, Len(log)) = log
    /\ status' = [s \in Subs |-> IF s \in dropped THEN "dropped" ELSE status[s]]
    /\ cut' = [s \in Subs |-> IF s \in dropped THEN Len(log) ELSE cut[s]]
    /\ UNCHANGED <<from, got>>

(* The next event of s's slice of the log.                               *)
Deliver(s) ==
    LET n == from[s] + Len(got[s])
    IN  /\ \/ status[s] = "in" /\ n < Len(log)
           \/ status[s] = "dropped" /\ n < cut[s]
        /\ got' = [got EXCEPT ![s] = Append(@, log[n + 1])]
        /\ UNCHANGED <<log, status, from, cut>>

(* Closing: s is handed nothing more.                                    *)
Close(s) ==
    /\ status[s] \in {"in", "dropped"}
    /\ status' = [status EXCEPT ![s] = "closed"]
    /\ cut' = [cut EXCEPT ![s] = from[s] + Len(got[s])]
    /\ UNCHANGED <<log, from, got>>

Next ==
    \/ \E s \in Subs : Join(s) \/ Deliver(s) \/ Close(s)
    \/ \E dropped \in SUBSET Subs : Bcast(dropped)

(* Safety only: nothing obliges a subscriber to read.                     *)
Spec == Init /\ [][Next]_vars
====
