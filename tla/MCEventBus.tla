----------------------------- MODULE MCEventBus -----------------------------
(***************************************************************************)
(* The bus on its own: several /api/events connections and two distinct  *)
(* published events, with queues small enough that one connection falls *)
(* behind and is discarded while the others keep receiving.               *)
(***************************************************************************)
EXTENDS EventBus

CONSTANTS s1, s2, s3

MCEvents == {[type |-> t, snap |-> FALSE] : t \in {"speed", "switch"}}
=============================================================================
