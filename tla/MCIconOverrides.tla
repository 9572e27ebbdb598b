--------------------------- MODULE MCIconOverrides ---------------------------
(* IconOverrides for TLC: loco ids "1" and "10", the icons "e" and "dampf" *)
(* (json.dump writes them as 1, 2, 1 and 5 bytes), and a body int()      *)
(* rejects.                                                              *)
EXTENDS IconOverrides

CONSTANTS t1, t2

MCBodies ==
    { [loco_id |-> "1", icon |-> "dampf"],
      [loco_id |-> "1", icon |-> "e"],
      [loco_id |-> "10", icon |-> "e"],
      [loco_id |-> "bad", icon |-> "e"] }

MCUidLen(u) == IF u = "1" THEN 1 ELSE 2
MCIconLen(i) == IF i = "e" THEN 1 ELSE 5
=============================================================================
