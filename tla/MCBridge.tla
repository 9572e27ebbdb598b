------------------------------ MODULE MCBridge ------------------------------
(***************************************************************************)
(* Model-checking instances of Bridge: one mfx loco uid, one function,   *)
(* a switch list of NumSwitches entries, and CS2 datagrams built with the *)
(* Codec exactly as the device echoes the bridge's own commands (response *)
(* bit set), plus datagrams the listener must drop.                       *)
(***************************************************************************)
EXTENDS Bridge

CONSTANTS h1, h2, lst, wt, s1, s2

MCLoco == 16385          \* 0x4001, an mfx loco uid
MCLocos == {MCLoco}
MCFnIdx == {0}

\* A CS2 response: can id with the response bit, dlc and padded payload.
Response(cmd, payload, dlc) == C!Datagram(C!BuildCanId(0, cmd, 0, 1), payload, dlc)

SpeedFrame(v)   == Response(C!SPEED, C!PayloadSpeed(MCLoco, v), 6)
SystemFrame(on) == Response(C!SYSTEM, C!PayloadSystemState(0, on), 5)
SwitchFrame(i, v) == Response(C!SWITCH, C!PayloadSwitch(i, v), 6)

\* The bridge's own request echoed back (response bit 0), and a runt.
NoiseFrames ==
    { C!Datagram(C!BuildCanId(0, C!SPEED, 0, 0), C!PayloadSpeed(MCLoco, 7), 6),
      SubSeq(SpeedFrame(7), 1, 12) }

\* Two threads racing on one loco's speed.
SpeedCalls == {[call |-> "speed", loco |-> MCLoco, value |-> v] : v \in {5}}
SpeedFrames == {SpeedFrame(0)} \cup NoiseFrames

\* Datagrams the listener drops, and nothing else.
QuietFrames == NoiseFrames

\* stop_button racing the CS2's own STOP/GO status.
SystemCalls == {[call |-> "system", state |-> st] : st \in {C!Running, C!Stopped}}
SystemFrames == {SystemFrame(FALSE), SystemFrame(TRUE)}

\* One call of each store path, and datagrams for the rest.
MixedCalls ==
    {[call |-> "system", state |-> C!Running],
     [call |-> "function", loco |-> MCLoco, fn |-> 0, value |-> 1],
     [call |-> "switch", idx |-> 1, value |-> 1]}
MixedFrames == {SpeedFrame(0), SystemFrame(FALSE), SwitchFrame(0, 1)} \cup NoiseFrames
=============================================================================
