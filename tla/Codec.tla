------------------------------- MODULE Codec -------------------------------
(***************************************************************************)
(* The CS2 CAN-over-UDP frame codec of mswebapp/files/python/server.py:    *)
(* generate_hash, build_can_id, the _payload_* builders, _pad_to_8, the    *)
(* datagram assembly of _udp_send_frame, magnetartikel_uid, and the frame  *)
(* decoding and command routing at the top of listen_cs2_udp's loop.       *)
(* Datagrams are sequences of byte values; integers keep their width.     *)
(***************************************************************************)
EXTENDS Naturals, Integers, Sequences, Bitwise

\* Command and SystemSubCmd codes used by the bridge (class Command).
SYSTEM    == 0
SPEED     == 4
DIRECTION == 5
FUNCTION  == 6
SWITCH    == 11

\* SystemState as stored in the global system_state.
Stopped == "stopped"
Running == "running"
Halted  == "halted"

\* The listener's result for a datagram it discards.
NoOp == [call |-> "none"]

-----------------------------------------------------------------------------
(* Integer <-> big-endian bytes (int.to_bytes(k, 'big'), int.from_bytes). *)
IntToBytes(n, k) == [i \in 1..k |-> (n \div 2^(8 * (k - i))) % 256]

RECURSIVE BytesToInt(_)
BytesToInt(b) == IF b = <<>> THEN 0
                 ELSE BytesToInt(SubSeq(b, 1, Len(b) - 1)) * 256 + b[Len(b)]

\* generate_hash: XOR of the uid halves folded into the CS2 hash layout.
GenerateHash(uid) ==
    LET hi == (uid \div 2^16) % 2^16
        lo == uid % 2^16
        h  == hi ^^ lo
    IN  ((((h * 8) & 65280) | 768) | (h & 127)) & 65535

\* build_can_id(uid, command, prio, resp).
BuildCanId(uid, command, prio, resp) ==
    ((prio * 2^25) | (((command * 2) | (resp & 1)) * 2^16)) | GenerateHash(uid)

\* Mutant of _pad_to_8: the loop condition off by one.
PadTo7(b) == IF Len(b) >= 7 THEN b ELSE b \o [i \in 1..(7 - Len(b)) |-> 0]

\* _pad_to_8: append zero bytes up to length 8.
PadTo8(b) == IF Len(b) >= 8 THEN b ELSE b \o [i \in 1..(8 - Len(b)) |-> 0]

\* The _payload_* builders.
PayloadSystemState(uid, running) == IntToBytes(uid, 4) \o <<IF running THEN 1 ELSE 0>>
PayloadSpeed(uid, speed)         == IntToBytes(uid, 4) \o IntToBytes(speed, 2)
PayloadDirection(uid, direction) == IntToBytes(uid, 4) \o <<direction % 256>>
PayloadFunction(uid, fn, value)  == IntToBytes(uid, 4) \o <<fn % 256, value % 256>>
PayloadSwitch(uid, value)        == IntToBytes(uid, 4) \o <<value % 256, 1>>

\* _udp_send_frame: 4-byte CAN id, dlc byte, payload padded to 8 bytes.
Datagram(canId, payload, dlc) ==
    IntToBytes(canId, 4) \o <<dlc % 256>> \o PadTo8(payload)

\* magnetartikel_uid: accessory uid from catalog id and decoder type.
MagnetartikelUid(id, dectyp) ==
    LET low == (id - 1) % 1024
    IN  CASE dectyp = "mm2" -> 12288 + low
          [] dectyp = "dcc" -> 14336 + low
          [] dectyp = "sx1" -> 10240 + low
          [] OTHER          -> low

-----------------------------------------------------------------------------
(* Decoding in listen_cs2_udp.  For x >= 0, x & (2^k - 1) = x % 2^k.      *)
CanIdOf(pkt)   == BytesToInt(SubSeq(pkt, 1, 4))
DlcOf(pkt)     == pkt[5]
DataOf(pkt)    == SubSeq(pkt, 6, 13)
CmdRespOf(pkt) == (CanIdOf(pkt) \div 2^16) % 512
CommandOf(pkt) == (CmdRespOf(pkt) \div 2) % 256
RespBitOf(pkt) == CmdRespOf(pkt) % 2

SubToState == <<Stopped, Running, Halted>>   \* sub-code 0, 1, 2

(* The set_* call the listener makes for a datagram, or NoOp when it     *)
(* drops it (wrong length, request direction, short dlc, other command). *)
Route(pkt) ==
    IF Len(pkt) # 13 \/ RespBitOf(pkt) # 1 THEN NoOp
    ELSE
    LET cmd == CommandOf(pkt)
        dlc == DlcOf(pkt)
        d   == DataOf(pkt)
        uid == BytesToInt(SubSeq(d, 1, 4))
    IN CASE cmd = SYSTEM /\ dlc >= 5 ->
              IF d[5] \in 0..2 THEN [call |-> "system", state |-> SubToState[d[5] + 1]]
              ELSE NoOp
         [] cmd = SPEED /\ dlc >= 6 ->
              [call |-> "speed", loco |-> uid, value |-> d[5] * 256 + d[6]]
         [] cmd = DIRECTION /\ dlc >= 5 ->
              [call |-> "direction", loco |-> uid, value |-> d[5]]
         [] cmd = FUNCTION /\ dlc >= 5 ->
              [call |-> "function", loco |-> uid, fn |-> d[5],
               value |-> IF dlc >= 6 THEN d[6] ELSE 1]
         [] cmd = SWITCH /\ dlc >= 6 ->
              [call |-> "switch", idx |-> d[4], value |-> d[5]]
         [] OTHER -> NoOp
=============================================================================
