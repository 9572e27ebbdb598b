---------------------------- MODULE IconOverrides ----------------------------
(***************************************************************************)
(* The persistent icon overrides of server.py: the global dict            *)
(* icon_overrides, POST /api/loco_icon (api_set_loco_icon) on concurrent   *)
(* HTTP threads, _save_overrides, which writes path + '.tmp' and then      *)
(* os.replace()s it onto mswebapp_overrides.json, and _load_overrides at   *)
(* startup.  The file system is names (the file and its .tmp) bound to    *)
(* inodes; an open file has its own offset, so a write lands at offset 0  *)
(* of whatever inode it was opened on.  The process may be restarted at   *)
(* any point: threads vanish, the disk stays, icon_overrides is reloaded. *)
(***************************************************************************)
EXTENDS Naturals, FiniteSets, FiniteSetsExt, Functions, TLC

CONSTANTS Threads,     \* Flask worker threads
          Bodies,      \* request bodies: [loco_id, icon], "bad" or "" for missing
          UidLen(_),   \* len(str(uid)) of a loco id
          IconLen(_),  \* length in bytes of an icon name
          MaxReqs, MaxRestarts

VARIABLES mem,      \* icon_overrides: uid -> icon
          names,    \* [path, tmp]: the inode each name is bound to, 0 if none
          inode,    \* inode -> [ok, map, len]: the JSON it holds, or not JSON
          pc, fd, out, req,
          acked,    \* history: uid -> the icon last answered ok, until a newer request
          reqs, restarts

vars == <<mem, names, inode, pc, fd, out, req, acked, reqs, restarts>>

NoMap == [u \in {} |-> ""]
Blank == [ok |-> FALSE, map |-> NoMap, len |-> 0]

(* json.dump({'icon_overrides': m}, separators=(',', ':')): the bytes.   *)
JsonLen(m) ==
    21 + MapThenSumSet(LAMBDA u : UidLen(u) + IconLen(m[u]) + 5, DOMAIN m)
       + (IF DOMAIN m = {} THEN 0 ELSE Cardinality(DOMAIN m) - 1)

(* A write of m's JSON at offset 0 over the inode's bytes: shorter than   *)
(* what is there, it leaves a tail that json.load rejects.               *)
Overlay(c, m) ==
    IF JsonLen(m) >= c.len THEN [ok |-> TRUE, map |-> m, len |-> JsonLen(m)]
    ELSE [c EXCEPT !.ok = FALSE]

(* _load_overrides: the file's map, or {} if it is missing or not JSON.  *)
Load == IF names.path # 0 /\ inode[names.path].ok THEN inode[names.path].map ELSE NoMap

Inodes == DOMAIN inode

Init ==
    /\ mem = NoMap
    /\ names = [path |-> 0, tmp |-> 0]
    /\ inode = [i \in {} |-> Blank]
    /\ pc = [t \in Threads |-> "idle"]
    /\ fd = [t \in Threads |-> 0]
    /\ out = [t \in Threads |-> NoMap]
    /\ req = [t \in Threads |-> [loco_id |-> "", icon |-> ""]]
    /\ acked = NoMap
    /\ reqs = 0 /\ restarts = 0

-----------------------------------------------------------------------------
(* api_set_loco_icon: a missing field or a loco_id int() rejects is a 400 *)
(* with nothing changed; otherwise icon_overrides[str(uid)] = icon, then  *)
(* _save_overrides.                                                        *)
SetIcon(t, b) ==
    /\ pc[t] = "idle" /\ reqs < MaxReqs
    /\ reqs' = reqs + 1
    /\ IF b.loco_id \in {"", "bad"} \/ b.icon = ""
       THEN UNCHANGED <<mem, pc, req, acked>>
       ELSE /\ mem' = (b.loco_id :> b.icon) @@ mem
            /\ req' = [req EXCEPT ![t] = b]
            /\ pc' = [pc EXCEPT ![t] = "open"]
            /\ acked' = [u \in DOMAIN acked \ {b.loco_id} |-> acked[u]]
    /\ UNCHANGED <<names, inode, fd, out, restarts>>

(* Mutant: the file itself opened with 'w' and written in place.        *)
OpenInPlace(t) ==
    /\ pc[t] = "open"
    /\ \/ /\ names.path # 0
          /\ fd' = [fd EXCEPT ![t] = names.path]
          /\ inode' = [inode EXCEPT ![names.path] = Blank]
          /\ pc' = [pc EXCEPT ![t] = "dump"]
          /\ UNCHANGED names
       \/ /\ names.path = 0
          /\ LET i == Cardinality(Inodes) + 1
             IN  /\ inode' = (i :> Blank) @@ inode
                 /\ names' = [names EXCEPT !.path = i]
                 /\ fd' = [fd EXCEPT ![t] = i]
          /\ pc' = [pc EXCEPT ![t] = "dump"]
       \/ /\ pc' = [pc EXCEPT ![t] = "idle"]
          /\ UNCHANGED <<names, inode, fd>>
    /\ UNCHANGED <<mem, out, req, acked, reqs, restarts>>

(* Mutant: tmp opened for writing without truncating it (mode 'r+').    *)
OpenNoTruncate(t) ==
    /\ pc[t] = "open"
    /\ \/ /\ names.tmp # 0
          /\ fd' = [fd EXCEPT ![t] = names.tmp]
          /\ pc' = [pc EXCEPT ![t] = "dump"]
          /\ UNCHANGED <<names, inode>>
       \/ /\ names.tmp = 0
          /\ LET i == Cardinality(Inodes) + 1
             IN  /\ inode' = (i :> Blank) @@ inode
                 /\ names' = [names EXCEPT !.tmp = i]
                 /\ fd' = [fd EXCEPT ![t] = i]
          /\ pc' = [pc EXCEPT ![t] = "dump"]
       \/ /\ pc' = [pc EXCEPT ![t] = "idle"]
          /\ UNCHANGED <<names, inode, fd>>
    /\ UNCHANGED <<mem, out, req, acked, reqs, restarts>>

(* open(tmp, 'w'): truncate the inode .tmp names, or create one; an      *)
(* OSError (disk full, permissions) makes the save return False: a 500.  *)
Open(t) ==
    /\ pc[t] = "open"
    /\ \/ /\ names.tmp # 0
          /\ fd' = [fd EXCEPT ![t] = names.tmp]
          /\ inode' = [inode EXCEPT ![names.tmp] = Blank]
          /\ pc' = [pc EXCEPT ![t] = "dump"]
          /\ UNCHANGED names
       \/ /\ names.tmp = 0
          /\ LET i == Cardinality(Inodes) + 1
             IN  /\ inode' = (i :> Blank) @@ inode
                 /\ names' = [names EXCEPT !.tmp = i]
                 /\ fd' = [fd EXCEPT ![t] = i]
          /\ pc' = [pc EXCEPT ![t] = "dump"]
       \/ /\ pc' = [pc EXCEPT ![t] = "idle"]
          /\ UNCHANGED <<names, inode, fd>>
    /\ UNCHANGED <<mem, out, req, acked, reqs, restarts>>

(* json.dump(data, f) is not one-shot, so it runs the pure-Python       *)
(* _make_iterencode: it writes '{"icon_overrides":{' and then iterates    *)
(* icon_overrides itself, a step the GIL may interleave with other       *)
(* threads.  Dump starts the iteration over the keys there are now.      *)
Dump(t) ==
    /\ pc[t] = "dump"
    /\ out' = [out EXCEPT ![t] = mem]
    /\ pc' = [pc EXCEPT ![t] = "encode"]
    /\ UNCHANGED <<mem, names, inode, fd, req, acked, reqs, restarts>>

(* The iteration ends.  If another thread added a key meanwhile, next()  *)
(* raises RuntimeError: the with block closes the file on a prefix of   *)
(* the JSON (at least its first 19 bytes) and the save returns False: a  *)
(* 500.  Otherwise each value is the one the key had when it was read,   *)
(* its old or its current value; leaving the with block flushes the      *)
(* buffer, one write at offset 0.                                        *)
Encode(t) ==
    /\ pc[t] = "encode"
    /\ IF Cardinality(DOMAIN mem) # Cardinality(DOMAIN out[t])
       THEN /\ inode' = [inode EXCEPT ![fd[t]] =
                           [ok |-> FALSE, map |-> NoMap, len |-> Max({@.len, 19})]]
            /\ pc' = [pc EXCEPT ![t] = "idle"]
            /\ UNCHANGED out
       ELSE /\ \E v \in [DOMAIN out[t] -> Range(out[t]) \cup Range(mem)] :
                 /\ \A k \in DOMAIN v : v[k] \in {out[t][k], mem[k]}
                 /\ out' = [out EXCEPT ![t] = v]
                 /\ inode' = [inode EXCEPT ![fd[t]] = Overlay(@, v)]
            /\ pc' = [pc EXCEPT ![t] = "replace"]
    /\ UNCHANGED <<mem, names, fd, req, acked, reqs, restarts>>

(* os.replace(tmp, path): path now names .tmp's inode and .tmp is gone;  *)
(* if .tmp no longer exists it raises and the request gets a 500.  On   *)
(* success the handler publishes loco_list_reloaded and answers ok.       *)
Replace(t) ==
    /\ pc[t] = "replace"
    /\ IF names.tmp # 0
       THEN /\ names' = [path |-> names.tmp, tmp |-> 0]
            /\ acked' = (req[t].loco_id :> req[t].icon) @@ acked
       ELSE UNCHANGED <<names, acked>>
    /\ pc' = [pc EXCEPT ![t] = "idle"]
    /\ UNCHANGED <<mem, inode, fd, out, req, reqs, restarts>>

(* The server process ends and run_server starts again: _load_overrides. *)
Restart ==
    /\ restarts < MaxRestarts
    /\ restarts' = restarts + 1
    /\ mem' = Load
    /\ pc' = [t \in Threads |-> "idle"]
    /\ UNCHANGED <<names, inode, fd, out, req, acked, reqs>>

Next ==
    \/ \E t \in Threads :
          \/ \E b \in Bodies : SetIcon(t, b)
          \/ Open(t) \/ Dump(t) \/ Encode(t) \/ Replace(t)
    \/ Restart

(* Threads that started a save are scheduled until it ends.              *)
Spec == Init /\ [][Next]_vars /\ \A t \in Threads : WF_vars(Open(t) \/ Dump(t) \/ Encode(t) \/ Replace(t))

-----------------------------------------------------------------------------
(* The point of writing .tmp and os.replace()ing it: whenever           *)
(* mswebapp_overrides.json exists it holds one complete JSON document,  *)
(* whatever step of _save_overrides a thread is at, so _load_overrides  *)
(* never meets a truncated or half-written file.                        *)
PathAlwaysComplete == names.path # 0 => inode[names.path].ok

(* The tmp-file-then-os.replace() in _save_overrides is there so that a  *)
(* saved override survives the process: at every restart, an override  *)
(* the server answered ok for, with no newer request for that loco and  *)
(* still in effect, is loaded back by _load_overrides.                   *)
AckedOverridesSurviveRestart ==
    [][restarts' = restarts + 1 =>
         \A u \in DOMAIN acked : u \in DOMAIN mem /\ mem[u] = acked[u] =>
                                 u \in DOMAIN mem' /\ mem'[u] = acked[u]]_vars
=============================================================================
