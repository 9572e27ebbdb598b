--------------------------- MODULE CatalogWatcher ---------------------------
(***************************************************************************)
(* The lokomotive.cs2 reload of mswebapp/files/python/server.py: the      *)
(* startup load in run_server, and the _watch_lokomotive thread, which    *)
(* polls the file's mtime every second and, on a change, parses the file  *)
(* and rebuilds loco_state under loc_data_lock, carrying speed, direction *)
(* and functions over for the uids that stay (speed stands for all three  *)
(* here), then publishes.  HTTP handlers and the listener write           *)
(* loco_state concurrently (set_loco_state_speed).  The file is written   *)
(* by something outside the program: the model lets it write a new       *)
(* catalog, optionally truncating first (open(..., 'w')) and then showing *)
(* one partly written chunk, and a clock gives the mtime; without         *)
(* DistinctMtimes two writes may share one.  Contents are line sequences  *)
(* and the watcher runs the real parser (CatalogParse).                   *)
(***************************************************************************)
EXTENDS Naturals, Integers, FiniteSets, CatalogParse, TLC

CONSTANTS Catalogs,       \* contents (line sequences) the writer may write
          Speeds,         \* speeds the set_* calls write
          InitFile,       \* the content of the file at startup
          FileAtStart,    \* whether lokomotive.cs2 exists at startup
          AtomicWrites,   \* the writer replaces the file in one step
          StartupWrites,  \* the file may change before the watcher starts
          DistinctMtimes, \* every write gets a new mtime
          MaxWrites, MaxTime, MaxSets

(* Every uid a whole catalog names.                                      *)
Uids == UNION {LocoUids(ParseLokomotive(c)) : c \in Catalogs \cup {InitFile}}

\* A truncating writer's first chunk reaches the file: its buffer is
\* flushed wherever it fills, so the last line may be cut anywhere.
Chunks(c) == TornPrefixes(c)

\* parse_lokomotive_cs2 of every content the file can have, computed once.
Contents == Catalogs \cup {InitFile} \cup UNION {Chunks(c) : c \in Catalogs}
Parsed   == [c \in Contents |-> ParseLokomotive(c)]

VARIABLES file,      \* [exists, content, mtime] of lokomotive.cs2
          pending,   \* the content a truncating writer is writing, or <<>>
          clock,     \* the file system's timestamp clock
          lastMtime, \* the watcher's last_mtime (None until first seen)
          wpc,       \* the watcher thread: "start", "sleep", "parse" or "merge"
          parsed,    \* new_list, parsed and not yet merged
          locList,   \* loc_list: the parsed loco records
          locoState, \* loco_state: uid -> speed
          given,     \* history: the speed the last set_* call gave each uid
          kept,      \* history: uids in every catalog the program has loaded
          written,   \* history: uids of every whole catalog written to the file
          writes, sets

vars == <<file, pending, clock, lastMtime, wpc, parsed, locList, locoState,
          given, kept, written, writes, sets>>

-----------------------------------------------------------------------------
(* run_server: parse the file (a missing file raises: []), pre-initialise *)
(* loco_state (StartUids); the watcher thread has not yet started.       *)
Init ==
    /\ file = [exists |-> FileAtStart, content |-> InitFile, mtime |-> 0]
    /\ pending = <<>>
    /\ clock = 1
    /\ locList = IF FileAtStart THEN Parsed[InitFile] ELSE <<>>
    /\ locoState = [u \in StartUids(locList) |-> 0]
    /\ lastMtime = None
    /\ wpc = "start"
    /\ parsed = <<>>
    /\ given = [u \in Uids |-> 0]
    /\ kept = IF FileAtStart THEN LocoUids(locList) ELSE Uids
    /\ written = IF FileAtStart THEN LocoUids(locList) ELSE {}
    /\ writes = 0
    /\ sets = 0

-----------------------------------------------------------------------------
(* The writer of lokomotive.cs2.                                          *)
Stamp == IF DistinctMtimes THEN clock + 1 ELSE clock

Quiet == StartupWrites \/ wpc # "start"

WriteFile(c) ==
    /\ writes < MaxWrites /\ pending = <<>> /\ Quiet
    /\ clock' = Stamp
    /\ IF AtomicWrites
       THEN file' = [exists |-> TRUE, content |-> c, mtime |-> Stamp] /\ UNCHANGED pending
       ELSE file' = [exists |-> TRUE, content |-> <<>>, mtime |-> Stamp] /\ pending' = c
    /\ written' = written \cup LocoUids(Parsed[c])
    /\ writes' = writes + 1
    /\ UNCHANGED <<lastMtime, wpc, parsed, locList, locoState, given, kept, sets>>

WriteChunk ==
    /\ pending # <<>> /\ file.content = <<>>
    /\ \E p \in Chunks(pending) \ {<<>>} :
          file' = [file EXCEPT !.content = p, !.mtime = Stamp]
    /\ clock' = Stamp
    /\ UNCHANGED <<pending, lastMtime, wpc, parsed, locList, locoState, given, kept, written, writes, sets>>

\* The truncating writer finishes.
WriteEnd ==
    /\ pending # <<>>
    /\ clock' = Stamp
    /\ file' = [file EXCEPT !.content = pending, !.mtime = Stamp]
    /\ pending' = <<>>
    /\ UNCHANGED <<lastMtime, wpc, parsed, locList, locoState, given, kept, written, writes, sets>>

\* The file is deleted (to be written anew, say).
RemoveFile ==
    /\ writes < MaxWrites /\ pending = <<>> /\ file.exists /\ Quiet
    /\ file' = [file EXCEPT !.exists = FALSE]
    /\ writes' = writes + 1
    /\ UNCHANGED <<pending, clock, lastMtime, wpc, parsed, locList, locoState, given, kept, written, sets>>

Tick ==
    /\ clock < MaxTime
    /\ clock' = clock + 1
    /\ UNCHANGED <<file, pending, lastMtime, wpc, parsed, locList, locoState, given, kept, written, writes, sets>>

-----------------------------------------------------------------------------
(* _watch_lokomotive starts: last_mtime from the file if it exists.      *)
WatchStart ==
    /\ wpc = "start"
    /\ lastMtime' = IF file.exists THEN file.mtime ELSE None
    /\ wpc' = "sleep"
    /\ UNCHANGED <<file, pending, clock, parsed, locList, locoState, given, kept, written, writes, sets>>

(* One pass of the watcher loop after time.sleep: skip a missing file;   *)
(* on first sight only record the mtime; on a different mtime record it, *)
(* then parse the file.                                                  *)
Poll ==
    /\ wpc = "sleep"
    /\ file.exists
    /\ file.mtime # lastMtime
    /\ lastMtime' = file.mtime
    /\ wpc' = IF lastMtime = None THEN "sleep" ELSE "parse"
    /\ UNCHANGED <<file, pending, clock, parsed, locList, locoState, given, kept, written, writes, sets>>

(* parse_lokomotive_cs2 opens the file; if it has gone since getmtime,   *)
(* the exception is logged and the loop continues, last_mtime kept.      *)
Parse ==
    /\ wpc = "parse"
    /\ IF file.exists
       THEN wpc' = "merge" /\ parsed' = Parsed[file.content]
       ELSE wpc' = "sleep" /\ UNCHANGED parsed
    /\ UNCHANGED <<file, pending, clock, lastMtime, locList, locoState, given, kept, written, writes, sets>>

\* Mutants of the merge: the new records start fresh; only uids that had
\* a record are rebuilt; a new uid gets no default record.
MergeFresh(new, ls) == [u \in new |-> 0]
MergeOnlyKnown(new, ls) == [u \in new \cap DOMAIN ls |-> ls[u]]
MergeNoDefault(new, ls) == [u \in new |-> IF u \in DOMAIN ls THEN ls[u] ELSE None]

(* Under loc_data_lock: a record for each uid int() takes from new_list  *)
(* (others are skipped), carrying the old values over, or defaults.     *)
Merge(new, ls) == [u \in new |-> IF u \in DOMAIN ls THEN ls[u] ELSE 0]

\* Mutant of the swap: loc_list assigned as a local of the watcher.
ReloadKeepingList ==
    /\ wpc = "merge"
    /\ locoState' = Merge(LocoUids(parsed), locoState)
    /\ wpc' = "sleep"
    /\ parsed' = <<>>
    /\ kept' = kept \cap LocoUids(parsed)
    /\ UNCHANGED <<file, pending, clock, lastMtime, locList, given, written, writes, sets>>

(* Swap loc_list, rebuild loco_state, then publish the system status and *)
(* loco_list_reloaded (the events are the EventBus module's concern).   *)
Reload ==
    /\ wpc = "merge"
    /\ locList' = parsed
    /\ locoState' = Merge(LocoUids(parsed), locoState)
    /\ wpc' = "sleep"
    /\ parsed' = <<>>
    /\ kept' = kept \cap LocoUids(parsed)
    /\ UNCHANGED <<file, pending, clock, lastMtime, given, written, writes, sets>>

(* set_loco_state_speed under loc_data_lock: _ensure_loco_state, write.  *)
SetSpeed(u, v) ==
    /\ sets < MaxSets
    /\ locoState' = (u :> v) @@ locoState
    /\ given' = [given EXCEPT ![u] = v]
    /\ sets' = sets + 1
    /\ UNCHANGED <<file, pending, clock, lastMtime, wpc, parsed, locList, kept, written, writes>>

Next ==
    \/ \E c \in Catalogs : WriteFile(c)
    \/ WriteChunk \/ WriteEnd \/ RemoveFile \/ Tick
    \/ WatchStart \/ Poll \/ Parse \/ Reload
    \/ \E u \in Uids, v \in Speeds : SetSpeed(u, v)

(* The watcher is a daemon thread looping forever and time.sleep        *)
(* returns; a writer that has truncated the file finishes writing it.    *)
Spec == Init /\ [][Next]_vars /\ WF_vars(WatchStart) /\ WF_vars(Poll) /\ WF_vars(Parse) /\ WF_vars(Reload) /\ WF_vars(WriteEnd)

-----------------------------------------------------------------------------
TypeOK ==
    /\ DOMAIN locoState \subseteq Nat
    /\ \A u \in DOMAIN locoState : locoState[u] \in Nat
    /\ wpc \in {"start", "sleep", "parse", "merge"}
    /\ lastMtime \in {None} \cup 0..clock

(* Spec 4.5: on a change the watcher merges the refreshed catalog.  Once *)
(* the file stops changing, loc_list ends up equal to what it holds.     *)
CatalogEventuallyLoaded == <>[](file.exists => locList = Parsed[file.content])

(* Spec 4.2 (replaceCatalog): "stale runtime data for retained devices   *)
(* must survive a catalog reload untouched".  The merge runs under       *)
(* loc_data_lock while set_* calls write loco_state: a loco that every   *)
(* catalog loaded so far has contained keeps the speed the last set_*    *)
(* call gave it, across every reload.                                    *)
RetainedStateSurvives ==
    \A u \in kept : u \in DOMAIN locoState => locoState[u] = given[u]

(* get_locs lists every loco of loc_list, and get_state answers {} for a  *)
(* uid with no loco_state record.  Startup pre-initialises loco_state     *)
(* from loc_list and every reload rebuilds it from new_list, while set_*  *)
(* calls only add records: every listed loco whose uid int() accepts has  *)
(* runtime state, at startup and after every reload.                      *)
ListedLocosHaveState == LocoUids(locList) \subseteq DOMAIN locoState

(* Spec 4.5: a parse failure leaves the catalog as it was.  A file read  *)
(* while it is being written is not a failure to parse_lokomotive_cs2,   *)
(* so the watcher must at least never list a loco no catalog written to *)
(* the file contains: every uid in loc_list was in some whole catalog.  *)
ListedLocosWereWritten == LocoUids(locList) \subseteq written
=============================================================================
