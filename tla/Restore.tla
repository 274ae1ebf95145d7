------------------------------ MODULE Restore ------------------------------
(***************************************************************************)
(* Restoring a peer backup (restore of casper_service/backups.py and the   *)
(* owner side of agent/internal/backup/owner.go), beside the pushes,       *)
(* transfers and deletes of Backups.                                       *)
(*                                                                         *)
(* Every restore is a thread of the service that moves chunks from the     *)
(* peer to the one machine that can decrypt them, where all restores of a  *)
(* backup share a directory and unpacking is a goroutine that goes on when *)
(* its caller has given up.  A folder's name is that of the backed up      *)
(* folder and the second of its unpacking; here all backups are of the     *)
(* same folder, and its file i is what chunk i holds.                      *)
(***************************************************************************)
EXTENDS Backups

CONSTANTS
    Restores,       \* restore requests, each made at most once
    LastSecond,     \* bound: seconds in which something is unpacked
    Torn            \* a file not written to its end

Seconds == 0 .. LastSecond

ASSUME RestoreAssumption ==
    /\ LastSecond \in Nat
    /\ Nobody \notin Restores /\ Torn \notin Restores /\ Torn # Nobody

VARIABLES
    restored,       \* backups.restore_status
    restore,        \* the restore threads
    late,           \* calls to the owner's daemon their caller has given up on
    restoreDir,     \* owner's daemon: restore/<backup>
    unpacking,      \* owner's daemon: the goroutines of Unpack
    second,         \* its clock
    folder,         \* the new folders, by second: who wrote each file
    made            \* the seconds whose folder exists

restoreVars == <<restored, restore, late, restoreDir, unpacking, second, folder, made>>
allVars == <<vars, restoreVars>>

NoDir == [there |-> FALSE, chunks |-> {}]
NotAsked == [at |-> "idle", backup |-> Nobody, next |-> 0, to |-> Nobody]
NotUnpacking == [at |-> "no", backup |-> Nobody, next |-> 0, second |-> 0]

\* to: the second of the folder its owner was told of.
RestoreTypeOK ==
    /\ TypeOK
    /\ restored \in [Backups -> {"none", "restoring", "restored", "failed"}]
    /\ restore \in [Restores -> [at: {"idle", "manifest", "begin", "fetch", "put", "unpack", "refused",
                                     "unpacked", "done"},
                                 backup: Backups \union {Nobody}, next: 0 .. LastChunk + 1,
                                 to: Seconds \union {Nobody}]]
    /\ late \subseteq [restore: Restores, at: {"begin", "put", "unpack"}, backup: Backups, next: 0 .. LastChunk + 1]
    /\ restoreDir \in [Backups -> [there: BOOLEAN, chunks: SUBSET Chunks]]
    /\ unpacking \in [Restores -> [at: {"no", "stat", "make", "extract"}, backup: Backups \union {Nobody},
                                   next: 0 .. LastChunk + 1, second: Seconds]]
    /\ second \in Seconds
    /\ folder \in [Seconds -> [Chunks -> Restores \union {Nobody, Torn}]]
    /\ made \subseteq Seconds

RestoreInit ==
    /\ Init
    /\ restored = [b \in Backups |-> "none"]
    /\ restore = [r \in Restores |-> NotAsked]
    /\ late = {}
    /\ restoreDir = [b \in Backups |-> NoDir]
    /\ unpacking = [r \in Restores |-> NotUnpacking]
    /\ second = 0
    /\ folder = [s \in Seconds |-> [i \in Chunks |-> Nobody]]
    /\ made = {}

----------------------------------------------------------------------------
(* The service *)

\* Bound: a backup is restored only if its peer allowed it at once, its
\* transfer has cleaned up, and before any restart of the service or delete.
\* (Restarts and deletes then happen during the restores.)
Straight(b) ==
    /\ told[b] = {"complete"} /\ b \notin staged /\ decided = {}
    /\ ~restarted /\ erased = {} /\ deleting[b].step = "idle"

\* restore: the row is read and marked.  (It may be deleted in between, but
\* that is another column, which no restore reads again.)
AskRestore(r, b) ==
    /\ restore[r] = NotAsked
    /\ status[b] = "complete" /\ Straight(b)
    /\ restored' = [restored EXCEPT ![b] = "restoring"]
    /\ restore' = [restore EXCEPT ![r] = [@ EXCEPT !.at = "manifest", !.backup = b]]
    /\ UNCHANGED <<vars, late, restoreDir, unpacking, second, folder, made>>

\* backup_get_manifest and backup_get_chunk, answered by the peer.
FetchManifest(r) ==
    /\ restore[r].at = "manifest"
    /\ stored[restore[r].backup].complete
    /\ restore' = [restore EXCEPT ![r].at = "begin"]
    /\ UNCHANGED <<vars, restored, late, restoreDir, unpacking, second, folder, made>>

FetchChunk(r) ==
    /\ restore[r].at = "fetch" /\ restore[r].next \in Chunks
    /\ restore[r].next \in stored[restore[r].backup].chunks
    /\ restore' = [restore EXCEPT ![r].at = "put"]
    /\ UNCHANGED <<vars, restored, late, restoreDir, unpacking, second, folder, made>>

AllFetched(r) ==
    /\ restore[r].at = "fetch" /\ restore[r].next \notin Chunks
    /\ restore' = [restore EXCEPT ![r].at = "unpack"]
    /\ UNCHANGED <<vars, restored, late, restoreDir, unpacking, second, folder, made>>

\* The call a restore waits on, if the owner's daemon has yet to begin it.
Underway(r) ==
    IF restore[r].at \in {"begin", "put", "unpack"} /\ unpacking[r].at = "no"
    THEN {[restore |-> r, at |-> restore[r].at, backup |-> restore[r].backup, next |-> restore[r].next]}
    ELSE {}

RestoreFails_NotUnpacking(r) ==
    /\ restore[r].at \notin {"idle", "unpack", "unpacked", "done"}
    /\ restored' = [restored EXCEPT ![restore[r].backup] = "failed"]
    /\ restore' = [restore EXCEPT ![r].at = "done"]
    /\ late' \in {late, late \union Underway(r)}
    /\ UNCHANGED <<vars, restoreDir, unpacking, second, folder, made>>

\* A BackupError: a refusal, a failed call or DAEMON_TIMEOUT_SECONDS.
RestoreFails(r) ==
    /\ restore[r].at \notin {"idle", "unpacked", "done"}
    /\ restored' = [restored EXCEPT ![restore[r].backup] = "failed"]
    /\ restore' = [restore EXCEPT ![r].at = "done"]
    /\ late' \in {late, late \union Underway(r)}
    /\ UNCHANGED <<vars, restoreDir, unpacking, second, folder, made>>

\* The row, and the notification with the folder's name.
RestoreEnds(r) ==
    /\ restore[r].at = "unpacked"
    /\ restored' = [restored EXCEPT ![restore[r].backup] = "restored"]
    /\ restore' = [restore EXCEPT ![r].at = "done"]
    /\ UNCHANGED <<vars, late, restoreDir, unpacking, second, folder, made>>

----------------------------------------------------------------------------
(* The owner's daemon *)

\* RestoreBegin: RemoveAll, MkdirAll and the manifest, under whatever is going on.
Begun == [there |-> TRUE, chunks |-> {}]

RestoreBegin(r) ==
    /\ restore[r].at = "begin"
    /\ restoreDir' = [restoreDir EXCEPT ![restore[r].backup] = Begun]
    /\ restore' = [restore EXCEPT ![r].at = "fetch"]
    /\ UNCHANGED <<vars, restored, late, unpacking, second, folder, made>>

\* RestoreChunk needs the manifest; a chunk is the one the manifest names.
RestoreChunk(r) ==
    LET b == restore[r].backup IN
    /\ restore[r].at = "put"
    /\ restoreDir[b].there
    /\ restoreDir' = [restoreDir EXCEPT ![b].chunks = @ \union {restore[r].next}]
    /\ restore' = [restore EXCEPT ![r].at = "fetch", ![r].next = @ + 1]
    /\ UNCHANGED <<vars, restored, late, unpacking, second, folder, made>>

\* Unpack finds every chunk and reads the clock.
Unpacks(r, b) ==
    /\ unpacking[r].at = "no"
    /\ restoreDir[b].there /\ restoreDir[b].chunks = Chunks
    /\ second' \in second .. LastSecond
    /\ unpacking' = [unpacking EXCEPT ![r] = [at |-> "stat", backup |-> b, next |-> 0, second |-> second']]

UnpackBegins(r) ==
    /\ restore[r].at = "unpack"
    /\ Unpacks(r, restore[r].backup)
    /\ UNCHANGED <<vars, restored, restore, late, restoreDir, folder, made>>

\* A call given up on is carried out after all, or is lost.
CallArrives(c) ==
    /\ c \in late
    /\ late' = late \ {c}
    /\ \/ /\ c.at = "begin"
          /\ restoreDir' = [restoreDir EXCEPT ![c.backup] = Begun]
          /\ UNCHANGED <<unpacking, second>>
       \/ /\ c.at = "put" /\ restoreDir[c.backup].there
          /\ restoreDir' = [restoreDir EXCEPT ![c.backup].chunks = @ \union {c.next}]
          /\ UNCHANGED <<unpacking, second>>
       \/ c.at = "unpack" /\ Unpacks(c.restore, c.backup) /\ UNCHANGED restoreDir
       \/ UNCHANGED <<restoreDir, unpacking, second>>
    /\ UNCHANGED <<vars, restored, restore, folder, made>>

\* extractTar at the archive's first entry: the folder must not exist yet.
StatFolder(r) ==
    /\ unpacking[r].at = "stat"
    /\ 0 \in restoreDir[unpacking[r].backup].chunks
    /\ unpacking[r].second \notin made
    /\ unpacking' = [unpacking EXCEPT ![r].at = "make"]
    /\ UNCHANGED <<vars, restored, restore, late, restoreDir, second, folder, made>>

MakeFolder(r) ==
    /\ unpacking[r].at = "make"
    /\ made' = made \union {unpacking[r].second}
    /\ unpacking' = [unpacking EXCEPT ![r].at = "extract"]
    /\ UNCHANGED <<vars, restored, restore, late, restoreDir, second, folder>>

WriteFile(r, by) ==
    folder' = [folder EXCEPT ![unpacking[r].second][unpacking[r].next] = by]

ExtractFile_Truncates(r) ==
    /\ unpacking[r].at = "extract" /\ unpacking[r].next \in Chunks
    /\ unpacking[r].next \in restoreDir[unpacking[r].backup].chunks
    /\ WriteFile(r, r)
    /\ unpacking' = [unpacking EXCEPT ![r].next = @ + 1]
    /\ UNCHANGED <<vars, restored, restore, late, restoreDir, second, made>>

\* The next chunk is opened and its file made, with O_EXCL.
ExtractFile(r) ==
    /\ unpacking[r].at = "extract" /\ unpacking[r].next \in Chunks
    /\ unpacking[r].next \in restoreDir[unpacking[r].backup].chunks
    /\ folder[unpacking[r].second][unpacking[r].next] = Nobody
    /\ WriteFile(r, r)
    /\ unpacking' = [unpacking EXCEPT ![r].next = @ + 1]
    /\ UNCHANGED <<vars, restored, restore, late, restoreDir, second, made>>

\* An error at any point, or the daemon stops: what was written stays.
UnpackFails(r) ==
    /\ unpacking[r].at # "no"
    /\ unpacking' = [unpacking EXCEPT ![r] = NotUnpacking]
    /\ \/ UNCHANGED folder
       \/ /\ unpacking[r].at = "extract" /\ unpacking[r].next \in Chunks
          /\ folder[unpacking[r].second][unpacking[r].next] = Nobody
          /\ WriteFile(r, Torn)
    /\ restore' = [restore EXCEPT ![r].at = IF @ = "unpack" THEN "refused" ELSE @]
    /\ UNCHANGED <<vars, restored, late, restoreDir, second, made>>

\* The directory goes, whoever else is using it, and the folder is named to
\* the caller, if it still waits.
UnpackEnds(r) ==
    /\ unpacking[r].at = "extract" /\ unpacking[r].next \notin Chunks
    /\ restoreDir' = [restoreDir EXCEPT ![unpacking[r].backup] = NoDir]
    /\ unpacking' = [unpacking EXCEPT ![r] = NotUnpacking]
    /\ restore' = [restore EXCEPT ![r] =
            IF @.at = "unpack" THEN [@ EXCEPT !.at = "unpacked", !.to = unpacking[r].second] ELSE @]
    /\ UNCHANGED <<vars, restored, late, second, folder, made>>

----------------------------------------------------------------------------
\* The machine that decrypts is the one that encrypted.
OwnerRestarts ==
    /\ SourceRestarts
    /\ unpacking' = [r \in Restores |-> NotUnpacking]
    /\ restore' = [r \in Restores |->
            IF restore[r].at = "unpack" /\ unpacking[r].at # "no"
            THEN [restore[r] EXCEPT !.at = "refused"] ELSE restore[r]]
    /\ UNCHANGED <<restored, late, restoreDir, second, folder, made>>

\* The threads are gone; the calls they had made may still be carried out.
CasperRestarts ==
    /\ ServiceRestarts
    /\ restore' = [r \in Restores |->
            IF restore[r].at = "idle" THEN restore[r] ELSE [restore[r] EXCEPT !.at = "done"]]
    /\ \E kept \in SUBSET Restores : late' = late \union UNION {Underway(r) : r \in kept}
    /\ UNCHANGED <<restored, restoreDir, unpacking, second, folder, made>>

Restoring(r) ==
    \/ FetchManifest(r) \/ RestoreBegin(r) \/ FetchChunk(r) \/ RestoreChunk(r)
    \/ AllFetched(r) \/ UnpackBegins(r) \/ RestoreFails(r) \/ RestoreEnds(r)

Unpacking(r) ==
    StatFolder(r) \/ MakeFolder(r) \/ ExtractFile(r) \/ UnpackFails(r) \/ UnpackEnds(r)

RestoreNext ==
    \/ Proceed /\ UNCHANGED restoreVars
    \/ OwnerRestarts \/ CasperRestarts
    \/ \E r \in Restores : (\E b \in Backups : AskRestore(r, b)) \/ Restoring(r) \/ Unpacking(r)
    \/ \E c \in late : CallArrives(c)

\* As for the other threads: a restore goes on, every call of it ends.
RestoreSpec ==
    /\ RestoreInit /\ [][RestoreNext]_allVars
    /\ ThreadsRun
    /\ \A r \in Restores : WF_allVars(Restoring(r))

----------------------------------------------------------------------------
(* Properties *)

\* "Never overwrites: the target folder is always new" (Unpack): the folder a
\* restore was reported to be in holds every file, all of them written to
\* their end by that restore, and keeps them, whatever other restores of the
\* same backup do to the chunks or in the same second.
RestoredIsWhole ==
    \A r \in Restores : restore[r].to # Nobody =>
        \A i \in Chunks : folder[restore[r].to][i] = r

\* A transfer and a restore end: no row stays at "transferring" or
\* "restoring", unless a restart of the service takes the thread away.
JobsEnd ==
    \A b \in Backups :
        /\ status[b] = "transferring" ~> status[b] # "transferring" \/ restarted
        /\ restored[b] = "restoring" ~> restored[b] # "restoring" \/ restarted
=============================================================================
