------------------------------ MODULE Backups ------------------------------
(***************************************************************************)
(* A peer backup as the service runs it (casper_service/backups.py and the *)
(* approvals of main.py it goes through): push, the owner's decision, the  *)
(* transfer, delete.                                                       *)
(*                                                                         *)
(* Each of them is a thread of the service, and between two of its         *)
(* database transactions or calls to a daemon any other may run.  The row  *)
(* of table backups is all they share; none locks it.  The source daemon   *)
(* is its staging area (agent/internal/backup/owner.go), the peer daemon   *)
(* its files; its tier for a backup changes at any time, PeerStore being   *)
(* the module about that.  A call to a daemon may fail, and one given up   *)
(* on may still be carried out, as RemoteCall says.                        *)
(***************************************************************************)
EXTENDS Naturals, FiniteSets

CONSTANTS
    Backups,        \* backup ids
    LastChunk,      \* chunks of a backup are 0 .. LastChunk
    Deciders,       \* requests deciding an approval at the same time
    Jobs,           \* transfer threads at the same time
    Nobody          \* no backup

Chunks == 0 .. LastChunk

ASSUME BackupAssumption ==
    /\ LastChunk \in Nat
    /\ Nobody \notin Backups

VARIABLES
    status,         \* backups.status, "none" without a row
    pushing,        \* where the push of each backup is
    approvals,      \* backups with a pending_approvals row
    decider,        \* who is deciding what, and how far
    job,            \* the transfer threads
    deleting,       \* where a delete of each backup is, and the status it read
    prepares,       \* source daemon: Store.prepares
    staged,         \* source daemon: backups whose chunk files are all there
    stored,         \* peer daemon: manifest, chunks, complete marker
    tier,           \* peer daemon: what it says of a write
    arriving,       \* chunk writes the peer has accepted and not yet done
    told,           \* the outcomes each backup's owner was notified of
    starts,         \* how many transfers of each backup were started
    decided,        \* backups an approval of which was taken to be resolved
    crossed,        \* backups two decisions found waiting at the same time
    allowed,        \* backups the peer's owner allowed
    erased,         \* deletes that reached the peer, and the status they had read
    restarted       \* the service was started again

serviceVars == <<status, approvals>>
threadVars == <<pushing, decider, job, deleting>>
daemonVars == <<prepares, staged, stored, tier, arriving>>
history == <<told, starts, decided, crossed, allowed, erased, restarted>>
vars == <<serviceVars, threadVars, daemonVars, history>>

Statuses == {"none", "pending", "denied", "awaiting_approval", "transferring",
             "complete", "failed", "deleted"}
Dir == [manifest: BOOLEAN, chunks: SUBSET Chunks, complete: BOOLEAN]
Empty == [manifest |-> FALSE, chunks |-> {}, complete |-> FALSE]
Undecided == [step |-> "idle", backup |-> Nobody, allow |-> FALSE]
Free == [step |-> "free", backup |-> Nobody, approved |-> FALSE, next |-> 0]

TypeOK ==
    /\ status \in [Backups -> Statuses]
    /\ pushing \in [Backups -> {"idle", "prepared", "allow", "ask", "deny", "asked", "refused", "done"}]
    /\ approvals \subseteq Backups
    /\ decider \in [Deciders -> [step: {"idle", "read", "taken", "checked", "denied"},
                                 backup: Backups \union {Nobody}, allow: BOOLEAN]]
    /\ job \in [Jobs -> [step: {"free", "starting", "preparing", "copying", "waiting",
                                "completed", "failed", "unsourced"},
                         backup: Backups \union {Nobody}, approved: BOOLEAN,
                         next: 0 .. LastChunk + 1]]
    /\ deleting \in [Backups -> [step: {"idle", "read", "called"}, saw: Statuses]]
    /\ prepares \in [Backups -> {"none", "preparing", "ready", "failed"}]
    /\ staged \subseteq Backups
    /\ stored \in [Backups -> Dir]
    /\ tier \in {"allow", "ask", "deny"}
    /\ arriving \subseteq [backup: Backups, index: Chunks]
    /\ told \in [Backups -> SUBSET {"complete", "failed", "denied"}]
    /\ starts \in [Backups -> Nat]
    /\ decided \subseteq Backups
    /\ crossed \subseteq Backups
    /\ allowed \subseteq Backups
    /\ erased \subseteq [backup: Backups, saw: Statuses]
    /\ restarted \in BOOLEAN

Init ==
    /\ status = [b \in Backups |-> "none"]
    /\ pushing = [b \in Backups |-> "idle"]
    /\ approvals = {}
    /\ decider = [d \in Deciders |-> Undecided]
    /\ job = [j \in Jobs |-> Free]
    /\ deleting = [b \in Backups |-> [step |-> "idle", saw |-> "none"]]
    /\ prepares = [b \in Backups |-> "none"]
    /\ staged = {}
    /\ stored = [b \in Backups |-> Empty]
    /\ tier \in {"allow", "ask", "deny"}
    /\ arriving = {}
    /\ told = [b \in Backups |-> {}]
    /\ starts = [b \in Backups |-> 0]
    /\ decided = {}
    /\ crossed = {}
    /\ allowed = {}
    /\ erased = {}
    /\ restarted = FALSE

SetStatus(b, s) == status' = [status EXCEPT ![b] = s]
Tell(b, outcome) == told' = [told EXCEPT ![b] = @ \union {outcome}]

----------------------------------------------------------------------------
(* The source daemon *)

\* The goroutine of Prepare ends; its entry may have been cleaned up since.
Encrypted(b) ==
    /\ prepares[b] = "preparing"
    /\ \/ prepares' = [prepares EXCEPT ![b] = "ready"] /\ staged' = staged \union {b}
       \/ prepares' = [prepares EXCEPT ![b] = "failed"] /\ UNCHANGED staged
    /\ UNCHANGED <<serviceVars, threadVars, stored, tier, arriving, history>>

\* The daemon starts again: prepares is memory, the chunk files are not.
SourceRestarts ==
    /\ prepares' = [b \in Backups |-> "none"]
    /\ UNCHANGED <<serviceVars, threadVars, staged, stored, tier, arriving, history>>

\* backup_cleanup, if the call gets there.
CleanUp(b) ==
    \/ /\ prepares' = [prepares EXCEPT ![b] = "none"]
       /\ staged' = staged \ {b}
    \/ UNCHANGED <<prepares, staged>>

----------------------------------------------------------------------------
(* push *)

\* A transfer thread is started (run_async).
Start(b, approved) ==
    /\ \E j \in Jobs :
        /\ job[j] = Free
        /\ job' = [job EXCEPT ![j] = [step |-> "starting", backup |-> b,
                                      approved |-> approved, next |-> 0]]
    /\ starts' = [starts EXCEPT ![b] = @ + 1]

Prepare(b) ==
    /\ pushing[b] = "idle" /\ status[b] = "none"
    /\ pushing' = [pushing EXCEPT ![b] = "prepared"]
    /\ prepares' = [prepares EXCEPT ![b] = "preparing"]
    /\ UNCHANGED <<serviceVars, decider, job, deleting, staged, stored, tier, arriving, history>>

\* The peer's verdict, "deny" if it cannot be reached, and the row.
Authorize(b) ==
    /\ pushing[b] = "prepared"
    /\ \E verdict \in {tier, "deny"} : pushing' = [pushing EXCEPT ![b] = verdict]
    /\ SetStatus(b, "pending")
    /\ UNCHANGED <<approvals, decider, job, deleting, daemonVars, history>>

PushDenied(b) ==
    /\ pushing[b] = "deny"
    /\ SetStatus(b, "denied")
    /\ pushing' = [pushing EXCEPT ![b] = "refused"]
    /\ UNCHANGED <<approvals, decider, job, deleting, daemonVars, history>>

PushCleansUp(b) ==
    /\ pushing[b] = "refused"
    /\ CleanUp(b)
    /\ pushing' = [pushing EXCEPT ![b] = "done"]
    /\ UNCHANGED <<serviceVars, decider, job, deleting, stored, tier, arriving, history>>

\* create_approval: from here on it can be decided.
PushAsks(b) ==
    /\ pushing[b] = "ask"
    /\ approvals' = approvals \union {b}
    /\ pushing' = [pushing EXCEPT ![b] = "asked"]
    /\ UNCHANGED <<status, decider, job, deleting, daemonVars, history>>

\* After create_approval has sent its notification.
PushAwaits(b) ==
    /\ pushing[b] = "asked"
    /\ SetStatus(b, "awaiting_approval")
    /\ pushing' = [pushing EXCEPT ![b] = "done"]
    /\ UNCHANGED <<approvals, decider, job, deleting, daemonVars, history>>

PushAllowed_Approved(b) ==
    /\ pushing[b] = "allow"
    /\ SetStatus(b, "transferring")
    /\ Start(b, TRUE)
    /\ pushing' = [pushing EXCEPT ![b] = "done"]
    /\ UNCHANGED <<approvals, decider, deleting, daemonVars, told, decided, crossed, allowed, erased, restarted>>

PushAllowed_FallsThrough(b) ==
    /\ pushing[b] = "allow"
    /\ SetStatus(b, "transferring")
    /\ Start(b, FALSE)
    /\ pushing' = [pushing EXCEPT ![b] = "ask"]
    /\ UNCHANGED <<approvals, decider, deleting, daemonVars, told, decided, crossed, allowed, erased, restarted>>

PushAllowed(b) ==
    /\ pushing[b] = "allow"
    /\ SetStatus(b, "transferring")
    /\ Start(b, FALSE)
    /\ pushing' = [pushing EXCEPT ![b] = "done"]
    /\ UNCHANGED <<approvals, decider, deleting, daemonVars, told, decided, crossed, allowed, erased, restarted>>

----------------------------------------------------------------------------
(* The decision: a session, an agent or a Telegram button *)

ReadApproval(d, b, allow) ==
    /\ decider[d].step = "idle"
    /\ b \in approvals
    /\ decider' = [decider EXCEPT ![d] = [step |-> "read", backup |-> b, allow |-> allow]]
    /\ UNCHANGED <<serviceVars, pushing, job, deleting, daemonVars, history>>

\* _resume_pending_approval deletes the row, whether or not it is still there.
TakeApproval(d) ==
    /\ decider[d].step = "read"
    /\ approvals' = approvals \ {decider[d].backup}
    /\ decided' = decided \union {decider[d].backup}
    /\ decider' = [decider EXCEPT ![d].step = "taken"]
    /\ UNCHANGED <<status, pushing, job, deleting, daemonVars, told, starts, crossed, allowed, erased, restarted>>

CheckWaiting_Unchecked(d) ==
    /\ decider[d].step = "taken"
    /\ decider' = [decider EXCEPT ![d].step = "checked"]
    /\ UNCHANGED <<serviceVars, pushing, job, deleting, daemonVars, history>>

\* Another decision has found the backup waiting and written nothing yet.
FoundWaiting(b, d) ==
    \E e \in Deciders \ {d} : decider[e].step = "checked" /\ decider[e].backup = b

\* decide_write: "That backup is no longer waiting."  The row is read in a
\* transaction of its own, and written by Allow or Deny in another.
CheckWaiting(d) ==
    LET b == decider[d].backup
        waiting == status[b] = "awaiting_approval"
    IN  /\ decider[d].step = "taken"
        /\ decider' = [decider EXCEPT ![d] =
                IF waiting THEN [@ EXCEPT !.step = "checked"] ELSE Undecided]
        /\ crossed' = crossed \union {c \in {b} : waiting /\ FoundWaiting(c, d)}
        /\ UNCHANGED <<serviceVars, pushing, job, deleting, daemonVars,
                       told, starts, decided, allowed, erased, restarted>>

Allow(d) ==
    /\ decider[d].step = "checked" /\ decider[d].allow
    /\ SetStatus(decider[d].backup, "transferring")
    /\ Start(decider[d].backup, TRUE)
    /\ allowed' = allowed \union {decider[d].backup}
    /\ decider' = [decider EXCEPT ![d] = Undecided]
    /\ UNCHANGED <<approvals, pushing, deleting, daemonVars, told, decided, crossed, erased, restarted>>

Deny(d) ==
    /\ decider[d].step = "checked" /\ ~decider[d].allow
    /\ SetStatus(decider[d].backup, "denied")
    /\ decider' = [decider EXCEPT ![d].step = "denied"]
    /\ UNCHANGED <<approvals, pushing, job, deleting, daemonVars, history>>

DenyCleansUp(d) ==
    /\ decider[d].step = "denied"
    /\ CleanUp(decider[d].backup)
    /\ Tell(decider[d].backup, "denied")
    /\ decider' = [decider EXCEPT ![d] = Undecided]
    /\ UNCHANGED <<serviceVars, pushing, job, deleting, stored, tier, arriving, starts, decided, crossed, allowed, erased, restarted>>

----------------------------------------------------------------------------
(* transfer *)

\* A step of a transfer that does nothing but move on.
MoveOn(j, to) ==
    /\ job' = [job EXCEPT ![j].step = to]
    /\ UNCHANGED <<serviceVars, pushing, decider, deleting, daemonVars, history>>

\* A BackupError: the row becomes failed, whatever it was.
Fail(j, to) ==
    /\ SetStatus(job[j].backup, "failed")
    /\ job' = [job EXCEPT ![j].step = to]
    /\ UNCHANGED <<approvals, pushing, decider, deleting, daemonVars, history>>

\* Both hosts must be connected.
Locate(j) ==
    /\ job[j].step = "starting"
    /\ MoveOn(j, "preparing") \/ Fail(j, "failed") \/ Fail(j, "unsourced")

Poll_NoDeadline(j) ==
    /\ job[j].step = "preparing"
    /\ \/ prepares[job[j].backup] = "ready" /\ MoveOn(j, "copying")
       \/ prepares[job[j].backup] \in {"none", "failed"} /\ Fail(j, "failed")

\* backup_prepare_status, once a second: what it is, or a failed call.
Poll(j) ==
    /\ job[j].step = "preparing"
    /\ \/ prepares[job[j].backup] = "ready" /\ MoveOn(j, "copying")
       \/ Fail(j, "failed")

SendChunk_WithoutWaiting(j) ==
    LET b == job[j].backup IN
    /\ job[j].step = "copying" /\ job[j].next \in Chunks
    /\ b \in staged
    /\ tier = "allow" \/ (tier = "ask" /\ job[j].approved)
    /\ arriving' = arriving \union {[backup |-> b, index |-> job[j].next]}
    /\ job' = [job EXCEPT ![j].next = @ + 1]
    /\ UNCHANGED <<serviceVars, pushing, decider, deleting, prepares, staged, stored, tier, history>>

\* A chunk is read from the source and accepted by the peer, which needs
\* chunk 0's manifest before any other.
SendChunk(j) ==
    LET b == job[j].backup IN
    /\ job[j].step = "copying" /\ job[j].next \in Chunks
    /\ b \in staged
    /\ tier = "allow" \/ (tier = "ask" /\ job[j].approved)
    /\ job[j].next # 0 => stored[b].manifest
    /\ arriving' = arriving \union {[backup |-> b, index |-> job[j].next]}
    /\ job' = [job EXCEPT ![j].step = "waiting"]
    /\ UNCHANGED <<serviceVars, pushing, decider, deleting, prepares, staged, stored, tier, history>>

\* Not staged, refused, or no answer; a write given up on may still arrive.
ChunkFails(j) ==
    /\ job[j].step \in {"copying", "waiting"} /\ job[j].next \in Chunks
    /\ Fail(j, "failed")

\* A directory after chunk i, and after the marker if it could be written.
Written(dir, i, marked) ==
    [manifest |-> dir.manifest \/ i = 0,
     chunks |-> dir.chunks \union {i},
     complete |-> dir.complete \/ (marked /\ dir.chunks \union {i} = Chunks)]

\* The peer writes the files and answers whoever waits, that it is complete
\* also when the marker could not be written.
PeerWrites(w) ==
    /\ w \in arriving
    /\ arriving' = arriving \ {w}
    /\ \E marked \in BOOLEAN : stored' = [stored EXCEPT ![w.backup] = Written(@, w.index, marked)]
    /\ job' = [j \in Jobs |->
            IF job[j].step = "waiting" /\ job[j].backup = w.backup /\ job[j].next = w.index
            THEN [job[j] EXCEPT !.step = "copying", !.next = @ + 1] ELSE job[j]]
    /\ UNCHANGED <<serviceVars, pushing, decider, deleting, prepares, staged, tier, history>>

\* The peer fails or stops before it has.
PeerDrops(w) ==
    /\ w \in arriving
    /\ arriving' = arriving \ {w}
    /\ UNCHANGED <<serviceVars, threadVars, prepares, staged, stored, tier, history>>

Complete_OneShort(j) ==
    /\ job[j].step = "copying" /\ job[j].next = LastChunk
    /\ SetStatus(job[j].backup, "complete")
    /\ job' = [job EXCEPT ![j].step = "completed"]
    /\ UNCHANGED <<approvals, pushing, decider, deleting, daemonVars, history>>

Complete(j) ==
    /\ job[j].step = "copying" /\ job[j].next \notin Chunks
    /\ SetStatus(job[j].backup, "complete")
    /\ job' = [job EXCEPT ![j].step = "completed"]
    /\ UNCHANGED <<approvals, pushing, decider, deleting, daemonVars, history>>

\* Clean up at the source, if it was known, and tell the owner.
Close(j) ==
    /\ job[j].step \in {"completed", "failed", "unsourced"}
    /\ IF job[j].step = "unsourced" THEN UNCHANGED <<prepares, staged>> ELSE CleanUp(job[j].backup)
    /\ Tell(job[j].backup, IF job[j].step = "completed" THEN "complete" ELSE "failed")
    /\ job' = [job EXCEPT ![j] = Free]
    /\ UNCHANGED <<serviceVars, pushing, decider, deleting, stored, tier, arriving, starts, decided, crossed, allowed, erased, restarted>>

----------------------------------------------------------------------------
(* delete *)

\* The row is read; a stored copy out of reach is refused here.  With the
\* peer offline there is nothing to call for the other statuses.
DeleteReads(b, online) ==
    /\ deleting[b].step = "idle"
    /\ status[b] \notin {"none", "deleted"}
    /\ online \/ status[b] \notin {"complete", "failed", "transferring"}
    /\ deleting' = [deleting EXCEPT ![b] =
            [step |-> IF online THEN "read" ELSE "called", saw |-> status[b]]]
    /\ UNCHANGED <<serviceVars, pushing, decider, job, daemonVars, history>>

\* backup_delete: it arrives or not, and the answer arrives or not.
DeleteCalls(b) ==
    /\ deleting[b].step = "read"
    /\ \E arrives, answered \in BOOLEAN :
        /\ answered => arrives
        /\ stored' = IF arrives THEN [stored EXCEPT ![b] = Empty] ELSE stored
        /\ erased' = IF arrives THEN erased \union {[backup |-> b, saw |-> deleting[b].saw]} ELSE erased
        /\ deleting' = [deleting EXCEPT ![b] =
                IF ~answered /\ @.saw = "complete" THEN [step |-> "idle", saw |-> "none"]
                ELSE [@ EXCEPT !.step = "called"]]
    /\ UNCHANGED <<serviceVars, pushing, decider, job, prepares, staged, tier, arriving,
                   told, starts, decided, crossed, allowed, restarted>>

DeleteMarks(b) ==
    /\ deleting[b].step = "called"
    /\ SetStatus(b, "deleted")
    /\ deleting' = [deleting EXCEPT ![b] = [step |-> "idle", saw |-> "none"]]
    /\ UNCHANGED <<approvals, pushing, decider, job, daemonVars, history>>

----------------------------------------------------------------------------
\* The service starts again: its threads are gone, its tables are not.
ServiceRestarts ==
    /\ pushing' = [b \in Backups |-> IF pushing[b] = "idle" THEN "idle" ELSE "done"]
    /\ decider' = [d \in Deciders |-> Undecided]
    /\ job' = [j \in Jobs |-> Free]
    /\ deleting' = [b \in Backups |-> [step |-> "idle", saw |-> "none"]]
    /\ restarted' = TRUE
    /\ UNCHANGED <<serviceVars, daemonVars, told, starts, decided, crossed, allowed, erased>>

\* A grant ends or is given, a quota fills: any verdict at any time.
PeerChanges ==
    /\ tier' \in {"allow", "ask", "deny"}
    /\ UNCHANGED <<serviceVars, threadVars, prepares, staged, stored, arriving, history>>

Push(b) ==
    \/ Prepare(b) \/ Authorize(b) \/ PushDenied(b) \/ PushCleansUp(b)
    \/ PushAsks(b) \/ PushAwaits(b) \/ PushAllowed(b)

Decide(d) ==
    \/ \E b \in Backups, allow \in BOOLEAN : ReadApproval(d, b, allow)
    \/ TakeApproval(d) \/ CheckWaiting(d) \/ Allow(d) \/ Deny(d) \/ DenyCleansUp(d)

Transfer(j) ==
    Locate(j) \/ Poll(j) \/ SendChunk(j) \/ ChunkFails(j) \/ Complete(j) \/ Close(j)

DeleteBackup(b) ==
    (\E online \in BOOLEAN : DeleteReads(b, online)) \/ DeleteCalls(b) \/ DeleteMarks(b)

Proceed ==
    \/ \E b \in Backups : Push(b) \/ Encrypted(b) \/ DeleteBackup(b)
    \/ \E d \in Deciders : Decide(d)
    \/ \E j \in Jobs : Transfer(j)
    \/ \E w \in arriving : PeerWrites(w) \/ PeerDrops(w)
    \/ PeerChanges

Next == Proceed \/ SourceRestarts \/ ServiceRestarts

\* Threads go on: every call they make ends, by its own timeout if need be.
\* Nothing makes anybody push, decide or delete.
ThreadsRun ==
    /\ \A b \in Backups :
        /\ WF_vars(PushDenied(b) \/ PushCleansUp(b) \/ PushAsks(b) \/ PushAwaits(b) \/ PushAllowed(b))
        /\ WF_vars(Authorize(b))
        /\ WF_vars(DeleteCalls(b) \/ DeleteMarks(b))
    /\ \A d \in Deciders :
        WF_vars(TakeApproval(d) \/ CheckWaiting(d) \/ Allow(d) \/ Deny(d) \/ DenyCleansUp(d))
    /\ \A j \in Jobs : WF_vars(Transfer(j))

Spec == Init /\ [][Next]_vars /\ ThreadsRun

----------------------------------------------------------------------------
(* Safety *)

Transferring(b) == \E j \in Jobs : job[j].backup = b

\* "So the same approval can't be resolved twice" (_resume_pending_approval):
\* no backup is transferred twice, or moved although a decision denied it.
ResolvedOnce ==
    \A b \in Backups : starts[b] <= 1 /\ (b \in allowed => "denied" \notin told[b])

\* What is true of it: a backup is transferred by one thread at most, however
\* many decisions read its approval, unless two found it waiting before
\* either had written what it decided.
TransferredOnce == \A b \in Backups \ crossed : starts[b] <= 1

\* Once its owner was told that a backup was denied, no thread moves it and
\* the peer holds none of it, with the same exception.
DenialIsFinal ==
    \A b \in Backups \ crossed : "denied" \in told[b] =>
        ~Transferring(b) /\ stored[b] = Empty

\* "It's ask-tier and not yet approved, so nothing is transferred yet."
NothingMovesWhileAsking ==
    \A b \in Backups : status[b] = "awaiting_approval" =>
        ~Transferring(b) /\ stored[b] = Empty

\* A backup listed as complete has its manifest and every chunk at the peer,
\* unless a delete of it got there: late, repeated and abandoned chunk writes
\* do not matter.  (Its marker may be missing.)
CompleteIsStored ==
    \A b \in Backups : status[b] = "complete" =>
        \/ stored[b].manifest /\ stored[b].chunks = Chunks
        \/ \E e \in erased : e.backup = b

\* "The blobs are removed" when the owner deletes a complete backup, and
\* nothing of it arrives later, unless two decisions crossed and a second
\* transfer of it goes on.  (A delete of one that failed or is under way
\* promises less: what a running transfer writes afterwards stays.)
DeletedIsRemoved ==
    \A b \in Backups \ crossed :
        [backup |-> b, saw |-> "complete"] \in erased => stored[b] = Empty

\* "The destination daemon re-decides every chunk regardless" (decide_write):
\* once it asks, it takes no chunk that its owner has not allowed, also when
\* the transfer began while it still allowed writes.
AskNeedsItsOwner ==
    [][\A w \in arriving' \ arriving :
        tier = "allow" \/ (tier = "ask" /\ w.backup \in allowed)]_vars
=============================================================================
