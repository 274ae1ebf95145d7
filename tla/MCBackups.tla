----------------------------- MODULE MCBackups -----------------------------
(* A small instance of Backups and Restore, in three scenes that differ in  *)
(* what is made to meet.  One: a single decider, and the backup is deleted  *)
(* at any time.  Two: two deciders of the same approval, and the backup is  *)
(* deleted once it is complete.  Restore: the peer allows the backup at     *)
(* once and two restores meet.  Everything else happens in each of them.    *)
EXTENDS Restore, TLC

CONSTANTS taxes, d1, d2, j1, j2, r1, r2

VARIABLE scene

StoryInit ==
    /\ RestoreInit
    /\ scene \in {"one", "two", "restore"}

\* Deciders, threads and restores are alike: the first of them is taken
\* when all are free.
InTurn ==
    /\ job'[j2] # Free => job[j1] # Free \/ job[j2] # Free
    /\ decider'[d2].step = "read" => decider[d1].step # "idle"
    /\ restore'[r2].at = "manifest" => restore[r1].at # "idle"

Reads(d, b, allow) ==
    /\ (d = d1 /\ scene # "restore") \/ scene = "two"
    /\ ReadApproval(d, b, allow)

Asks(r, b) == scene = "restore" /\ AskRestore(r, b)

Deletes(b, online) ==
    /\ scene = "two" => status[b] = "complete"
    /\ DeleteReads(b, online)

Others ==
    \/ \E b \in Backups :
        \/ Push(b) \/ Encrypted(b)
        \/ (\E online \in BOOLEAN : Deletes(b, online)) \/ DeleteCalls(b) \/ DeleteMarks(b)
    \/ \E d \in Deciders :
        \/ \E b \in Backups, allow \in BOOLEAN : Reads(d, b, allow)
        \/ TakeApproval(d) \/ CheckWaiting(d) \/ Allow(d) \/ Deny(d) \/ DenyCleansUp(d)
    \/ \E j \in Jobs : Transfer(j)
    \/ \E w \in arriving : PeerWrites(w) \/ PeerDrops(w)
    \/ PeerChanges

StoryNext ==
    /\ \/ Others /\ UNCHANGED restoreVars
       \/ OwnerRestarts \/ CasperRestarts
       \/ \E r \in Restores : (\E b \in Backups : Asks(r, b)) \/ Restoring(r) \/ Unpacking(r)
       \/ \E c \in late : CallArrives(c)
    /\ InTurn
    /\ UNCHANGED scene

StorySpec ==
    /\ StoryInit /\ [][StoryNext]_<<allVars, scene>>
    /\ ThreadsRun
    /\ \A r \in Restores : WF_allVars(Restoring(r))
=============================================================================
