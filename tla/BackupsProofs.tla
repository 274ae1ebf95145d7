--------------------------- MODULE BackupsProofs ---------------------------
(***************************************************************************)
(* What of Backups holds for any number of backups, chunks, deciders and   *)
(* transfer threads.                                                       *)
(*                                                                         *)
(* The invariant that carries it: until push is done with a backup, and    *)
(* from then on while the row says "awaiting_approval", no thread, file or *)
(* write on its way belongs to the backup; a decision that has passed the  *)
(* check of the row belongs to a backup push is done with, so the row      *)
(* never returns to "awaiting_approval" behind a transfer.  A backup that  *)
(* two decisions found waiting at the same time is in crossed, and what is *)
(* said of transfers, denials and deletes is said of the others.           *)
(*                                                                         *)
(* Restores come last: they change nothing that Backups is about, so what  *)
(* is proved of Spec holds with them, and what one of them writes stays.   *)
(***************************************************************************)
EXTENDS Restore, TLAPS

\* A thread or decision at work has a backup to work on.
Named ==
    /\ \A j \in Jobs : job[j].step # "free" => job[j].backup \in Backups
    /\ \A d \in Deciders : decider[d].step # "idle" => decider[d].backup \in Backups

\* Nothing of the backup moves or has moved.
Untouched(b) ==
    /\ \A j \in Jobs : job[j].backup # b
    /\ \A w \in arriving : w.backup # b
    /\ stored[b] = Empty

\* While push has more to do, and while it has left the decision to the peer.
PushFirst ==
    \A b \in Backups : pushing[b] # "done" =>
        status[b] # "awaiting_approval" /\ Untouched(b)
Asking == \A b \in Backups : status[b] = "awaiting_approval" => Untouched(b)
CheckedAfterPush ==
    \A d \in Deciders : decider[d].step \in {"checked", "denied"} =>
        pushing[decider[d].backup] = "done"

\* A thread told that its backup is approved works for an owner who said so.
ApprovedByOwner == \A j \in Jobs : job[j].approved => job[j].backup \in allowed

Moving == PushFirst /\ Asking /\ CheckedAfterPush

----------------------------------------------------------------------------
(* Types *)

JobRow == [step: {"free", "starting", "preparing", "copying", "waiting",
                  "completed", "failed", "unsourced"},
           backup: Backups \union {Nobody}, approved: BOOLEAN, next: 0 .. LastChunk + 1]
DeciderRow == [step: {"idle", "read", "taken", "checked", "denied"},
               backup: Backups \union {Nobody}, allow: BOOLEAN]
DeletingRow == [step: {"idle", "read", "called"}, saw: Statuses]
Pushings == {"idle", "prepared", "allow", "ask", "deny", "asked", "refused", "done"}

Typed == TypeOK /\ Named

LEMMA ConstantsFit ==
    /\ Empty \in Dir
    /\ Undecided \in DeciderRow
    /\ Free \in JobRow
<1>1. LastChunk \in Nat
  BY BackupAssumption
<1>2. 0 \in 0 .. LastChunk + 1
  BY <1>1
<1> QED BY <1>2 DEF Empty, Dir, Undecided, DeciderRow, Free, JobRow

LEMMA WrittenFits ==
    ASSUME NEW dir \in Dir, NEW i \in Chunks, NEW marked \in BOOLEAN
    PROVE  Written(dir, i, marked) \in Dir
BY DEF Written, Dir

LEMMA InitTyped == Init => Typed
<1> SUFFICES ASSUME Init PROVE Typed
  OBVIOUS
<1>1. Named
  BY DEF Init, Named, Free, Undecided
<1>2. job \in [Jobs -> JobRow] /\ decider \in [Deciders -> DeciderRow] /\ stored \in [Backups -> Dir]
  BY ConstantsFit DEF Init
<1>3. deleting \in [Backups -> DeletingRow]
  BY DEF Init, DeletingRow, Statuses
<1>4. status \in [Backups -> Statuses] /\ starts \in [Backups -> Nat]
  BY DEF Init, Statuses
<1>5. TypeOK
  BY <1>2, <1>3, <1>4 DEF Init, TypeOK, JobRow, DeciderRow, DeletingRow
<1> QED BY <1>1, <1>5 DEF Typed

\* Push, the daemons and delete leave decisions alone, and threads but for
\* one that may start.
LEMMA StartTyped ==
    ASSUME Typed, NEW b \in Backups, NEW approved \in BOOLEAN, Start(b, approved)
    PROVE  /\ job' \in [Jobs -> JobRow]
           /\ \A j \in Jobs : job'[j].step # "free" => job'[j].backup \in Backups
           /\ starts' \in [Backups -> Nat]
<1>1. PICK j \in Jobs :
        job' = [job EXCEPT ![j] = [step |-> "starting", backup |-> b,
                                   approved |-> approved, next |-> 0]]
  BY DEF Start
<1>2. [step |-> "starting", backup |-> b, approved |-> approved, next |-> 0] \in JobRow
  <2>1. 0 \in 0 .. LastChunk + 1
    BY BackupAssumption
  <2> QED BY <2>1 DEF JobRow
<1>3. job \in [Jobs -> JobRow]
  BY DEF Typed, TypeOK, JobRow
<1>4. starts' \in [Backups -> Nat]
  BY DEF Typed, TypeOK, Start
<1> QED BY <1>1, <1>2, <1>3, <1>4 DEF Typed, Named

LEMMA PushTyped ==
    ASSUME Typed, NEW b \in Backups, Push(b)
    PROVE  Typed'
<1> USE DEF serviceVars, threadVars, daemonVars, history
<1>1. CASE Prepare(b)
  BY <1>1 DEF Prepare, Typed, TypeOK, Named
<1>2. CASE Authorize(b)
  <2>1. pushing' \in [Backups -> Pushings]
    BY <1>2 DEF Authorize, Typed, TypeOK, Pushings
  <2>2. status' \in [Backups -> Statuses]
    BY <1>2 DEF Authorize, SetStatus, Typed, TypeOK, Statuses
  <2> QED BY <1>2, <2>1, <2>2 DEF Authorize, Typed, TypeOK, Named, Pushings
<1>3. CASE PushDenied(b)
  BY <1>3 DEF PushDenied, SetStatus, Typed, TypeOK, Named, Statuses
<1>4. CASE PushCleansUp(b)
  BY <1>4 DEF PushCleansUp, CleanUp, Typed, TypeOK, Named
<1>5. CASE PushAsks(b)
  BY <1>5 DEF PushAsks, Typed, TypeOK, Named
<1>6. CASE PushAwaits(b)
  BY <1>6 DEF PushAwaits, SetStatus, Typed, TypeOK, Named, Statuses
<1>7. CASE PushAllowed(b)
  <2>1. /\ job' \in [Jobs -> JobRow]
        /\ \A j \in Jobs : job'[j].step # "free" => job'[j].backup \in Backups
        /\ starts' \in [Backups -> Nat]
    BY <1>7, StartTyped DEF PushAllowed
  <2>2. status' \in [Backups -> Statuses] /\ pushing' \in [Backups -> Pushings]
    BY <1>7 DEF PushAllowed, SetStatus, Typed, TypeOK, Statuses, Pushings
  <2> QED BY <1>7, <2>1, <2>2 DEF PushAllowed, Typed, TypeOK, Named, JobRow, Pushings
<1> QED BY <1>1, <1>2, <1>3, <1>4, <1>5, <1>6, <1>7 DEF Push

LEMMA DecideTyped ==
    ASSUME Typed, NEW d \in Deciders, Decide(d)
    PROVE  Typed'
<1> USE DEF serviceVars, threadVars, daemonVars, history
<1>0. decider \in [Deciders -> DeciderRow] /\ decider[d] \in DeciderRow
  BY DEF Typed, TypeOK, DeciderRow
<1>1. ASSUME NEW b \in Backups, NEW allow \in BOOLEAN, ReadApproval(d, b, allow) PROVE Typed'
  <2>1. [step |-> "read", backup |-> b, allow |-> allow] \in DeciderRow
    BY DEF DeciderRow
  <2>2. decider' \in [Deciders -> DeciderRow]
    BY <1>0, <1>1, <2>1 DEF ReadApproval
  <2>3. Named'
    BY <1>0, <1>1 DEF ReadApproval, Typed, Named
  <2> QED BY <1>1, <2>2, <2>3 DEF ReadApproval, Typed, TypeOK, DeciderRow
<1>2. CASE TakeApproval(d)
  <2>1. decider' \in [Deciders -> DeciderRow]
    BY <1>0, <1>2 DEF TakeApproval, DeciderRow
  <2>2. Named' /\ decider[d].backup \in Backups
    BY <1>0, <1>2 DEF TakeApproval, Typed, Named
  <2> QED BY <1>2, <2>1, <2>2 DEF TakeApproval, Typed, TypeOK, DeciderRow
<1>3. CASE CheckWaiting(d)
  <2>1. decider' \in [Deciders -> DeciderRow]
    BY <1>0, <1>3, ConstantsFit DEF CheckWaiting, DeciderRow
  <2>2. Named'
    BY <1>0, <1>3 DEF CheckWaiting, Typed, Named, Undecided
  <2>3. crossed' \subseteq Backups
    BY <1>3 DEF CheckWaiting, Typed, TypeOK, Named
  <2> QED BY <1>3, <2>1, <2>2, <2>3 DEF CheckWaiting, Typed, TypeOK, DeciderRow
<1>4. CASE Allow(d)
  <2>0. decider[d].backup \in Backups
    BY <1>4 DEF Allow, Typed, Named
  <2>1. decider' \in [Deciders -> DeciderRow]
    BY <1>0, <1>4, ConstantsFit DEF Allow
  <2>2. /\ job' \in [Jobs -> JobRow]
        /\ \A j \in Jobs : job'[j].step # "free" => job'[j].backup \in Backups
        /\ starts' \in [Backups -> Nat]
    BY <1>4, <2>0, StartTyped DEF Allow
  <2>3. Named'
    BY <1>0, <1>4, <2>2 DEF Allow, Typed, Named, Undecided
  <2>4. status' \in [Backups -> Statuses] /\ allowed' \subseteq Backups
    BY <1>4, <2>0 DEF Allow, SetStatus, Typed, TypeOK, Statuses
  <2> QED BY <1>4, <2>1, <2>2, <2>3, <2>4 DEF Allow, Typed, TypeOK, JobRow, DeciderRow
<1>5. CASE Deny(d)
  <2>1. decider' \in [Deciders -> DeciderRow]
    BY <1>0, <1>5 DEF Deny, DeciderRow
  <2>2. Named'
    BY <1>0, <1>5 DEF Deny, Typed, Named
  <2>3. status' \in [Backups -> Statuses]
    BY <1>5 DEF Deny, SetStatus, Typed, TypeOK, Statuses
  <2> QED BY <1>5, <2>1, <2>2, <2>3 DEF Deny, Typed, TypeOK, DeciderRow
<1>6. CASE DenyCleansUp(d)
  <2>1. decider' \in [Deciders -> DeciderRow]
    BY <1>0, <1>6, ConstantsFit DEF DenyCleansUp
  <2>2. Named'
    BY <1>0, <1>6 DEF DenyCleansUp, Typed, Named, Undecided
  <2>3. told' \in [Backups -> SUBSET {"complete", "failed", "denied"}]
    BY <1>6 DEF DenyCleansUp, Tell, Typed, TypeOK
  <2>4. prepares' \in [Backups -> {"none", "preparing", "ready", "failed"}] /\ staged' \subseteq Backups
    BY <1>6 DEF DenyCleansUp, CleanUp, Typed, TypeOK
  <2> QED BY <1>6, <2>1, <2>2, <2>3, <2>4 DEF DenyCleansUp, Typed, TypeOK, DeciderRow
<1> QED BY <1>1, <1>2, <1>3, <1>4, <1>5, <1>6 DEF Decide

LEMMA TransferTyped ==
    ASSUME Typed, NEW j \in Jobs, Transfer(j)
    PROVE  Typed'
<1> USE DEF serviceVars, threadVars, daemonVars, history
<1>0. job \in [Jobs -> JobRow] /\ job[j] \in JobRow
  BY DEF Typed, TypeOK, JobRow
<1>1. ASSUME NEW to \in {"preparing", "copying"}, job[j].step # "free", MoveOn(j, to) PROVE Typed'
  <2>1. job' \in [Jobs -> JobRow]
    BY <1>0, <1>1 DEF MoveOn, JobRow
  <2>2. Named'
    BY <1>0, <1>1 DEF MoveOn, Typed, Named
  <2> QED BY <1>1, <2>1, <2>2 DEF MoveOn, Typed, TypeOK, JobRow
<1>2. ASSUME NEW to \in {"failed", "unsourced"}, job[j].step # "free", Fail(j, to) PROVE Typed'
  <2>1. job' \in [Jobs -> JobRow]
    BY <1>0, <1>2 DEF Fail, JobRow
  <2>2. Named'
    BY <1>0, <1>2 DEF Fail, Typed, Named
  <2>3. status' \in [Backups -> Statuses]
    BY <1>2 DEF Fail, SetStatus, Typed, TypeOK, Statuses
  <2> QED BY <1>2, <2>1, <2>2, <2>3 DEF Fail, Typed, TypeOK, JobRow
<1>3. CASE Locate(j)
  BY <1>1, <1>2, <1>3 DEF Locate
<1>4. CASE Poll(j)
  BY <1>1, <1>2, <1>4 DEF Poll
<1>5. CASE ChunkFails(j)
  BY <1>2, <1>5 DEF ChunkFails
<1>6. CASE SendChunk(j)
  <2>1. job' \in [Jobs -> JobRow]
    BY <1>0, <1>6 DEF SendChunk, JobRow
  <2>2. Named' /\ job[j].backup \in Backups
    BY <1>0, <1>6 DEF SendChunk, Typed, Named
  <2>3. arriving' \subseteq [backup: Backups, index: Chunks]
    BY <1>6, <2>2 DEF SendChunk, Typed, TypeOK
  <2> QED BY <1>6, <2>1, <2>2, <2>3 DEF SendChunk, Typed, TypeOK, JobRow
<1>7. CASE Complete(j)
  <2>1. job' \in [Jobs -> JobRow]
    BY <1>0, <1>7 DEF Complete, JobRow
  <2>2. Named'
    BY <1>0, <1>7 DEF Complete, Typed, Named
  <2>3. status' \in [Backups -> Statuses]
    BY <1>7 DEF Complete, SetStatus, Typed, TypeOK, Statuses
  <2> QED BY <1>7, <2>1, <2>2, <2>3 DEF Complete, Typed, TypeOK, JobRow
<1>8. CASE Close(j)
  <2>1. job' \in [Jobs -> JobRow]
    BY <1>0, <1>8, ConstantsFit DEF Close
  <2>2. Named'
    BY <1>0, <1>8 DEF Close, Typed, Named, Free
  <2>3. told' \in [Backups -> SUBSET {"complete", "failed", "denied"}]
    BY <1>8 DEF Close, Tell, Typed, TypeOK
  <2>4. prepares' \in [Backups -> {"none", "preparing", "ready", "failed"}] /\ staged' \subseteq Backups
    BY <1>8 DEF Close, CleanUp, Typed, TypeOK
  <2> QED BY <1>8, <2>1, <2>2, <2>3, <2>4 DEF Close, Typed, TypeOK, JobRow
<1> QED BY <1>3, <1>4, <1>5, <1>6, <1>7, <1>8 DEF Transfer

LEMMA WritesTyped ==
    ASSUME Typed, NEW w \in arriving, PeerWrites(w) \/ PeerDrops(w)
    PROVE  Typed'
<1> USE DEF serviceVars, threadVars, daemonVars, history
<1>0. w \in [backup: Backups, index: Chunks]
  BY DEF Typed, TypeOK
<1>1. CASE PeerWrites(w)
  <2>1. stored' \in [Backups -> Dir]
    <3>1. stored \in [Backups -> Dir] /\ w.backup \in Backups /\ w.index \in Chunks
      BY <1>0 DEF Typed, TypeOK
    <3>2. PICK marked \in BOOLEAN :
            stored' = [stored EXCEPT ![w.backup] = Written(stored[w.backup], w.index, marked)]
      BY <1>1, <3>1 DEF PeerWrites
    <3>3. Written(stored[w.backup], w.index, marked) \in Dir
      BY <3>1, WrittenFits
    <3> QED BY <3>1, <3>2, <3>3
  <2>2. job' \in [Jobs -> JobRow]
    <3> SUFFICES ASSUME NEW k \in Jobs PROVE job'[k] \in JobRow
      BY <1>1 DEF PeerWrites
    <3>1. job[k] \in JobRow
      BY DEF Typed, TypeOK, JobRow
    <3>2. ASSUME job[k].next = w.index PROVE [job[k] EXCEPT !.step = "copying", !.next = @ + 1] \in JobRow
      <4>1. job[k].next + 1 \in 0 .. LastChunk + 1
        BY <1>0, <3>2, BackupAssumption DEF Chunks
      <4> QED BY <3>1, <4>1 DEF JobRow
    <3> QED BY <1>1, <3>1, <3>2 DEF PeerWrites
  <2>3. Named'
    <3>1. job \in [Jobs -> JobRow]
      BY DEF Typed, TypeOK, JobRow
    <3> QED BY <1>1, <3>1 DEF PeerWrites, Typed, Named, JobRow
  <2> QED BY <1>1, <2>1, <2>2, <2>3 DEF PeerWrites, Typed, TypeOK, JobRow
<1>2. CASE PeerDrops(w)
  BY <1>2 DEF PeerDrops, Typed, TypeOK, Named
<1> QED BY <1>1, <1>2

LEMMA DeleteTyped ==
    ASSUME Typed, NEW b \in Backups, DeleteBackup(b)
    PROVE  Typed'
<1> USE DEF serviceVars, threadVars, daemonVars, history
<1>0. deleting \in [Backups -> DeletingRow] /\ deleting[b] \in DeletingRow /\ deleting[b].saw \in Statuses
  BY DEF Typed, TypeOK, DeletingRow
<1>1. ASSUME NEW online \in BOOLEAN, DeleteReads(b, online) PROVE Typed'
  <2>1. deleting' \in [Backups -> DeletingRow]
    <3>1. status[b] \in Statuses
      BY DEF Typed, TypeOK
    <3> QED BY <1>0, <1>1, <3>1 DEF DeleteReads, DeletingRow
  <2> QED BY <1>1, <2>1 DEF DeleteReads, Typed, TypeOK, Named, DeletingRow
<1>2. CASE DeleteCalls(b)
  <2>1. deleting' \in [Backups -> DeletingRow]
    BY <1>0, <1>2 DEF DeleteCalls, DeletingRow, Statuses
  <2>2. stored' \in [Backups -> Dir]
    BY <1>2, ConstantsFit DEF DeleteCalls, Typed, TypeOK
  <2>3. erased' \subseteq [backup: Backups, saw: Statuses]
    BY <1>0, <1>2 DEF DeleteCalls, Typed, TypeOK
  <2> QED BY <1>2, <2>1, <2>2, <2>3 DEF DeleteCalls, Typed, TypeOK, Named, DeletingRow
<1>3. CASE DeleteMarks(b)
  <2>1. deleting' \in [Backups -> DeletingRow] /\ status' \in [Backups -> Statuses]
    BY <1>0, <1>3 DEF DeleteMarks, SetStatus, DeletingRow, Statuses, Typed, TypeOK
  <2> QED BY <1>3, <2>1 DEF DeleteMarks, Typed, TypeOK, Named, DeletingRow
<1> QED BY <1>1, <1>2, <1>3 DEF DeleteBackup

LEMMA NextTyped == Typed /\ [Next]_vars => Typed'
<1> SUFFICES ASSUME Typed, [Next]_vars PROVE Typed'
  OBVIOUS
<1> USE DEF serviceVars, threadVars, daemonVars, history
<1>1. ASSUME NEW b \in Backups, Encrypted(b) PROVE Typed'
  BY <1>1 DEF Encrypted, Typed, TypeOK, Named
<1>2. CASE SourceRestarts
  BY <1>2 DEF SourceRestarts, Typed, TypeOK, Named
<1>3. CASE PeerChanges
  BY <1>3 DEF PeerChanges, Typed, TypeOK, Named
<1>4. CASE ServiceRestarts
  <2>1. job' \in [Jobs -> JobRow] /\ decider' \in [Deciders -> DeciderRow]
    BY <1>4, ConstantsFit DEF ServiceRestarts
  <2>2. Named'
    BY <1>4 DEF ServiceRestarts, Named, Free, Undecided
  <2>3. deleting' \in [Backups -> DeletingRow] /\ pushing' \in [Backups -> Pushings]
    BY <1>4 DEF ServiceRestarts, DeletingRow, Statuses, Pushings
  <2> QED BY <1>4, <2>1, <2>2, <2>3 DEF ServiceRestarts, Typed, TypeOK, JobRow, DeciderRow, DeletingRow, Pushings
<1>5. CASE UNCHANGED vars
  BY <1>5 DEF vars, Typed, TypeOK, Named
<1> QED BY <1>1, <1>2, <1>3, <1>4, <1>5, PushTyped, DecideTyped, TransferTyped, WritesTyped, DeleteTyped DEF Next, Proceed

\* Every variable keeps its type: no code path gives a row a status, or a
\* daemon a chunk, outside the sets the two sides share.
THEOREM TypesKept == Spec => []TypeOK
<1>1. Typed => TypeOK
  BY DEF Typed
<1> QED BY <1>1, InitTyped, NextTyped, PTL DEF Spec

----------------------------------------------------------------------------
(* What a step can do to the row, the threads and the decisions of a backup *)

LEMMA StepPushing ==
    ASSUME Typed, [Next]_vars, NEW c \in Backups, pushing[c] = "done"
    PROVE  pushing'[c] = "done"
<1> USE DEF serviceVars, threadVars, daemonVars, history
<1>0. pushing \in [Backups -> Pushings]
  BY DEF Typed, TypeOK, Pushings
<1>1. ASSUME NEW b \in Backups, Push(b) PROVE pushing'[c] = "done"
  BY <1>0, <1>1 DEF Push, Prepare, Authorize, PushDenied, PushCleansUp, PushAsks, PushAwaits, PushAllowed
<1>2. ASSUME NEW d \in Deciders, Decide(d) PROVE pushing' = pushing
  BY <1>2 DEF Decide, ReadApproval, TakeApproval, CheckWaiting, Allow, Deny, DenyCleansUp
<1>3. ASSUME NEW j \in Jobs, Transfer(j) PROVE pushing' = pushing
  BY <1>3 DEF Transfer, Locate, Poll, SendChunk, ChunkFails, Complete, Close, MoveOn, Fail
<1>4. ASSUME NEW b \in Backups, DeleteBackup(b) \/ Encrypted(b) PROVE pushing' = pushing
  BY <1>4 DEF DeleteBackup, DeleteReads, DeleteCalls, DeleteMarks, Encrypted
<1>5. ASSUME NEW w \in arriving, PeerWrites(w) \/ PeerDrops(w) PROVE pushing' = pushing
  BY <1>5 DEF PeerWrites, PeerDrops
<1>6. CASE SourceRestarts \/ PeerChanges \/ UNCHANGED vars
  BY <1>6 DEF SourceRestarts, PeerChanges, vars
<1>7. CASE ServiceRestarts
  BY <1>7 DEF ServiceRestarts
<1> QED BY <1>1, <1>2, <1>3, <1>4, <1>5, <1>6, <1>7 DEF Next, Proceed

\* Only push leaves a decision to the peer's owner, and it is done then.
LEMMA StepAwaits ==
    ASSUME Typed, [Next]_vars, NEW c \in Backups, status'[c] = "awaiting_approval"
    PROVE  status[c] = "awaiting_approval" \/ (pushing[c] = "asked" /\ pushing'[c] = "done")
<1> USE DEF serviceVars, threadVars, daemonVars, history
<1>0. status \in [Backups -> Statuses] /\ pushing \in [Backups -> Pushings]
  BY DEF Typed, TypeOK, Pushings
<1>1. ASSUME NEW b \in Backups, Push(b)
      PROVE  status[c] = "awaiting_approval" \/ (pushing[c] = "asked" /\ pushing'[c] = "done")
  <2>1. CASE PushAwaits(b)
    BY <1>0, <2>1 DEF PushAwaits, SetStatus
  <2>2. CASE ~PushAwaits(b)
    BY <1>0, <1>1, <2>2 DEF Push, Prepare, Authorize, PushDenied, PushCleansUp, PushAsks, PushAllowed, SetStatus
  <2> QED BY <2>1, <2>2
<1>2. ASSUME NEW d \in Deciders, Decide(d) PROVE status[c] = "awaiting_approval"
  BY <1>0, <1>2 DEF Decide, ReadApproval, TakeApproval, CheckWaiting, Allow, Deny, DenyCleansUp, SetStatus
<1>3. ASSUME NEW j \in Jobs, Transfer(j) PROVE status[c] = "awaiting_approval"
  BY <1>0, <1>3 DEF Transfer, Locate, Poll, SendChunk, ChunkFails, Complete, Close, MoveOn, Fail, SetStatus
<1>4. ASSUME NEW b \in Backups, DeleteBackup(b) \/ Encrypted(b) PROVE status[c] = "awaiting_approval"
  BY <1>0, <1>4 DEF DeleteBackup, DeleteReads, DeleteCalls, DeleteMarks, Encrypted, SetStatus
<1>5. ASSUME NEW w \in arriving, PeerWrites(w) \/ PeerDrops(w) PROVE status' = status
  BY <1>5 DEF PeerWrites, PeerDrops
<1>6. CASE SourceRestarts \/ PeerChanges \/ ServiceRestarts \/ UNCHANGED vars
  BY <1>6 DEF SourceRestarts, PeerChanges, ServiceRestarts, vars
<1> QED BY <1>1, <1>2, <1>3, <1>4, <1>5, <1>6 DEF Next, Proceed

\* A transfer starts when push was allowed or a decision allows it.
LEMMA StepStarts ==
    ASSUME Typed, [Next]_vars, NEW c \in Backups, starts'[c] # starts[c]
    PROVE  /\ starts'[c] = starts[c] + 1
           /\ status'[c] = "transferring"
           /\ told' = told
           /\ \/ /\ pushing[c] = "allow" /\ pushing'[c] = "done" /\ decider' = decider
              \/ \E d \in Deciders :
                    decider[d].step = "checked" /\ decider[d].backup = c /\ decider'[d] = Undecided
<1> USE DEF serviceVars, threadVars, daemonVars, history
<1>0. /\ status \in [Backups -> Statuses] /\ pushing \in [Backups -> Pushings]
      /\ starts \in [Backups -> Nat] /\ decider \in [Deciders -> DeciderRow]
  BY DEF Typed, TypeOK, Pushings, DeciderRow
<1>1. ASSUME NEW b \in Backups, Push(b) PROVE PushAllowed(b) /\ b = c
  <2>1. PushAllowed(b)
    BY <1>1 DEF Push, Prepare, Authorize, PushDenied, PushCleansUp, PushAsks, PushAwaits
  <2> QED BY <1>0, <2>1 DEF PushAllowed, Start
<1>2. CASE PushAllowed(c)
  BY <1>0, <1>2 DEF PushAllowed, Start, SetStatus
<1>3. ASSUME NEW d \in Deciders, Decide(d) PROVE Allow(d) /\ decider[d].backup = c
  <2>1. Allow(d)
    BY <1>3 DEF Decide, ReadApproval, TakeApproval, CheckWaiting, Deny, DenyCleansUp
  <2> QED BY <1>0, <2>1 DEF Allow, Start
<1>4. ASSUME NEW d \in Deciders, Allow(d), decider[d].backup = c
      PROVE  /\ starts'[c] = starts[c] + 1 /\ status'[c] = "transferring" /\ told' = told
             /\ decider[d].step = "checked" /\ decider'[d] = Undecided
  BY <1>0, <1>4 DEF Allow, Start, SetStatus
<1>5. ASSUME NEW j \in Jobs, Transfer(j) PROVE FALSE
  BY <1>5 DEF Transfer, Locate, Poll, SendChunk, ChunkFails, Complete, Close, MoveOn, Fail
<1>6. ASSUME NEW b \in Backups, DeleteBackup(b) \/ Encrypted(b) PROVE FALSE
  BY <1>6 DEF DeleteBackup, DeleteReads, DeleteCalls, DeleteMarks, Encrypted
<1>7. ASSUME NEW w \in arriving, PeerWrites(w) \/ PeerDrops(w) PROVE FALSE
  BY <1>7 DEF PeerWrites, PeerDrops
<1>8. CASE SourceRestarts \/ PeerChanges \/ ServiceRestarts \/ UNCHANGED vars
  BY <1>8 DEF SourceRestarts, PeerChanges, ServiceRestarts, vars
<1>9. CASE \E b \in Backups : Push(b)
  BY <1>1, <1>2, <1>9
<1>10. CASE \E d \in Deciders : Decide(d)
  BY <1>3, <1>4, <1>10
<1> QED BY <1>5, <1>6, <1>7, <1>8, <1>9, <1>10 DEF Next, Proceed

\* A decision gets past the check of the row only while the row is waiting.
LEMMA StepDecides ==
    ASSUME Typed, [Next]_vars, NEW d \in Deciders, decider'[d].step \in {"checked", "denied"}
    PROVE  /\ decider'[d].backup = decider[d].backup /\ decider[d].backup \in Backups
           /\ \/ decider'[d] = decider[d]
              \/ decider[d].step = "taken" /\ decider'[d].step = "checked"
                 /\ status[decider[d].backup] = "awaiting_approval"
              \/ decider[d].step = "checked" /\ decider'[d].step = "denied"
                 /\ status'[decider[d].backup] = "denied"
<1> USE DEF serviceVars, threadVars, daemonVars, history
<1>0. decider \in [Deciders -> DeciderRow] /\ status \in [Backups -> Statuses]
  BY DEF Typed, TypeOK, DeciderRow
<1>1. Undecided.step = "idle"
  BY DEF Undecided
<1>2. decider[d].step # "idle" => decider[d].backup \in Backups
  BY DEF Typed, Named
<1> DEFINE Goal ==
        /\ decider'[d].backup = decider[d].backup /\ decider[d].backup \in Backups
        /\ \/ decider'[d] = decider[d]
           \/ decider[d].step = "taken" /\ decider'[d].step = "checked"
              /\ status[decider[d].backup] = "awaiting_approval"
           \/ decider[d].step = "checked" /\ decider'[d].step = "denied"
              /\ status'[decider[d].backup] = "denied"
<1>3. ASSUME decider'[d] = decider[d] PROVE Goal
  BY <1>2, <1>3
<1>4. ASSUME NEW e \in Deciders, Decide(e), e # d PROVE decider'[d] = decider[d]
  BY <1>0, <1>4 DEF Decide, ReadApproval, TakeApproval, CheckWaiting, Allow, Deny, DenyCleansUp
<1>5. CASE Decide(d)
  <2>1. ASSUME NEW b \in Backups, NEW allow \in BOOLEAN, ReadApproval(d, b, allow) PROVE FALSE
    BY <1>0, <2>1 DEF ReadApproval
  <2>2. CASE TakeApproval(d)
    BY <1>0, <2>2 DEF TakeApproval, DeciderRow
  <2>3. CASE CheckWaiting(d)
    <3>1. status[decider[d].backup] = "awaiting_approval"
      BY <1>0, <1>1, <2>3 DEF CheckWaiting
    <3>2. decider'[d] = [decider[d] EXCEPT !.step = "checked"]
      BY <1>0, <2>3, <3>1 DEF CheckWaiting
    <3> QED BY <1>0, <1>2, <2>3, <3>1, <3>2 DEF CheckWaiting, DeciderRow
  <2>4. CASE Allow(d) \/ DenyCleansUp(d)
    <3>1. decider'[d] = Undecided
      BY <1>0, <2>4 DEF Allow, DenyCleansUp
    <3> QED BY <1>1, <3>1
  <2>5. CASE Deny(d)
    <3>1. decider'[d] = [decider[d] EXCEPT !.step = "denied"]
      BY <1>0, <2>5 DEF Deny
    <3> QED BY <1>0, <1>2, <2>5, <3>1 DEF Deny, SetStatus, DeciderRow
  <2> QED BY <1>5, <2>1, <2>2, <2>3, <2>4, <2>5 DEF Decide
<1>6. ASSUME decider' = decider PROVE Goal
  BY <1>3, <1>6
<1>7. ASSUME NEW b \in Backups, Push(b) \/ DeleteBackup(b) \/ Encrypted(b) PROVE decider' = decider
  <2>1. CASE Push(b)
    BY <2>1 DEF Push, Prepare, Authorize, PushDenied, PushCleansUp, PushAsks, PushAwaits, PushAllowed
  <2>2. CASE DeleteBackup(b) \/ Encrypted(b)
    BY <2>2 DEF DeleteBackup, DeleteReads, DeleteCalls, DeleteMarks, Encrypted
  <2> QED BY <1>7, <2>1, <2>2
<1>8. ASSUME NEW j \in Jobs, Transfer(j) PROVE decider' = decider
  BY <1>8 DEF Transfer, Locate, Poll, SendChunk, ChunkFails, Complete, Close, MoveOn, Fail
<1>9. ASSUME NEW w \in arriving, PeerWrites(w) \/ PeerDrops(w) PROVE decider' = decider
  BY <1>9 DEF PeerWrites, PeerDrops
<1>10. CASE SourceRestarts \/ PeerChanges \/ UNCHANGED vars
  <2>1. decider' = decider
    BY <1>10 DEF SourceRestarts, PeerChanges, vars
  <2> QED BY <1>6, <2>1
<1>11. CASE ServiceRestarts
  <2>1. decider'[d] = Undecided
    BY <1>11 DEF ServiceRestarts
  <2> QED BY <1>1, <2>1
<1> QED BY <1>3, <1>4, <1>5, <1>6, <1>7, <1>8, <1>9, <1>10, <1>11 DEF Next, Proceed

\* No step forgets that two decisions have found a backup waiting.
LEMMA CrossedStays == Typed /\ [Next]_vars => crossed \subseteq crossed'
<1> SUFFICES ASSUME Typed, [Next]_vars PROVE crossed \subseteq crossed'
  OBVIOUS
<1> USE DEF serviceVars, threadVars, daemonVars, history
<1>1. ASSUME NEW b \in Backups, Push(b) PROVE crossed' = crossed
  BY <1>1 DEF Push, Prepare, Authorize, PushDenied, PushCleansUp, PushAsks, PushAwaits, PushAllowed
<1>2. ASSUME NEW d \in Deciders, Decide(d) PROVE crossed \subseteq crossed'
  BY <1>2 DEF Decide, ReadApproval, TakeApproval, CheckWaiting, Allow, Deny, DenyCleansUp
<1>3. ASSUME NEW j \in Jobs, Transfer(j) PROVE crossed' = crossed
  BY <1>3 DEF Transfer, Locate, Poll, SendChunk, ChunkFails, Complete, Close, MoveOn, Fail
<1>4. ASSUME NEW b \in Backups, DeleteBackup(b) \/ Encrypted(b) PROVE crossed' = crossed
  BY <1>4 DEF DeleteBackup, DeleteReads, DeleteCalls, DeleteMarks, Encrypted
<1>5. ASSUME NEW w \in arriving, PeerWrites(w) \/ PeerDrops(w) PROVE crossed' = crossed
  BY <1>5 DEF PeerWrites, PeerDrops
<1>6. CASE SourceRestarts \/ PeerChanges \/ ServiceRestarts \/ UNCHANGED vars
  BY <1>6 DEF SourceRestarts, PeerChanges, ServiceRestarts, vars
<1> QED BY <1>1, <1>2, <1>3, <1>4, <1>5, <1>6 DEF Next, Proceed

\* When a decision finds a backup waiting no other decision moves, and one
\* that had found it waiting before makes the two cross.
LEMMA StepChecks ==
    ASSUME Typed, [Next]_vars, NEW d \in Deciders, decider'[d].step = "checked", decider'[d] # decider[d],
           NEW e \in Deciders, e # d
    PROVE  /\ decider'[e] = decider[e]
           /\ decider[e].step = "checked" /\ decider[e].backup = decider'[d].backup =>
                    decider'[d].backup \in crossed'
<1> USE DEF serviceVars, threadVars, daemonVars, history
<1>0. decider \in [Deciders -> DeciderRow]
  BY DEF Typed, TypeOK, DeciderRow
<1>1. Undecided.step = "idle"
  BY DEF Undecided
<1>2. ASSUME NEW f \in Deciders, Decide(f) PROVE f = d
  BY <1>0, <1>2 DEF Decide, ReadApproval, TakeApproval, CheckWaiting, Allow, Deny, DenyCleansUp
<1>3. CASE Decide(d)
  <2>1. CheckWaiting(d)
    <3>1. ASSUME NEW b \in Backups, NEW allow \in BOOLEAN, ReadApproval(d, b, allow) PROVE FALSE
      BY <1>0, <3>1 DEF ReadApproval
    <3>2. ASSUME TakeApproval(d) PROVE FALSE
      BY <1>0, <3>2 DEF TakeApproval, DeciderRow
    <3>3. ASSUME Allow(d) \/ DenyCleansUp(d) PROVE FALSE
      BY <1>0, <1>1, <3>3 DEF Allow, DenyCleansUp
    <3>4. ASSUME Deny(d) PROVE FALSE
      BY <1>0, <3>4 DEF Deny, DeciderRow
    <3> QED BY <1>3, <3>1, <3>2, <3>3, <3>4 DEF Decide
  <2>2. decider'[e] = decider[e]
    BY <1>0, <2>1 DEF CheckWaiting
  <2>3. status[decider[d].backup] = "awaiting_approval"
    BY <1>0, <1>1, <2>1 DEF CheckWaiting
  <2>4. decider'[d].backup = decider[d].backup
    BY <1>0, <2>1, <2>3 DEF CheckWaiting, DeciderRow
  <2>5. ASSUME decider[e].step = "checked", decider[e].backup = decider[d].backup
        PROVE  decider[d].backup \in crossed'
    BY <2>1, <2>3, <2>5 DEF CheckWaiting, FoundWaiting
  <2> QED BY <2>2, <2>4, <2>5
<1>4. ASSUME NEW b \in Backups, Push(b) \/ DeleteBackup(b) \/ Encrypted(b) PROVE decider' = decider
  <2>1. CASE Push(b)
    BY <2>1 DEF Push, Prepare, Authorize, PushDenied, PushCleansUp, PushAsks, PushAwaits, PushAllowed
  <2>2. CASE DeleteBackup(b) \/ Encrypted(b)
    BY <2>2 DEF DeleteBackup, DeleteReads, DeleteCalls, DeleteMarks, Encrypted
  <2> QED BY <1>4, <2>1, <2>2
<1>5. ASSUME NEW j \in Jobs, Transfer(j) PROVE decider' = decider
  BY <1>5 DEF Transfer, Locate, Poll, SendChunk, ChunkFails, Complete, Close, MoveOn, Fail
<1>6. ASSUME NEW w \in arriving, PeerWrites(w) \/ PeerDrops(w) PROVE decider' = decider
  BY <1>6 DEF PeerWrites, PeerDrops
<1>7. ASSUME SourceRestarts \/ PeerChanges \/ UNCHANGED vars PROVE decider' = decider
  BY <1>7 DEF SourceRestarts, PeerChanges, vars
<1>8. ASSUME ServiceRestarts PROVE FALSE
  BY <1>1, <1>8 DEF ServiceRestarts
<1> QED BY <1>2, <1>3, <1>4, <1>5, <1>6, <1>7, <1>8 DEF Next, Proceed

\* The owner is told of a denial by the decision that made it.
LEMMA StepTells ==
    ASSUME Typed, [Next]_vars, NEW c \in Backups, "denied" \in told'[c], "denied" \notin told[c]
    PROVE  /\ status' = status
           /\ \E d \in Deciders :
                decider[d].step = "denied" /\ decider[d].backup = c /\ decider'[d] = Undecided
<1> USE DEF serviceVars, threadVars, daemonVars, history
<1>0. told \in [Backups -> SUBSET {"complete", "failed", "denied"}] /\ decider \in [Deciders -> DeciderRow]
  BY DEF Typed, TypeOK, DeciderRow
<1>1. ASSUME NEW d \in Deciders, Decide(d)
      PROVE  /\ status' = status
             /\ decider[d].step = "denied" /\ decider[d].backup = c /\ decider'[d] = Undecided
  <2>1. DenyCleansUp(d)
    BY <1>1 DEF Decide, ReadApproval, TakeApproval, CheckWaiting, Allow, Deny
  <2> QED BY <1>0, <2>1 DEF DenyCleansUp, Tell
<1>2. ASSUME NEW j \in Jobs, Transfer(j) PROVE FALSE
  <2>1. Close(j)
    BY <1>2 DEF Transfer, Locate, Poll, SendChunk, ChunkFails, Complete, MoveOn, Fail
  <2> QED BY <1>0, <2>1 DEF Close, Tell
<1>3. ASSUME NEW b \in Backups, Push(b) \/ DeleteBackup(b) \/ Encrypted(b) PROVE FALSE
  <2>1. CASE Push(b)
    BY <2>1 DEF Push, Prepare, Authorize, PushDenied, PushCleansUp, PushAsks, PushAwaits, PushAllowed
  <2>2. CASE DeleteBackup(b) \/ Encrypted(b)
    BY <2>2 DEF DeleteBackup, DeleteReads, DeleteCalls, DeleteMarks, Encrypted
  <2> QED BY <1>3, <2>1, <2>2
<1>4. ASSUME NEW w \in arriving, PeerWrites(w) \/ PeerDrops(w) PROVE FALSE
  BY <1>4 DEF PeerWrites, PeerDrops
<1>5. CASE SourceRestarts \/ PeerChanges \/ ServiceRestarts \/ UNCHANGED vars
  BY <1>5 DEF SourceRestarts, PeerChanges, ServiceRestarts, vars
<1> QED BY <1>1, <1>2, <1>3, <1>4, <1>5 DEF Next, Proceed

\* A backup stays untouched unless a transfer of it starts.
LEMMA StepUntouched ==
    ASSUME Typed, [Next]_vars, NEW c \in Backups, Untouched(c), starts'[c] = starts[c]
    PROVE  Untouched(c)'
<1> USE DEF serviceVars, threadVars, daemonVars, history
<1>0. /\ job \in [Jobs -> JobRow] /\ stored \in [Backups -> Dir] /\ starts \in [Backups -> Nat]
  BY DEF Typed, TypeOK, JobRow
<1>1. ASSUME UNCHANGED <<job, arriving, stored>> PROVE Untouched(c)'
  BY <1>1 DEF Untouched
<1>2. ASSUME NEW b \in Backups, NEW approved \in BOOLEAN, Start(b, approved), UNCHANGED <<arriving, stored>>
      PROVE  Untouched(c)'
  <2>1. b # c
    BY <1>0, <1>2 DEF Start
  <2>2. PICK j \in Jobs :
          job' = [job EXCEPT ![j] = [step |-> "starting", backup |-> b,
                                     approved |-> approved, next |-> 0]]
    BY <1>2 DEF Start
  <2> QED BY <1>0, <1>2, <2>1, <2>2 DEF Untouched
<1>3. ASSUME NEW b \in Backups, Push(b) PROVE Untouched(c)'
  <2>1. CASE PushAllowed(b)
    BY <1>2, <2>1 DEF PushAllowed
  <2>2. CASE ~PushAllowed(b)
    BY <1>1, <1>3, <2>2 DEF Push, Prepare, Authorize, PushDenied, PushCleansUp, PushAsks, PushAwaits
  <2> QED BY <2>1, <2>2
<1>4. ASSUME NEW d \in Deciders, Decide(d) PROVE Untouched(c)'
  <2>1. CASE Allow(d)
    <3>1. decider[d].backup \in Backups
      BY <2>1 DEF Allow, Typed, Named
    <3> QED BY <1>2, <2>1, <3>1 DEF Allow
  <2>2. CASE ~Allow(d)
    BY <1>1, <1>4, <2>2 DEF Decide, ReadApproval, TakeApproval, CheckWaiting, Deny, DenyCleansUp
  <2> QED BY <2>1, <2>2
<1>5. ASSUME NEW j \in Jobs, Transfer(j) PROVE Untouched(c)'
  <2>1. stored' = stored /\ job[j].step # "free"
    BY <1>5 DEF Transfer, Locate, Poll, SendChunk, ChunkFails, Complete, Close, MoveOn, Fail
  <2>2. \A k \in Jobs : job'[k].backup = job[k].backup \/ job'[k].backup = Nobody
    BY <1>0, <1>5 DEF Transfer, Locate, Poll, SendChunk, ChunkFails, Complete, Close, MoveOn, Fail, JobRow, Free
  <2>3. \A w \in arriving' : w \in arriving \/ w.backup = job[j].backup
    BY <1>5 DEF Transfer, Locate, Poll, SendChunk, ChunkFails, Complete, Close, MoveOn, Fail
  <2> QED BY <2>1, <2>2, <2>3, BackupAssumption DEF Untouched
<1>6. ASSUME NEW w \in arriving, PeerWrites(w) \/ PeerDrops(w) PROVE Untouched(c)'
  <2>1. w.backup # c /\ arriving' \subseteq arriving
    BY <1>6 DEF Untouched, PeerWrites, PeerDrops
  <2>2. stored'[c] = stored[c]
    BY <1>0, <1>6, <2>1 DEF PeerWrites, PeerDrops
  <2>3. \A k \in Jobs : job'[k].backup = job[k].backup
    BY <1>0, <1>6 DEF PeerWrites, PeerDrops, JobRow
  <2> QED BY <2>1, <2>2, <2>3 DEF Untouched
<1>7. ASSUME NEW b \in Backups, DeleteBackup(b) PROVE Untouched(c)'
  <2>1. UNCHANGED <<job, arriving>>
    BY <1>7 DEF DeleteBackup, DeleteReads, DeleteCalls, DeleteMarks
  <2>2. stored'[c] = stored[c] \/ stored'[c] = Empty
    BY <1>0, <1>7 DEF DeleteBackup, DeleteReads, DeleteCalls, DeleteMarks
  <2> QED BY <2>1, <2>2 DEF Untouched
<1>8. CASE (\E b \in Backups : Encrypted(b)) \/ SourceRestarts \/ PeerChanges \/ UNCHANGED vars
  <2>1. UNCHANGED <<job, arriving, stored>>
    BY <1>8 DEF Encrypted, SourceRestarts, PeerChanges, vars
  <2> QED BY <1>1, <2>1
<1>9. CASE ServiceRestarts
  BY <1>9, BackupAssumption DEF ServiceRestarts, Untouched, Free
<1> QED BY <1>3, <1>4, <1>5, <1>6, <1>7, <1>8, <1>9 DEF Next, Proceed

----------------------------------------------------------------------------
(* Nothing moves while the owner is asked *)

LEMMA InitMoving == Init => Moving
BY BackupAssumption DEF Init, Moving, PushFirst, Asking, CheckedAfterPush, Untouched, Undecided, Free

LEMMA NextMoving == Typed /\ Moving /\ [Next]_vars => Moving'
<1> SUFFICES ASSUME Typed, Moving, [Next]_vars PROVE Moving'
  OBVIOUS
<1>1. ASSUME NEW c \in Backups, pushing[c] # "done" \/ status[c] = "awaiting_approval",
             pushing'[c] # "done" \/ status'[c] = "awaiting_approval"
      PROVE  Untouched(c)'
  <2>1. Untouched(c)
    BY <1>1 DEF Moving, PushFirst, Asking
  <2>2. ASSUME starts'[c] # starts[c] PROVE FALSE
    <3>1. status'[c] = "transferring" /\ pushing'[c] # "done"
      BY <1>1, <2>2, StepStarts
    <3>2. pushing[c] # "done"
      BY <3>1, StepPushing
    <3>3. PICK d \in Deciders : decider[d].step = "checked" /\ decider[d].backup = c
      BY <2>2, <3>1, StepStarts
    <3> QED BY <3>2, <3>3 DEF Moving, CheckedAfterPush
  <2> QED BY <2>1, <2>2, StepUntouched
<1>2. PushFirst'
  <2> SUFFICES ASSUME NEW c \in Backups, pushing'[c] # "done"
               PROVE  status'[c] # "awaiting_approval" /\ Untouched(c)'
    BY DEF PushFirst
  <2>1. pushing[c] # "done"
    BY StepPushing
  <2>2. status'[c] # "awaiting_approval"
    BY <2>1, StepAwaits DEF Moving, PushFirst
  <2> QED BY <1>1, <2>1, <2>2
<1>3. Asking'
  <2> SUFFICES ASSUME NEW c \in Backups, status'[c] = "awaiting_approval"
               PROVE  Untouched(c)'
    BY DEF Asking
  <2>1. pushing[c] # "done" \/ status[c] = "awaiting_approval"
    BY StepAwaits
  <2> QED BY <1>1, <2>1
<1>4. CheckedAfterPush'
  <2> SUFFICES ASSUME NEW d \in Deciders, decider'[d].step \in {"checked", "denied"}
               PROVE  pushing'[decider'[d].backup] = "done"
    BY DEF CheckedAfterPush
  <2>1. /\ decider'[d].backup = decider[d].backup /\ decider[d].backup \in Backups
        /\ decider[d].step \in {"checked", "denied"} \/ status[decider[d].backup] = "awaiting_approval"
    BY StepDecides
  <2>2. pushing[decider[d].backup] = "done"
    BY <2>1 DEF Moving, PushFirst, CheckedAfterPush
  <2> QED BY <2>1, <2>2, StepPushing
<1> QED BY <1>2, <1>3, <1>4 DEF Moving

\* While its row says that the peer's owner is asked, no thread works on a
\* backup and the peer holds none of it, however many decisions and deletes
\* of it are under way.
THEOREM NothingMovesBeforeTheOwnerDecides == Spec => []NothingMovesWhileAsking
<1>1. Moving => NothingMovesWhileAsking
  BY DEF Moving, Asking, Untouched, NothingMovesWhileAsking, Transferring
<1> QED BY <1>1, InitTyped, NextTyped, InitMoving, NextMoving, PTL DEF Spec

----------------------------------------------------------------------------
(* Decisions that do not cross *)

\* A transfer of the backup may still be started, or it was denied.
Denying(b) == \E d \in Deciders : decider[d].backup = b /\ decider[d].step = "denied"
Refused(b) == "denied" \in told[b] \/ Denying(b)
Checked(b) == \E d \in Deciders : decider[d].backup = b /\ decider[d].step = "checked"
Unstarted(b) ==
    pushing[b] # "done" \/ status[b] = "awaiting_approval" \/ Checked(b) \/ Refused(b)

\* One decision at most has found the backup waiting and written nothing yet.
OneChecked(b) ==
    \A d, e \in Deciders :
        decider[d].step = "checked" /\ decider[d].backup = b
        /\ decider[e].step = "checked" /\ decider[e].backup = b => d = e

Single ==
    \A b \in Backups \ crossed :
        /\ OneChecked(b)
        /\ starts[b] <= 1
        /\ Unstarted(b) => Untouched(b) /\ starts[b] = 0
        /\ Refused(b) => pushing[b] = "done" /\ status[b] # "awaiting_approval" /\ ~Checked(b)

LEMMA InitSingle == Init => Single
BY BackupAssumption DEF Init, Single, OneChecked, Unstarted, Refused, Denying, Checked, Untouched, Undecided, Free

LEMMA NextSingle ==
    ASSUME Typed, Moving, Single, [Next]_vars
    PROVE  Single'
<1> SUFFICES ASSUME NEW b \in Backups \ crossed'
             PROVE  /\ OneChecked(b)'
                    /\ starts'[b] <= 1
                    /\ Unstarted(b)' => Untouched(b)' /\ starts'[b] = 0
                    /\ Refused(b)' => pushing'[b] = "done" /\ status'[b] # "awaiting_approval" /\ ~Checked(b)'
  BY DEF Single
<1>b. b \in Backups /\ b \notin crossed
  BY CrossedStays
<1> USE <1>b
<1>0. starts[b] \in Nat
  BY DEF Typed, TypeOK
<1>c. OneChecked(b)
  BY DEF Single
<1>d. OneChecked(b)'
  <2> SUFFICES ASSUME NEW d \in Deciders, NEW e \in Deciders, d # e,
                      decider'[d].step = "checked", decider'[d].backup = b,
                      decider'[e].step = "checked", decider'[e].backup = b
               PROVE  FALSE
    BY DEF OneChecked
  <2>1. CASE decider'[d] # decider[d]
    <3>1. decider'[e] = decider[e] /\ ~(decider[e].step = "checked" /\ decider[e].backup = b)
      BY <2>1, StepChecks
    <3> QED BY <3>1
  <2>2. CASE decider'[e] # decider[e]
    <3>1. decider'[d] = decider[d] /\ ~(decider[d].step = "checked" /\ decider[d].backup = b)
      BY <2>2, StepChecks
    <3> QED BY <3>1
  <2>3. CASE decider'[d] = decider[d] /\ decider'[e] = decider[e]
    BY <1>c, <2>3 DEF OneChecked
  <2> QED BY <2>1, <2>2, <2>3
<1>e. ASSUME NEW d \in Deciders, decider[d].step = "checked", decider[d].backup = b, decider'[d].step # "checked"
      PROVE  ~Checked(b)'
  <2> SUFFICES ASSUME NEW e \in Deciders, decider'[e].step = "checked", decider'[e].backup = b
               PROVE  FALSE
    BY DEF Checked
  <2>1. e # d
    BY <1>e
  <2>2. decider'[e] = decider[e]
    <3> SUFFICES ASSUME decider'[e] # decider[e] PROVE FALSE
      OBVIOUS
    <3>1. decider'[d] = decider[d]
      BY <2>1, StepChecks
    <3> QED BY <1>e, <3>1
  <2> QED BY <1>c, <1>e, <2>1, <2>2 DEF OneChecked
<1>1. Refused(b)' => Refused(b) \/ (Checked(b) /\ status'[b] = "denied")
  <2> SUFFICES ASSUME Refused(b)' PROVE Refused(b) \/ (Checked(b) /\ status'[b] = "denied")
    OBVIOUS
  <2>1. CASE "denied" \in told'[b]
    BY <2>1, StepTells DEF Refused, Denying
  <2>2. ASSUME NEW d \in Deciders, decider'[d].backup = b, decider'[d].step = "denied"
        PROVE  Refused(b) \/ (Checked(b) /\ status'[b] = "denied")
    BY <2>2, StepDecides DEF Refused, Denying, Checked
  <2> QED BY <2>1, <2>2 DEF Refused, Denying
<1>2. Checked(b)' => Checked(b) \/ status[b] = "awaiting_approval"
  <2> SUFFICES ASSUME NEW d \in Deciders, decider'[d].backup = b, decider'[d].step = "checked"
               PROVE  Checked(b) \/ status[b] = "awaiting_approval"
    BY DEF Checked
  <2> QED BY StepDecides DEF Checked
<1>3. Refused(b)' => pushing'[b] = "done" /\ status'[b] # "awaiting_approval" /\ ~Checked(b)'
  <2> SUFFICES ASSUME Refused(b)'
               PROVE  pushing'[b] = "done" /\ status'[b] # "awaiting_approval" /\ ~Checked(b)'
    OBVIOUS
  <2>1. CASE Refused(b)
    <3>1. pushing[b] = "done" /\ status[b] # "awaiting_approval" /\ ~Checked(b)
      BY <2>1 DEF Single
    <3> QED BY <1>2, <3>1, StepPushing, StepAwaits
  <2>2. CASE Checked(b) /\ ~Refused(b)
    <3>1. pushing[b] = "done" /\ status'[b] = "denied"
      BY <1>1, <2>2 DEF Checked, Moving, CheckedAfterPush
    <3>2. PICK d \in Deciders : decider'[d].backup = b /\ decider'[d].step = "denied"
      <4>1. "denied" \notin told'[b]
        BY <2>2, StepTells DEF Refused, Denying
      <4> QED BY <4>1 DEF Refused, Denying
    <3>3. ~Checked(b)'
      <4>1. decider[d].step = "checked" /\ decider[d].backup = b
        BY <2>2, <3>2, StepDecides DEF Refused, Denying
      <4> QED BY <1>e, <3>2, <4>1
    <3> QED BY <3>1, <3>3, StepPushing
  <2> QED BY <1>1, <2>1, <2>2
<1>4. Unstarted(b)' => Unstarted(b)
  BY <1>1, <1>2, StepPushing, StepAwaits DEF Unstarted
<1>5. CASE starts'[b] = starts[b]
  BY <1>d, <1>3, <1>4, <1>5, StepUntouched DEF Single
<1>6. CASE starts'[b] # starts[b]
  <2>1. Unstarted(b) /\ ~Refused(b)
    <3>1. pushing[b] = "allow" \/ Checked(b)
      BY <1>6, StepStarts DEF Checked
    <3> QED BY <3>1 DEF Unstarted, Single
  <2>2. starts'[b] = 1
    BY <1>0, <1>6, <2>1, StepStarts DEF Single
  <2>3. ~Unstarted(b)'
    <3>1. status'[b] = "transferring" /\ told' = told
      BY <1>6, StepStarts
    <3>2. ~Refused(b)'
      <4>1. "denied" \notin told'[b]
        BY <2>1, <3>1 DEF Refused
      <4>2. ~(Denying(b))'
        <5> SUFFICES ASSUME NEW d \in Deciders, decider'[d].backup = b, decider'[d].step = "denied"
                     PROVE  FALSE
          BY DEF Denying
        <5> QED BY <2>1, <3>1, StepDecides DEF Refused, Denying
      <4> QED BY <4>1, <4>2 DEF Refused
    <3>3. pushing'[b] = "done" /\ ~Checked(b)'
      <4>1. CASE pushing[b] = "allow" /\ pushing'[b] = "done" /\ decider' = decider
        <5>1. ~Checked(b)
          BY <4>1 DEF Checked, Moving, CheckedAfterPush
        <5> QED BY <4>1, <5>1 DEF Checked
      <4>2. ASSUME NEW d \in Deciders, decider[d].step = "checked", decider[d].backup = b,
                   decider'[d] = Undecided
            PROVE  pushing'[b] = "done" /\ ~Checked(b)'
        <5>1. pushing'[b] = "done"
          BY <4>2, StepPushing DEF Moving, CheckedAfterPush
        <5>2. decider'[d].step # "checked"
          BY <4>2 DEF Undecided
        <5> QED BY <1>e, <4>2, <5>1, <5>2
      <4> QED BY <1>6, <4>1, <4>2, StepStarts
    <3> QED BY <3>1, <3>2, <3>3 DEF Unstarted
  <2> QED BY <1>d, <1>3, <2>2, <2>3
<1> QED BY <1>5, <1>6

\* However many decisions read an approval before one of them deletes it, the
\* backup is transferred by two threads only if two of them had found it
\* waiting before either wrote what it decided.
THEOREM UncrossedDecisionsStartOnce == Spec => []TransferredOnce
<1>1. Single => TransferredOnce
  BY DEF Single, TransferredOnce
<1>2. Typed /\ Moving /\ Single /\ [Next]_vars => Single'
  BY NextSingle
<1> QED BY <1>1, <1>2, InitTyped, NextTyped, InitMoving, NextMoving, InitSingle, PTL DEF Spec

\* And with the same exception, once its owner was told that a backup was
\* denied, nothing of it moves and the peer holds none of it.
THEOREM UncrossedDenialStands == Spec => []DenialIsFinal
<1>1. Single => DenialIsFinal
  BY DEF Single, Unstarted, Refused, Untouched, DenialIsFinal, Transferring
<1>2. Typed /\ Moving /\ Single /\ [Next]_vars => Single'
  BY NextSingle
<1> QED BY <1>1, <1>2, InitTyped, NextTyped, InitMoving, NextMoving, InitSingle, PTL DEF Spec

----------------------------------------------------------------------------
(* Chunks and whoever allowed them *)

LEMMA ApprovedKept == Typed /\ ApprovedByOwner /\ [Next]_vars => ApprovedByOwner'
<1> SUFFICES ASSUME Typed, ApprovedByOwner, [Next]_vars PROVE ApprovedByOwner'
  OBVIOUS
<1> USE DEF serviceVars, threadVars, daemonVars, history
<1>0. job \in [Jobs -> JobRow]
  BY DEF Typed, TypeOK, JobRow
<1>1. ASSUME NEW b \in Backups, PushAllowed(b) PROVE ApprovedByOwner'
  BY <1>0, <1>1 DEF PushAllowed, Start, ApprovedByOwner
<1>2. ASSUME NEW d \in Deciders, Allow(d) PROVE ApprovedByOwner'
  BY <1>0, <1>2 DEF Allow, Start, ApprovedByOwner
<1>3. ASSUME NEW j \in Jobs, Transfer(j) PROVE ApprovedByOwner'
  <2>1. allowed' = allowed
    BY <1>3 DEF Transfer, Locate, Poll, SendChunk, ChunkFails, Complete, Close, MoveOn, Fail
  <2>2. \A k \in Jobs : job'[k].approved => job[k].approved /\ job'[k].backup = job[k].backup
    BY <1>0, <1>3 DEF Transfer, Locate, Poll, SendChunk, ChunkFails, Complete, Close, MoveOn, Fail, JobRow, Free
  <2> QED BY <2>1, <2>2 DEF ApprovedByOwner
<1>4. ASSUME NEW w \in arriving, PeerWrites(w) PROVE ApprovedByOwner'
  <2>1. \A k \in Jobs : job'[k].approved = job[k].approved /\ job'[k].backup = job[k].backup
    BY <1>0, <1>4 DEF PeerWrites, JobRow
  <2>2. allowed' = allowed
    BY <1>4 DEF PeerWrites
  <2> QED BY <2>1, <2>2 DEF ApprovedByOwner
<1>5. CASE ServiceRestarts
  BY <1>5 DEF ServiceRestarts, ApprovedByOwner, Free
<1>6. ASSUME UNCHANGED <<job, allowed>> PROVE ApprovedByOwner'
  BY <1>6 DEF ApprovedByOwner
<1>7. ASSUME NEW b \in Backups, Push(b), ~PushAllowed(b) PROVE UNCHANGED <<job, allowed>>
  BY <1>7 DEF Push, Prepare, Authorize, PushDenied, PushCleansUp, PushAsks, PushAwaits
<1>8. ASSUME NEW d \in Deciders, Decide(d), ~Allow(d) PROVE UNCHANGED <<job, allowed>>
  BY <1>8 DEF Decide, ReadApproval, TakeApproval, CheckWaiting, Deny, DenyCleansUp
<1>9. ASSUME NEW b \in Backups, Encrypted(b) \/ DeleteBackup(b) PROVE UNCHANGED <<job, allowed>>
  BY <1>9 DEF Encrypted, DeleteBackup, DeleteReads, DeleteCalls, DeleteMarks
<1>10. ASSUME NEW w \in arriving, PeerDrops(w) PROVE UNCHANGED <<job, allowed>>
  BY <1>10 DEF PeerDrops
<1>11. CASE SourceRestarts \/ PeerChanges \/ UNCHANGED vars
  <2>1. UNCHANGED <<job, allowed>>
    BY <1>11 DEF SourceRestarts, PeerChanges, vars
  <2> QED BY <1>6, <2>1
<1> QED BY <1>1, <1>2, <1>3, <1>4, <1>5, <1>6, <1>7, <1>8, <1>9, <1>10, <1>11 DEF Next, Proceed

\* A daemon that asks takes a chunk only of a backup its owner allowed, also
\* from a thread that was started while the daemon still allowed writes.
THEOREM ChunksNeedTheirOwner == Spec => AskNeedsItsOwner
<1>1. Init => ApprovedByOwner
  BY DEF Init, ApprovedByOwner, Free
<1>2. Typed /\ ApprovedByOwner /\ [Next]_vars =>
        [\A w \in arriving' \ arriving :
            tier = "allow" \/ (tier = "ask" /\ w.backup \in allowed)]_vars
  <2> SUFFICES ASSUME Typed, ApprovedByOwner, [Next]_vars, NEW w \in arriving' \ arriving
               PROVE  tier = "allow" \/ (tier = "ask" /\ w.backup \in allowed)
    OBVIOUS
  <2> USE DEF serviceVars, threadVars, daemonVars, history
  <2>1. PICK j \in Jobs : SendChunk(j)
    <3>1. ASSUME NEW b \in Backups, Push(b) PROVE FALSE
      BY <3>1 DEF Push, Prepare, Authorize, PushDenied, PushCleansUp, PushAsks, PushAwaits, PushAllowed
    <3>2. ASSUME NEW b \in Backups, Encrypted(b) \/ DeleteBackup(b) PROVE FALSE
      BY <3>2 DEF Encrypted, DeleteBackup, DeleteReads, DeleteCalls, DeleteMarks
    <3>3. ASSUME NEW d \in Deciders, Decide(d) PROVE FALSE
      BY <3>3 DEF Decide, ReadApproval, TakeApproval, CheckWaiting, Allow, Deny, DenyCleansUp
    <3>4. ASSUME NEW x \in arriving, PeerWrites(x) \/ PeerDrops(x) PROVE FALSE
      BY <3>4 DEF PeerWrites, PeerDrops
    <3>5. CASE SourceRestarts \/ PeerChanges \/ ServiceRestarts \/ UNCHANGED vars
      BY <3>5 DEF SourceRestarts, PeerChanges, ServiceRestarts, vars
    <3>6. ASSUME NEW j \in Jobs, Transfer(j), ~SendChunk(j) PROVE FALSE
      BY <3>6 DEF Transfer, Locate, Poll, ChunkFails, Complete, Close, MoveOn, Fail
    <3> QED BY <3>1, <3>2, <3>3, <3>4, <3>5, <3>6 DEF Next, Proceed
  <2>2. w.backup = job[j].backup
    BY <2>1 DEF SendChunk
  <2> QED BY <2>1, <2>2 DEF SendChunk, ApprovedByOwner
<1> QED BY <1>1, <1>2, InitTyped, NextTyped, ApprovedKept, PTL DEF Spec, AskNeedsItsOwner

----------------------------------------------------------------------------
(* A complete backup is whole at the peer *)

WasErased(b) == \E e \in erased : e.backup = b

\* A thread copies in order, and has waited for all it sent.
CopiedBy(j) ==
    /\ job[j].step \in {"starting", "preparing"} => job[j].next = 0
    /\ job[j].step \in {"copying", "waiting"} /\ ~WasErased(job[j].backup) =>
        \A c \in Chunks : c < job[j].next => c \in stored[job[j].backup].chunks
Copied == \A j \in Jobs : CopiedBy(j)

\* Chunk 0 brings the manifest.
Headed == \A b \in Backups : 0 \in stored[b].chunks => stored[b].manifest

Storing == Copied /\ Headed /\ CompleteIsStored

LEMMA InitStoring == Init => Storing
<1> SUFFICES ASSUME Init PROVE Storing
  OBVIOUS
<1>2. Headed
  BY DEF Init, Headed, Empty
<1> QED BY <1>2 DEF Init, Storing, Copied, CopiedBy, CompleteIsStored, Free

\* Nothing of it changes, or threads only end.
LEMMA StoringKept ==
    ASSUME Storing, UNCHANGED <<stored, erased>>,
           \A b \in Backups : status'[b] = "complete" => status[b] = "complete",
           \A j \in Jobs : job'[j].step \in {"starting", "preparing", "copying", "waiting"} =>
                /\ job'[j].next = job[j].next /\ job'[j].backup = job[j].backup
                /\ job[j].step \in {"starting", "preparing", "copying", "waiting"}
                /\ job'[j].step \in {"starting", "preparing"} => job[j].step \in {"starting", "preparing"}
                /\ job'[j].step \in {"copying", "waiting"} =>
                        job[j].step \in {"copying", "waiting"} \/ job[j].next = 0
    PROVE  Storing'
<1>2. Headed' /\ CompleteIsStored'
  BY DEF Storing, Headed, CompleteIsStored
<1>3. Copied'
  BY BackupAssumption DEF Storing, Copied, CopiedBy, WasErased, Chunks
<1> QED BY <1>2, <1>3 DEF Storing

\* A thread that starts has copied nothing and is to copy from the beginning.
LEMMA StartStoring ==
    ASSUME Typed, Storing, NEW b \in Backups, NEW approved \in BOOLEAN, Start(b, approved),
           SetStatus(b, "transferring"), UNCHANGED <<stored, erased>>
    PROVE  Storing'
<1>1. PICK j \in Jobs :
        job' = [job EXCEPT ![j] = [step |-> "starting", backup |-> b,
                                   approved |-> approved, next |-> 0]]
  BY DEF Start
<1>2. job \in [Jobs -> JobRow] /\ status \in [Backups -> Statuses]
  BY DEF Typed, TypeOK, JobRow
<1>3. Headed' /\ CompleteIsStored'
  BY <1>2 DEF Storing, Headed, CompleteIsStored, SetStatus
<1>4. Copied'
  <2> SUFFICES ASSUME NEW k \in Jobs PROVE CopiedBy(k)'
    BY DEF Copied
  <2>1. CASE k = j
    BY <1>1, <1>2, <2>1 DEF CopiedBy
  <2>2. CASE k # j
    <3>1. job'[k] = job[k]
      BY <1>1, <1>2, <2>2
    <3>2. WasErased(job[k].backup)' = WasErased(job[k].backup)
      BY <3>1 DEF WasErased
    <3> QED BY <3>1, <3>2 DEF Storing, Copied, CopiedBy
  <2> QED BY <2>1, <2>2
<1> QED BY <1>3, <1>4 DEF Storing

LEMMA TransferStoring ==
    ASSUME Typed, Storing, NEW j \in Jobs, Transfer(j)
    PROVE  Storing'
<1> USE DEF serviceVars, threadVars, daemonVars, history
<1>0. /\ job \in [Jobs -> JobRow] /\ job[j] \in JobRow /\ status \in [Backups -> Statuses]
      /\ UNCHANGED <<stored, erased>>
  BY DEF Typed, TypeOK, JobRow, Transfer, Locate, Poll, SendChunk, ChunkFails, Complete, Close, MoveOn, Fail
<1>1. CASE Complete(j)
  <2>1. job[j].step = "copying" /\ job[j].backup \in Backups /\ job[j].next = LastChunk + 1
    BY <1>0, <1>1, BackupAssumption DEF Complete, Typed, Named, JobRow, Chunks
  <2>2. ~WasErased(job[j].backup) =>
            stored[job[j].backup].manifest /\ stored[job[j].backup].chunks = Chunks
    <3> SUFFICES ASSUME ~WasErased(job[j].backup)
                 PROVE  stored[job[j].backup].manifest /\ stored[job[j].backup].chunks = Chunks
      OBVIOUS
    <3>1. \A c \in Chunks : c \in stored[job[j].backup].chunks
      BY <2>1, BackupAssumption DEF Storing, Copied, CopiedBy, Chunks
    <3>2. stored[job[j].backup].chunks \subseteq Chunks
      BY <2>1 DEF Typed, TypeOK, Dir
    <3>3. stored[job[j].backup].chunks = Chunks
      BY <3>1, <3>2
    <3>4. 0 \in Chunks
      BY BackupAssumption DEF Chunks
    <3> QED BY <2>1, <3>3, <3>4 DEF Storing, Headed
  <2>3. CompleteIsStored'
    BY <1>0, <1>1, <2>1, <2>2 DEF Complete, SetStatus, Storing, CompleteIsStored, WasErased
  <2>4. Headed'
    BY <1>0 DEF Storing, Headed
  <2>5. Copied'
    <3>1. \A k \in Jobs : k # j => job'[k] = job[k]
      BY <1>0, <1>1 DEF Complete
    <3>2. job'[j].step = "completed"
      BY <1>0, <1>1 DEF Complete, JobRow
    <3> QED BY <1>0, <3>1, <3>2 DEF Storing, Copied, CopiedBy, WasErased
  <2> QED BY <2>3, <2>4, <2>5 DEF Storing
<1>2. CASE ~Complete(j)
  <2>1. \A b \in Backups : status'[b] = "complete" => status[b] = "complete"
    BY <1>0, <1>2 DEF Transfer, Locate, Poll, SendChunk, ChunkFails, Close, MoveOn, Fail, SetStatus
  <2>2. \A k \in Jobs : k # j => job'[k] = job[k]
    BY <1>0, <1>2 DEF Transfer, Locate, Poll, SendChunk, ChunkFails, Close, MoveOn, Fail
  <2>3. \/ job'[j].step \in {"failed", "unsourced", "free"}
        \/ /\ job'[j].next = job[j].next /\ job'[j].backup = job[j].backup
           /\ \/ job[j].step = "starting" /\ job'[j].step = "preparing"
              \/ job[j].step = "preparing" /\ job'[j].step = "copying"
              \/ job[j].step = "copying" /\ job'[j].step = "waiting"
    <3>1. CASE Locate(j) \/ Poll(j) \/ ChunkFails(j)
      BY <1>0, <3>1 DEF Locate, Poll, ChunkFails, MoveOn, Fail, JobRow
    <3>2. CASE SendChunk(j)
      BY <1>0, <3>2 DEF SendChunk, JobRow
    <3>3. CASE Close(j)
      <4>1. job'[j] = Free
        BY <1>0, <3>3 DEF Close
      <4> QED BY <4>1 DEF Free
    <3> QED BY <1>2, <3>1, <3>2, <3>3 DEF Transfer
  <2>4. job[j].step \in {"starting", "preparing"} => job[j].next = 0
    BY DEF Storing, Copied, CopiedBy
  <2> QED BY <1>0, <2>1, <2>2, <2>3, <2>4, StoringKept
<1> QED BY <1>1, <1>2

LEMMA WritesStoring ==
    ASSUME Typed, Storing, NEW w \in arriving, PeerWrites(w)
    PROVE  Storing'
<1> USE DEF serviceVars, threadVars, daemonVars, history
<1>0. /\ job \in [Jobs -> JobRow] /\ stored \in [Backups -> Dir]
      /\ w.backup \in Backups /\ w.index \in Chunks
      /\ UNCHANGED <<status, erased>>
  BY DEF Typed, TypeOK, JobRow, PeerWrites
<1>1. /\ stored'[w.backup].chunks = stored[w.backup].chunks \union {w.index}
      /\ stored'[w.backup].manifest = (stored[w.backup].manifest \/ w.index = 0)
      /\ \A b \in Backups : b # w.backup => stored'[b] = stored[b]
  <2>1. PICK marked \in BOOLEAN :
          stored' = [stored EXCEPT ![w.backup] = Written(stored[w.backup], w.index, marked)]
    BY <1>0 DEF PeerWrites
  <2> QED BY <1>0, <2>1 DEF Written
<1>2. Headed' /\ CompleteIsStored'
  <2>1. Headed'
    BY <1>1 DEF Storing, Headed
  <2>2. CompleteIsStored'
    BY <1>0, <1>1 DEF Storing, CompleteIsStored
  <2> QED BY <2>1, <2>2
<1>3. Copied'
  <2> SUFFICES ASSUME NEW k \in Jobs PROVE CopiedBy(k)'
    BY DEF Copied
  <2>1. job'[k].backup = job[k].backup /\ WasErased(job[k].backup)' = WasErased(job[k].backup)
    BY <1>0 DEF PeerWrites, JobRow, WasErased
  <2>2. job[k].step # "free" => job[k].backup \in Backups
    BY DEF Typed, Named
  <2>3. CASE job[k].step = "waiting" /\ job[k].backup = w.backup /\ job[k].next = w.index
    <3>1. job'[k].step = "copying" /\ job'[k].next = w.index + 1
      BY <1>0, <2>3 DEF PeerWrites, JobRow
    <3>2. ASSUME ~WasErased(w.backup), NEW c \in Chunks, c < w.index + 1
          PROVE  c \in stored'[w.backup].chunks
      <4>1. c < w.index \/ c = w.index
        BY <1>0, <3>2, BackupAssumption DEF Chunks
      <4>2. c < w.index => c \in stored[w.backup].chunks
        BY <2>3, <3>2 DEF Storing, Copied, CopiedBy
      <4> QED BY <1>1, <4>1, <4>2
    <3> QED BY <2>1, <2>3, <3>1, <3>2 DEF CopiedBy
  <2>4. CASE ~(job[k].step = "waiting" /\ job[k].backup = w.backup /\ job[k].next = w.index)
    <3>1. job'[k] = job[k]
      BY <1>0, <2>4 DEF PeerWrites
    <3>2. job[k].step \in {"copying", "waiting"} =>
            stored[job[k].backup].chunks \subseteq stored'[job[k].backup].chunks
      BY <1>1, <2>2
    <3> QED BY <2>1, <3>1, <3>2 DEF Storing, Copied, CopiedBy
  <2> QED BY <2>3, <2>4
<1> QED BY <1>2, <1>3 DEF Storing

LEMMA DeleteStoring ==
    ASSUME Typed, Storing, NEW b \in Backups, DeleteBackup(b)
    PROVE  Storing'
<1> USE DEF serviceVars, threadVars, daemonVars, history
<1>0. status \in [Backups -> Statuses] /\ stored \in [Backups -> Dir]
  BY DEF Typed, TypeOK
<1>1. job' = job /\ \A c \in Backups : status'[c] = "complete" => status[c] = "complete"
  <2>1. CASE DeleteCalls(b)
    BY <2>1 DEF DeleteCalls
  <2>2. CASE DeleteMarks(b)
    BY <1>0, <2>2 DEF DeleteMarks, SetStatus
  <2>3. CASE \E online \in BOOLEAN : DeleteReads(b, online)
    BY <2>3 DEF DeleteReads
  <2> QED BY <2>1, <2>2, <2>3 DEF DeleteBackup
<1>2. \/ UNCHANGED <<stored, erased>>
      \/ /\ stored' = [stored EXCEPT ![b] = Empty]
         /\ erased \subseteq erased' /\ WasErased(b)'
  <2>1. CASE DeleteCalls(b)
    <3>1. PICK arrives \in BOOLEAN :
            /\ stored' = IF arrives THEN [stored EXCEPT ![b] = Empty] ELSE stored
            /\ erased' = IF arrives THEN erased \union {[backup |-> b, saw |-> deleting[b].saw]} ELSE erased
      BY <2>1 DEF DeleteCalls
    <3>2. CASE arrives
      <4>1. erased' = erased \union {[backup |-> b, saw |-> deleting[b].saw]}
        BY <3>1, <3>2
      <4>2. WasErased(b)'
        <5> DEFINE e == [backup |-> b, saw |-> deleting[b].saw]
        <5>1. e \in erased' /\ e.backup = b
          BY <4>1
        <5> HIDE DEF e
        <5> QED BY <5>1 DEF WasErased
      <4>3. stored' = [stored EXCEPT ![b] = Empty]
        BY <3>1, <3>2
      <4> QED BY <4>1, <4>2, <4>3
    <3>3. CASE ~arrives
      BY <3>1, <3>3
    <3> QED BY <3>2, <3>3
  <2>2. CASE DeleteMarks(b)
    BY <2>2 DEF DeleteMarks
  <2>3. CASE \E online \in BOOLEAN : DeleteReads(b, online)
    BY <2>3 DEF DeleteReads
  <2> QED BY <2>1, <2>2, <2>3 DEF DeleteBackup
<1>3. CASE UNCHANGED <<stored, erased>>
  BY <1>1, <1>3, StoringKept
<1>4. CASE /\ stored' = [stored EXCEPT ![b] = Empty]
           /\ erased \subseteq erased' /\ WasErased(b)'
  <2>1. /\ stored'[b] = Empty
        /\ \A c \in Backups : c # b => stored'[c] = stored[c]
        /\ \A c \in Backups : WasErased(c) => WasErased(c)'
    BY <1>0, <1>4 DEF WasErased
  <2>2. Headed'
    BY <2>1 DEF Storing, Headed, Empty
  <2>3. CompleteIsStored'
    BY <1>1, <1>4, <2>1 DEF Storing, CompleteIsStored, WasErased
  <2>4. Copied'
    BY <1>1, <1>4, <2>1 DEF Storing, Copied, CopiedBy, Typed, Named
  <2> QED BY <2>2, <2>3, <2>4 DEF Storing
<1> QED BY <1>2, <1>3, <1>4

LEMMA NextStoring == Typed /\ Storing /\ [Next]_vars => Storing'
<1> SUFFICES ASSUME Typed, Storing, [Next]_vars PROVE Storing'
  OBVIOUS
<1> USE DEF serviceVars, threadVars, daemonVars, history
<1>0. status \in [Backups -> Statuses]
  BY DEF Typed, TypeOK
<1>1. ASSUME UNCHANGED <<stored, erased, job>>,
             \A b \in Backups : status'[b] = "complete" => status[b] = "complete"
      PROVE  Storing'
  BY <1>1, StoringKept
<1>2. ASSUME NEW b \in Backups, Push(b) PROVE Storing'
  <2>1. CASE PushAllowed(b)
    BY <2>1, StartStoring DEF PushAllowed
  <2>2. CASE ~PushAllowed(b)
    <3>1. /\ UNCHANGED <<stored, erased, job>>
          /\ \A c \in Backups : status'[c] = "complete" => status[c] = "complete"
      BY <1>0, <1>2, <2>2 DEF Push, Prepare, Authorize, PushDenied, PushCleansUp, PushAsks, PushAwaits, SetStatus
    <3> QED BY <1>1, <3>1
  <2> QED BY <2>1, <2>2
<1>3. ASSUME NEW d \in Deciders, Decide(d) PROVE Storing'
  <2>1. CASE Allow(d)
    <3>1. decider[d].backup \in Backups
      BY <2>1 DEF Allow, Typed, Named
    <3> QED BY <2>1, <3>1, StartStoring DEF Allow
  <2>2. CASE ~Allow(d)
    <3>1. /\ UNCHANGED <<stored, erased, job>>
          /\ \A c \in Backups : status'[c] = "complete" => status[c] = "complete"
      BY <1>0, <1>3, <2>2 DEF Decide, ReadApproval, TakeApproval, CheckWaiting, Deny, DenyCleansUp, SetStatus
    <3> QED BY <1>1, <3>1
  <2> QED BY <2>1, <2>2
<1>4. CASE (\E b \in Backups : Encrypted(b)) \/ (\E w \in arriving : PeerDrops(w))
           \/ SourceRestarts \/ PeerChanges \/ UNCHANGED vars
  <2>1. UNCHANGED <<stored, erased, job, status>>
    BY <1>4 DEF Encrypted, PeerDrops, SourceRestarts, PeerChanges, vars
  <2> QED BY <1>1, <2>1
<1>5. CASE ServiceRestarts
  <2>1. UNCHANGED <<stored, erased, status>> /\ \A j \in Jobs : job'[j].step = "free"
    BY <1>5 DEF ServiceRestarts, Free
  <2> QED BY <2>1, StoringKept
<1> QED BY <1>2, <1>3, <1>4, <1>5, TransferStoring, WritesStoring, DeleteStoring DEF Next, Proceed

\* A backup the service lists as complete is whole at the peer unless a delete
\* of it got there, whatever writes arrive late or are dropped.
THEOREM CompleteMeansStored == Spec => []CompleteIsStored
<1>1. Storing => CompleteIsStored
  BY DEF Storing
<1> QED BY <1>1, InitTyped, NextTyped, InitStoring, NextStoring, PTL DEF Spec

----------------------------------------------------------------------------
(* The delete of a complete backup *)

Active == {"starting", "preparing", "copying", "waiting"}

\* The one transfer of the backup has ended, and so has every write of it.
Over(b) ==
    /\ starts[b] # 0
    /\ \A j \in Jobs : job[j].backup = b => job[j].step \notin Active
    /\ \A w \in arriving : w.backup # b

OneJob ==
    /\ \A j, k \in Jobs :
        job[j].backup \notin crossed \union {Nobody} /\ job[j].backup = job[k].backup => j = k
    /\ \A j \in Jobs : job[j].backup # Nobody => starts[job[j].backup] # 0

\* What is on its way while a transfer goes on is what the transfer waits for.
Waits ==
    \A w \in arriving, j \in Jobs :
        w.backup \notin crossed /\ job[j].backup = w.backup /\ job[j].step \in Active =>
            job[j].step = "waiting" /\ job[j].next = w.index

\* A backup that is, or that a delete found or has removed as, complete.
SeenComplete(b) ==
    \/ status[b] = "complete"
    \/ deleting[b].step # "idle" /\ deleting[b].saw = "complete"
    \/ [backup |-> b, saw |-> "complete"] \in erased
CompleteOver == \A b \in Backups \ crossed : SeenComplete(b) => Over(b)

Removal == OneJob /\ Waits /\ CompleteOver /\ DeletedIsRemoved

LEMMA InitRemoval == Init => Removal
BY BackupAssumption DEF Init, Removal, OneJob, Waits, CompleteOver, SeenComplete, DeletedIsRemoved, Free

\* A step that does not move, start or write anything.
LEMMA QuietRemoval ==
    ASSUME Removal, UNCHANGED <<job, arriving, starts, stored, erased>>, crossed \subseteq crossed',
           \A b \in Backups :
               /\ status'[b] = "complete" => status[b] = "complete"
               /\ deleting'[b].step # "idle" /\ deleting'[b].saw = "complete" => SeenComplete(b)
    PROVE  Removal'
BY DEF Removal, OneJob, Waits, CompleteOver, SeenComplete, Over, DeletedIsRemoved

LEMMA StartRemoval ==
    ASSUME Typed, Single, Removal, NEW b \in Backups, NEW approved \in BOOLEAN, Start(b, approved), Unstarted(b),
           SetStatus(b, "transferring"), UNCHANGED <<arriving, stored, erased, deleting, crossed>>
    PROVE  Removal'
<1>0. /\ starts \in [Backups -> Nat] /\ status \in [Backups -> Statuses] /\ job \in [Jobs -> JobRow]
  BY DEF Typed, TypeOK, JobRow
<1>1. PICK j \in Jobs : job[j] = Free /\ job' = [job EXCEPT ![j] = [step |-> "starting", backup |-> b,
                                                       approved |-> approved, next |-> 0]]
  BY DEF Start
<1> DEFINE new == [step |-> "starting", backup |-> b, approved |-> approved, next |-> 0]
<1>2. job' = [job EXCEPT ![j] = new] /\ new.backup = b /\ new.step = "starting" /\ job[j].backup = Nobody
  BY <1>1 DEF Free
<1> HIDE DEF new
<1>3. job'[j] = new /\ \A k \in Jobs : k # j => job'[k] = job[k]
  BY <1>0, <1>2
<1>4. starts'[b] # 0 /\ \A c \in Backups : starts[c] # 0 => starts'[c] # 0
  BY <1>0 DEF Start
<1>5. b \notin crossed => Untouched(b) /\ starts[b] = 0
  BY DEF Single
<1>6. OneJob'
  <2>1. \A k \in Jobs : job[k].backup # Nobody => job[k].backup \in Backups
    BY <1>0 DEF JobRow
  <2>2. b # Nobody /\ (b \notin crossed => \A k \in Jobs : k # j => job'[k].backup # b)
    BY <1>3, <1>5, BackupAssumption DEF Untouched
  <2>3. \A k, l \in Jobs :
            job'[k].backup \notin crossed \union {Nobody} /\ job'[k].backup = job'[l].backup => k = l
    BY <1>2, <1>3, <2>2 DEF Removal, OneJob
  <2>4. \A k \in Jobs : job'[k].backup # Nobody => starts'[job'[k].backup] # 0
    BY <1>2, <1>3, <1>4, <2>1 DEF Removal, OneJob
  <2> QED BY <2>3, <2>4 DEF OneJob
<1>7. Waits'
  BY <1>2, <1>3, <1>5 DEF Removal, Waits, Untouched
<1>8. CompleteOver'
  <2> SUFFICES ASSUME NEW c \in Backups \ crossed, SeenComplete(c)' PROVE Over(c)'
    BY DEF CompleteOver
  <2>1. SeenComplete(c)
    BY <1>0 DEF SetStatus, SeenComplete
  <2>2. Over(c)
    BY <2>1 DEF Removal, CompleteOver
  <2>3. c # b
    BY <1>5, <2>2 DEF Over
  <2> QED BY <1>2, <1>3, <1>4, <2>2, <2>3 DEF Over
<1> QED BY <1>6, <1>7, <1>8 DEF Removal, DeletedIsRemoved

\* A transfer goes on, or ends, without a write.
LEMMA MoveRemoval ==
    ASSUME Typed, Removal, NEW j \in Jobs, NEW new, job' = [job EXCEPT ![j] = new],
           new.backup = job[j].backup \/ (new.backup = Nobody /\ new.step = "free"),
           new.step \in Active => job[j].step \in Active \ {"waiting"},
           \A b \in Backups : status'[b] = "complete" => SeenComplete(b),
           UNCHANGED <<arriving, starts, stored, erased, deleting, crossed>>
    PROVE  Removal'
<1>0. job \in [Jobs -> JobRow] /\ Nobody \notin Backups
  BY BackupAssumption DEF Typed, TypeOK, JobRow
<1>1. job'[j] = new /\ \A k \in Jobs : k # j => job'[k] = job[k]
  BY <1>0
<1>2. OneJob'
  BY <1>1 DEF Removal, OneJob
<1>3. Waits'
  <2> SUFFICES ASSUME NEW w \in arriving, NEW k \in Jobs, w.backup \notin crossed,
                      job'[k].backup = w.backup, job'[k].step \in Active
               PROVE  job'[k].step = "waiting" /\ job'[k].next = w.index
    BY DEF Waits
  <2>1. CASE k = j
    <3>1. job[j].backup = w.backup /\ job[j].step \in Active \ {"waiting"}
      BY <1>1, <2>1 DEF Active
    <3> QED BY <3>1 DEF Removal, Waits
  <2>2. CASE k # j
    BY <1>1, <2>2 DEF Removal, Waits
  <2> QED BY <2>1, <2>2
<1>4. CompleteOver'
  <2> SUFFICES ASSUME NEW b \in Backups \ crossed, SeenComplete(b)' PROVE Over(b)'
    BY DEF CompleteOver
  <2>1. Over(b)
    BY DEF Removal, CompleteOver, SeenComplete
  <2> QED BY <1>0, <1>1, <2>1 DEF Over
<1> QED BY <1>2, <1>3, <1>4 DEF Removal, DeletedIsRemoved

LEMMA TransferRemoval == ASSUME Typed, Removal, NEW j \in Jobs, Transfer(j) PROVE Removal'
<1> USE DEF serviceVars, threadVars, daemonVars, history
<1>0. /\ job \in [Jobs -> JobRow] /\ job[j] \in JobRow /\ status \in [Backups -> Statuses]
      /\ job[j].step # "free" => job[j].backup \in Backups
      /\ Nobody \notin Backups
  BY BackupAssumption DEF Typed, TypeOK, JobRow, Named
<1>1. ASSUME NEW to \in {"preparing", "copying", "failed", "unsourced", "completed"},
             job[j].step # "free",
             to \in {"preparing", "copying"} => job[j].step \in {"starting", "preparing"},
             job' = [job EXCEPT ![j].step = to],
             \A b \in Backups : status'[b] = "complete" => SeenComplete(b),
             UNCHANGED <<arriving, starts, stored, erased, deleting, crossed>>
      PROVE  Removal'
  <2> DEFINE new == [job[j] EXCEPT !.step = to]
  <2>1. new.backup = job[j].backup /\ new.step = to
    BY <1>0 DEF JobRow
  <2>2. job' = [job EXCEPT ![j] = new]
    BY <1>1
  <2> HIDE DEF new
  <2> QED BY <1>1, <2>1, <2>2, MoveRemoval DEF Active
<1>2. CASE Locate(j) \/ Poll(j) \/ ChunkFails(j)
  <2>1. PICK to \in {"preparing", "copying", "failed", "unsourced"} :
            /\ job[j].step # "free"
            /\ to \in {"preparing", "copying"} => job[j].step \in {"starting", "preparing"}
            /\ MoveOn(j, to) \/ Fail(j, to)
    BY <1>2 DEF Locate, Poll, ChunkFails
  <2>2. job' = [job EXCEPT ![j].step = to] /\ UNCHANGED <<arriving, starts, stored, erased, deleting, crossed>>
    BY <2>1 DEF MoveOn, Fail
  <2>3. \A b \in Backups : status'[b] = "complete" => SeenComplete(b)
    BY <1>0, <2>1 DEF MoveOn, Fail, SetStatus, SeenComplete
  <2> QED BY <1>1, <2>1, <2>2, <2>3
<1>3. CASE SendChunk(j)
  <2> DEFINE b == job[j].backup
             sent == [backup |-> b, index |-> job[j].next]
             new == [job[j] EXCEPT !.step = "waiting"]
  <2>1. /\ job' = [job EXCEPT ![j] = new] /\ arriving' = arriving \union {sent}
        /\ job[j].step = "copying" /\ UNCHANGED <<status, starts, stored, erased, deleting, crossed>>
    BY <1>3 DEF SendChunk
  <2>2. new.backup = b /\ new.step = "waiting" /\ new.next = job[j].next /\ b # Nobody
        /\ sent.backup = b /\ sent.index = job[j].next
    BY <1>0, <2>1 DEF JobRow
  <2> HIDE DEF new, sent
  <2>3. job'[j] = new /\ \A k \in Jobs : k # j => job'[k] = job[k]
    BY <1>0, <2>1
  <2>4. OneJob'
    BY <2>1, <2>2, <2>3 DEF Removal, OneJob
  <2>5. Waits'
    <3> SUFFICES ASSUME NEW w \in arriving', NEW k \in Jobs, w.backup \notin crossed,
                        job'[k].backup = w.backup, job'[k].step \in Active
                 PROVE  job'[k].step = "waiting" /\ job'[k].next = w.index
      BY <2>1 DEF Waits
    <3>1. CASE w = sent
      <4>1. k = j
        BY <2>2, <2>3, <3>1 DEF Removal, OneJob
      <4> QED BY <2>2, <2>3, <3>1, <4>1
    <3>2. CASE w \in arriving
      <4>1. k # j
        BY <2>1, <2>2, <2>3, <3>2 DEF Removal, Waits, Active
      <4> QED BY <2>3, <3>2, <4>1 DEF Removal, Waits
    <3> QED BY <2>1, <3>1, <3>2
  <2>6. CompleteOver'
    <3> SUFFICES ASSUME NEW c \in Backups \ crossed, SeenComplete(c)' PROVE Over(c)'
      BY <2>1 DEF CompleteOver
    <3>1. Over(c)
      BY <2>1 DEF Removal, CompleteOver, SeenComplete
    <3>2. c # b
      BY <2>1, <3>1 DEF Over, Active
    <3> QED BY <2>1, <2>2, <2>3, <3>1, <3>2 DEF Over
  <2> QED BY <2>1, <2>4, <2>5, <2>6 DEF Removal, DeletedIsRemoved
<1>4. CASE Complete(j)
  <2> DEFINE new == [job[j] EXCEPT !.step = "completed"]
  <2>0. PICK b \in Backups : b = job[j].backup
    BY <1>0, <1>4 DEF Complete
  <2>1. /\ job' = [job EXCEPT ![j] = new] /\ job[j].step = "copying"
        /\ status' = [status EXCEPT ![b] = "complete"]
        /\ UNCHANGED <<arriving, starts, stored, erased, deleting, crossed>>
    BY <1>0, <1>4, <2>0 DEF Complete, SetStatus
  <2>2. new.backup = b /\ job[j].backup = b /\ new.step = "completed"
    BY <1>0, <2>0 DEF JobRow
  <2> HIDE DEF new
  <2>3. job'[j] = new /\ \A k \in Jobs : k # j => job'[k] = job[k]
    BY <1>0, <2>1
  <2>4. OneJob'
    BY <2>1, <2>2, <2>3 DEF Removal, OneJob
  <2>5. Waits'
    BY <2>1, <2>2, <2>3 DEF Removal, Waits, Active
  <2>6. b \notin crossed => Over(b)'
    <3> SUFFICES ASSUME b \notin crossed PROVE Over(b)'
      OBVIOUS
    <3>1. \A w \in arriving : w.backup # b
      BY <2>1, <2>2 DEF Removal, Waits, Active
    <3>2. \A k \in Jobs : job'[k].backup = b => k = j
      BY <1>0, <2>1, <2>2, <2>3 DEF Removal, OneJob
    <3>3. starts[b] # 0
      BY <1>0, <2>1, <2>2 DEF Removal, OneJob
    <3> QED BY <2>1, <2>2, <2>3, <3>1, <3>2, <3>3 DEF Over, Active
  <2>7. CompleteOver'
    <3> SUFFICES ASSUME NEW c \in Backups \ crossed, SeenComplete(c)', c # b PROVE Over(c)'
      BY <2>1, <2>6 DEF CompleteOver
    <3>1. Over(c)
      BY <1>0, <2>1 DEF Removal, CompleteOver, SeenComplete
    <3> QED BY <2>1, <2>2, <2>3, <3>1 DEF Over
  <2> QED BY <2>1, <2>4, <2>5, <2>7 DEF Removal, DeletedIsRemoved
<1>5. CASE Close(j)
  <2>1. job' = [job EXCEPT ![j] = Free] /\ Free.backup = Nobody /\ Free.step = "free"
    BY <1>5 DEF Close, Free
  <2>2. UNCHANGED <<status, arriving, starts, stored, erased, deleting, crossed>>
    BY <1>5 DEF Close
  <2> QED BY <2>1, <2>2, MoveRemoval DEF SeenComplete, Active
<1> QED BY <1>2, <1>3, <1>4, <1>5 DEF Transfer

LEMMA WritesRemoval ==
    ASSUME Typed, Removal, NEW w \in arriving, PeerWrites(w) \/ PeerDrops(w) PROVE Removal'
<1> USE DEF serviceVars, threadVars, daemonVars, history
<1>0. /\ job \in [Jobs -> JobRow] /\ stored \in [Backups -> Dir] /\ w \in [backup: Backups, index: Chunks]
      /\ arriving \subseteq [backup: Backups, index: Chunks]
  BY DEF Typed, TypeOK, JobRow
<1>1. CASE PeerDrops(w)
  BY <1>1 DEF PeerDrops, Removal, OneJob, Waits, CompleteOver, SeenComplete, Over, DeletedIsRemoved
<1>2. CASE PeerWrites(w)
  <2>1. /\ arriving' = arriving \ {w} /\ UNCHANGED <<status, starts, erased, deleting, crossed>>
        /\ \A c \in Backups : c # w.backup => stored'[c] = stored[c]
    BY <1>0, <1>2 DEF PeerWrites
  <2>2. \A k \in Jobs :
            \/ job'[k] = job[k]
            \/ /\ job[k].step = "waiting" /\ job[k].backup = w.backup
               /\ job'[k].backup = job[k].backup /\ job'[k].step = "copying"
    BY <1>0, <1>2 DEF PeerWrites, JobRow
  <2>3. \A k \in Jobs : job'[k].backup = job[k].backup /\ (job'[k].step \in Active => job[k].step \in Active)
    BY <2>2 DEF Active
  <2>4. OneJob'
    BY <2>1, <2>3 DEF Removal, OneJob
  <2>5. Waits'
    <3> SUFFICES ASSUME NEW x \in arriving, x # w, NEW k \in Jobs, x.backup \notin crossed,
                        job'[k].backup = x.backup, job'[k].step \in Active
                 PROVE  job'[k].step = "waiting" /\ job'[k].next = x.index
      BY <2>1 DEF Waits
    <3>1. job[k].step = "waiting" /\ job[k].next = x.index /\ job[k].backup = x.backup
      BY <2>3 DEF Removal, Waits
    <3>2. job'[k] = job[k]
      <4> SUFFICES ASSUME job[k].backup = w.backup PROVE FALSE
        BY <2>2
      <4>1. w.index = x.index /\ w.backup = x.backup
        BY <3>1 DEF Removal, Waits, Active
      <4> QED BY <1>0, <4>1
    <3> QED BY <3>1, <3>2
  <2>6. CompleteOver'
    BY <2>1, <2>3 DEF Removal, CompleteOver, SeenComplete, Over
  <2>7. DeletedIsRemoved'
    <3> SUFFICES ASSUME NEW c \in Backups \ crossed, [backup |-> c, saw |-> "complete"] \in erased
                 PROVE  stored'[c] = Empty
      BY <2>1 DEF DeletedIsRemoved
    <3>1. c # w.backup
      BY DEF Removal, CompleteOver, SeenComplete, Over
    <3> QED BY <2>1, <3>1 DEF Removal, DeletedIsRemoved
  <2> QED BY <2>4, <2>5, <2>6, <2>7 DEF Removal
<1> QED BY <1>1, <1>2

LEMMA DeleteRemoval == ASSUME Typed, Removal, NEW b \in Backups, DeleteBackup(b) PROVE Removal'
<1> USE DEF serviceVars, threadVars, daemonVars, history
<1>0. /\ deleting \in [Backups -> DeletingRow] /\ status \in [Backups -> Statuses] /\ stored \in [Backups -> Dir]
  BY DEF Typed, TypeOK, DeletingRow
<1>1. ASSUME NEW online \in BOOLEAN, DeleteReads(b, online) PROVE Removal'
  <2>1. \A c \in Backups : deleting'[c] = deleting[c] \/ (deleting'[c].saw = "complete" => status[c] = "complete")
    BY <1>0, <1>1 DEF DeleteReads
  <2> QED BY <1>1, <2>1, QuietRemoval DEF DeleteReads, SeenComplete
<1>2. CASE DeleteMarks(b)
  <2>1. \A c \in Backups : deleting'[c] = deleting[c] \/ deleting'[c].step = "idle"
    BY <1>0, <1>2 DEF DeleteMarks
  <2>2. \A c \in Backups : status'[c] = "complete" => status[c] = "complete"
    BY <1>0, <1>2 DEF DeleteMarks, SetStatus
  <2> QED BY <1>2, <2>1, <2>2, QuietRemoval DEF DeleteMarks, SeenComplete
<1>3. CASE DeleteCalls(b)
  <2>1. /\ deleting[b].step = "read" /\ UNCHANGED <<status, job, arriving, starts, crossed>>
        /\ \/ UNCHANGED <<stored, erased>>
           \/ /\ stored' = [stored EXCEPT ![b] = Empty]
              /\ erased' = erased \union {[backup |-> b, saw |-> deleting[b].saw]}
    BY <1>3 DEF DeleteCalls
  <2>2. \A c \in Backups :
            deleting'[c] = deleting[c] \/ deleting'[c].step = "idle"
            \/ (c = b /\ deleting'[c].saw = deleting[c].saw)
    BY <1>0, <1>3 DEF DeleteCalls, DeletingRow
  <2>3. \A c \in Backups : SeenComplete(c)' => SeenComplete(c)
    BY <2>1, <2>2 DEF SeenComplete
  <2>4. CompleteOver'
    BY <2>1, <2>3 DEF Removal, CompleteOver, Over
  <2>5. DeletedIsRemoved'
    BY <1>0, <2>1 DEF Removal, DeletedIsRemoved
  <2> QED BY <2>1, <2>4, <2>5 DEF Removal, OneJob, Waits
<1> QED BY <1>1, <1>2, <1>3 DEF DeleteBackup

LEMMA PushRemoval == ASSUME Typed, Single, Removal, NEW b \in Backups, Push(b) PROVE Removal'
<1> USE DEF serviceVars, threadVars, daemonVars, history
<1>0. status \in [Backups -> Statuses]
  BY DEF Typed, TypeOK
<1>1. CASE PushAllowed(b)
  <2>1. Unstarted(b)
    BY <1>1 DEF PushAllowed, Unstarted
  <2> QED BY <1>1, <2>1, StartRemoval DEF PushAllowed
<1>2. CASE ~PushAllowed(b)
  <2>1. UNCHANGED <<job, arriving, starts, stored, erased, deleting>> /\ crossed \subseteq crossed'
    BY <1>2 DEF Push, Prepare, Authorize, PushDenied, PushCleansUp, PushAsks, PushAwaits
  <2>2. \A c \in Backups : status'[c] = "complete" => status[c] = "complete"
    BY <1>0, <1>2 DEF Push, Prepare, Authorize, PushDenied, PushCleansUp, PushAsks, PushAwaits, SetStatus
  <2> QED BY <2>1, <2>2, QuietRemoval DEF SeenComplete
<1> QED BY <1>1, <1>2

LEMMA DecideRemoval == ASSUME Typed, Single, Removal, NEW d \in Deciders, Decide(d) PROVE Removal'
<1> USE DEF serviceVars, threadVars, daemonVars, history
<1>0. status \in [Backups -> Statuses] /\ decider[d].step # "idle" => decider[d].backup \in Backups
  BY DEF Typed, TypeOK, Named
<1>1. CASE Allow(d)
  <2>1. Unstarted(decider[d].backup) /\ decider[d].backup \in Backups
    BY <1>0, <1>1 DEF Allow, Unstarted, Checked, Typed, Named
  <2> QED BY <1>1, <2>1, StartRemoval DEF Allow
<1>2. CASE ~Allow(d)
  <2>1. UNCHANGED <<job, arriving, starts, stored, erased, deleting>> /\ crossed \subseteq crossed'
    BY <1>2 DEF Decide, ReadApproval, TakeApproval, CheckWaiting, Deny, DenyCleansUp
  <2>2. \A c \in Backups : status'[c] = "complete" => status[c] = "complete"
    <3>1. status' = status \/ status' = [status EXCEPT ![decider[d].backup] = "denied"]
      BY <1>2 DEF Decide, ReadApproval, TakeApproval, CheckWaiting, Deny, DenyCleansUp, SetStatus
    <3>2. status \in [Backups -> Statuses]
      BY DEF Typed, TypeOK
    <3> QED BY <3>1, <3>2
  <2> QED BY <2>1, <2>2, QuietRemoval DEF SeenComplete
<1> QED BY <1>1, <1>2

LEMMA NextRemoval == Typed /\ Single /\ Removal /\ [Next]_vars => Removal'
<1> SUFFICES ASSUME Typed, Single, Removal, [Next]_vars PROVE Removal'
  OBVIOUS
<1> USE DEF serviceVars, threadVars, daemonVars, history
<1>1. ASSUME UNCHANGED <<status, job, arriving, starts, stored, erased, deleting, crossed>> PROVE Removal'
  BY <1>1, QuietRemoval DEF SeenComplete
<1>2. ASSUME NEW b \in Backups, Encrypted(b) PROVE Removal'
  BY <1>1, <1>2 DEF Encrypted
<1>3. CASE SourceRestarts \/ PeerChanges \/ UNCHANGED vars
  BY <1>1, <1>3 DEF SourceRestarts, PeerChanges, vars
<1>4. CASE ServiceRestarts
  <2>1. /\ \A j \in Jobs : job'[j] = Free
        /\ \A b \in Backups : deleting'[b].step = "idle"
        /\ UNCHANGED <<status, arriving, starts, stored, erased, crossed>>
    BY <1>4 DEF ServiceRestarts
  <2>2. Free.backup = Nobody /\ Free.step \notin Active
    BY DEF Free, Active
  <2>3. CompleteOver'
    BY <2>1, <2>2 DEF Removal, CompleteOver, SeenComplete, Over
  <2> QED BY <2>1, <2>2, <2>3 DEF Removal, OneJob, Waits, DeletedIsRemoved
<1> QED BY <1>2, <1>3, <1>4, PushRemoval, DecideRemoval, TransferRemoval, WritesRemoval, DeleteRemoval
        DEF Next, Proceed

\* A complete backup that is deleted is gone from the peer and nothing of it
\* arrives later, whatever writes were given up on, unless two decisions of
\* it crossed (another transfer of it may then go on).
THEOREM DeleteOfCompleteLasts == Spec => []DeletedIsRemoved
<1>1. Removal => DeletedIsRemoved
  BY DEF Removal
<1>2. Typed /\ Moving /\ Single /\ [Next]_vars => Single'
  BY NextSingle
<1> QED BY <1>1, <1>2, InitTyped, NextTyped, InitMoving, NextMoving, InitSingle, InitRemoval, NextRemoval, PTL DEF Spec

----------------------------------------------------------------------------
(* Restores *)

RestoreRow == [at: {"idle", "manifest", "begin", "fetch", "put", "unpack", "refused", "unpacked", "done"},
               backup: Backups \union {Nobody}, next: 0 .. LastChunk + 1, to: Seconds \union {Nobody}]
UnpackRow == [at: {"no", "stat", "make", "extract"}, backup: Backups \union {Nobody},
              next: 0 .. LastChunk + 1, second: Seconds]

LEMMA RestoreStep == [RestoreNext]_allVars => [Next]_vars
<1> SUFFICES ASSUME [RestoreNext]_allVars PROVE [Next]_vars
  OBVIOUS
<1>1. CASE Proceed \/ OwnerRestarts \/ CasperRestarts
  BY <1>1 DEF OwnerRestarts, CasperRestarts, Next
<1>2. ASSUME NEW r \in Restores, NEW b \in Backups, AskRestore(r, b) PROVE UNCHANGED vars
  BY <1>2 DEF AskRestore
<1>3. ASSUME NEW r \in Restores, Restoring(r) PROVE UNCHANGED vars
  BY <1>3 DEF Restoring, FetchManifest, RestoreBegin, FetchChunk, RestoreChunk, AllFetched, UnpackBegins,
              RestoreFails, RestoreEnds
<1>4. ASSUME NEW r \in Restores, Unpacking(r) PROVE UNCHANGED vars
  BY <1>4 DEF Unpacking, StatFolder, MakeFolder, ExtractFile, UnpackFails, UnpackEnds
<1>5. ASSUME NEW c \in late, CallArrives(c) PROVE UNCHANGED vars
  BY <1>5 DEF CallArrives
<1>6. CASE UNCHANGED allVars
  BY <1>6 DEF allVars
<1> QED BY <1>1, <1>2, <1>3, <1>4, <1>5, <1>6 DEF RestoreNext

\* Restores leave the pushes, transfers and deletes of Backups alone: with
\* them, Backups behaves as it does without them, and all of the above holds.
THEOREM RestoresOnlyRead == RestoreSpec => Spec
<1>1. RestoreInit => Init
  BY DEF RestoreInit
<1> QED BY <1>1, RestoreStep, PTL DEF RestoreSpec, Spec

\* What a restore has written is there: so far, while it unpacks, and all of
\* it once its folder is reported.
Extracted(r) == \A i \in Chunks : i < unpacking[r].next => folder[unpacking[r].second][i] = r
Reported(r) == restore[r].to # Nobody => \A i \in Chunks : folder[restore[r].to][i] = r

Asked(r) ==
    /\ restore[r].at # "idle" => restore[r].backup \in Backups
    /\ restore[r].at = "put" => restore[r].next \in Chunks

LateCalls ==
    {c \in [restore: Restores, at: {"begin", "put", "unpack"}, backup: Backups, next: 0 .. LastChunk + 1] :
        c.at = "put" => c.next \in Chunks}

RestoreTyped ==
    /\ restored \in [Backups -> {"none", "restoring", "restored", "failed"}]
    /\ restore \in [Restores -> RestoreRow]
    /\ \A r \in Restores : Asked(r)
    /\ unpacking \in [Restores -> UnpackRow]
    /\ late \subseteq LateCalls
    /\ restoreDir \in [Backups -> [there: BOOLEAN, chunks: SUBSET Chunks]]
    /\ second \in Seconds
    /\ folder \in [Seconds -> [Chunks -> Restores \union {Nobody, Torn}]]
    /\ made \subseteq Seconds

Whole == RestoreTyped /\ \A r \in Restores : Extracted(r) /\ Reported(r)

LEMMA Zero == 0 \in Seconds /\ 0 \in 0 .. LastChunk + 1 /\ Chunks \subseteq 0 .. LastChunk + 1
BY RestoreAssumption, BackupAssumption DEF Seconds, Chunks

LEMMA InitWhole == RestoreInit => Whole
<1> SUFFICES ASSUME RestoreInit PROVE Whole
  OBVIOUS
<1>1. RestoreTyped
  BY Zero DEF RestoreInit, RestoreTyped, RestoreRow, UnpackRow, NotAsked, NotUnpacking, NoDir, Asked, LateCalls
<1>2. \A r \in Restores : Extracted(r)
  BY DEF RestoreInit, Extracted, NotUnpacking, Chunks
<1> QED BY <1>1, <1>2 DEF RestoreInit, Whole, Reported, NotAsked

LEMMA Rows ==
    ASSUME RestoreTyped, NEW r \in Restores
    PROVE  /\ restore[r] \in RestoreRow /\ unpacking[r] \in UnpackRow
           /\ r # Nobody /\ r # Torn
BY RestoreAssumption DEF RestoreTyped

\* Files once written stay, and nothing is claimed that was not before.
LEMMA NoNewClaim ==
    ASSUME Whole, RestoreTyped',
           \A s \in Seconds, i \in Chunks : folder[s][i] # Nobody => folder'[s][i] = folder[s][i],
           \A r \in Restores :
                /\ restore'[r].to = restore[r].to
                /\ \/ unpacking'[r].next = 0
                   \/ /\ unpacking'[r].second = unpacking[r].second
                      /\ unpacking'[r].next = unpacking[r].next
    PROVE  Whole'
<1> SUFFICES ASSUME NEW r \in Restores PROVE Extracted(r)' /\ Reported(r)'
  BY DEF Whole
<1>0. restore[r] \in RestoreRow /\ unpacking[r] \in UnpackRow /\ r # Nobody
  BY Rows DEF Whole
<1>1. Reported(r)'
  <2> SUFFICES ASSUME restore[r].to # Nobody, NEW i \in Chunks PROVE folder'[restore[r].to][i] = r
    BY DEF Reported
  <2>1. folder[restore[r].to][i] = r /\ restore[r].to \in Seconds
    BY <1>0 DEF Whole, Reported, RestoreRow
  <2> QED BY <1>0, <2>1
<1>2. Extracted(r)'
  <2> SUFFICES ASSUME NEW i \in Chunks, i < unpacking'[r].next
               PROVE  folder'[unpacking'[r].second][i] = r
    BY DEF Extracted
  <2>1. unpacking'[r].second = unpacking[r].second /\ i < unpacking[r].next
    BY BackupAssumption DEF Chunks
  <2>2. folder[unpacking[r].second][i] = r /\ unpacking[r].second \in Seconds
    BY <1>0, <2>1 DEF Whole, Extracted, UnpackRow
  <2> QED BY <1>0, <2>1, <2>2
<1> QED BY <1>1, <1>2

LEMMA FilesStay ==
    ASSUME RestoreTyped, NEW r \in Restores, NEW by \in Restores \union {Torn},
           unpacking[r].next \in Chunks,
           folder[unpacking[r].second][unpacking[r].next] = Nobody, WriteFile(r, by)
    PROVE  /\ folder' \in [Seconds -> [Chunks -> Restores \union {Nobody, Torn}]]
           /\ folder'[unpacking[r].second][unpacking[r].next] = by
           /\ \A s \in Seconds, i \in Chunks : folder[s][i] # Nobody => folder'[s][i] = folder[s][i]
<1>1. unpacking[r].second \in Seconds /\ folder \in [Seconds -> [Chunks -> Restores \union {Nobody, Torn}]]
  BY Rows DEF RestoreTyped, UnpackRow
<1> QED BY <1>1 DEF WriteFile

LEMMA UnpackStarts ==
    ASSUME RestoreTyped, NEW r \in Restores, NEW b \in Backups, Unpacks(r, b)
    PROVE  /\ second' \in Seconds /\ unpacking' \in [Restores -> UnpackRow]
           /\ \A s \in Restores : unpacking'[s].next = 0 \/ unpacking'[s] = unpacking[s]
<1>1. second' \in Seconds
  BY RestoreAssumption DEF Unpacks, RestoreTyped, Seconds
<1> DEFINE new == [at |-> "stat", backup |-> b, next |-> 0, second |-> second']
<1>2. new \in UnpackRow /\ new.next = 0
  BY <1>1, Zero DEF UnpackRow
<1>3. unpacking' = [unpacking EXCEPT ![r] = new]
  BY DEF Unpacks
<1> HIDE DEF new
<1> QED BY <1>1, <1>2, <1>3 DEF RestoreTyped

\* A step of a restore thread that writes no folder and claims none.
LEMMA RestoringWhole == ASSUME Whole, NEW r \in Restores, Restoring(r) \/ (\E b \in Backups : AskRestore(r, b))
                        PROVE  Whole'
<1>0. RestoreTyped /\ restore[r] \in RestoreRow /\ Asked(r)
  BY Rows DEF Whole, RestoreTyped
<1>1. ASSUME NEW new \in RestoreRow, restore' = [restore EXCEPT ![r] = new], new.to = restore[r].to,
             new.at # "idle" => new.backup \in Backups, new.at = "put" => new.next \in Chunks,
             restored' \in [Backups -> {"none", "restoring", "restored", "failed"}],
             late' \subseteq LateCalls,
             restoreDir' \in [Backups -> [there: BOOLEAN, chunks: SUBSET Chunks]],
             UNCHANGED <<unpacking, second, folder, made>>
      PROVE  Whole'
  <2>1. RestoreTyped'
    BY <1>0, <1>1 DEF RestoreTyped, Asked
  <2>2. \A s \in Restores : restore'[s].to = restore[s].to
    BY <1>0, <1>1 DEF RestoreTyped
  <2> QED BY <1>1, <2>1, <2>2, NoNewClaim
<1>2. ASSUME NEW b \in Backups, AskRestore(r, b) PROVE Whole'
  <2> DEFINE new == [restore[r] EXCEPT !.at = "manifest", !.backup = b]
  <2>1. new \in RestoreRow /\ new.to = restore[r].to /\ new.at = "manifest" /\ new.backup \in Backups
    BY <1>0 DEF RestoreRow
  <2>2. restore' = [restore EXCEPT ![r] = new]
    BY <1>2 DEF AskRestore
  <2> HIDE DEF new
  <2> QED BY <1>0, <1>1, <1>2, <2>1, <2>2 DEF AskRestore, RestoreTyped
<1>3. ASSUME NEW at \in {"begin", "fetch", "put", "unpack", "done"}, restore' = [restore EXCEPT ![r].at = at],
             restore[r].at # "idle", at = "put" => restore[r].next \in Chunks,
             restored' \in [Backups -> {"none", "restoring", "restored", "failed"}],
             late' \subseteq LateCalls,
             restoreDir' \in [Backups -> [there: BOOLEAN, chunks: SUBSET Chunks]],
             UNCHANGED <<unpacking, second, folder, made>>
      PROVE  Whole'
  <2> DEFINE new == [restore[r] EXCEPT !.at = at]
  <2>1. new \in RestoreRow /\ new.to = restore[r].to /\ new.backup \in Backups /\ new.at = at
        /\ new.next = restore[r].next
    BY <1>0, <1>3 DEF RestoreRow, Asked
  <2>2. restore' = [restore EXCEPT ![r] = new]
    BY <1>3
  <2> HIDE DEF new
  <2> QED BY <1>1, <1>3, <2>1, <2>2
<1>4. CASE FetchManifest(r) \/ FetchChunk(r) \/ AllFetched(r)
  BY <1>0, <1>3, <1>4 DEF FetchManifest, FetchChunk, AllFetched, RestoreTyped
<1>5. CASE RestoreBegin(r)
  <2>1. Begun \in [there: BOOLEAN, chunks: SUBSET Chunks]
    BY DEF Begun
  <2> QED BY <1>0, <1>3, <1>5, <2>1 DEF RestoreBegin, RestoreTyped
<1>6. CASE RestoreChunk(r)
  <2> DEFINE new == [restore[r] EXCEPT !.at = "fetch", !.next = @ + 1]
  <2>1. restore[r].next \in Chunks /\ restore[r].backup \in Backups
    BY <1>0, <1>6 DEF RestoreChunk, Asked
  <2>2. restore[r].next + 1 \in 0 .. LastChunk + 1
    BY <2>1, BackupAssumption DEF Chunks
  <2>3. new \in RestoreRow /\ new.to = restore[r].to /\ new.backup \in Backups /\ new.at = "fetch"
    BY <1>0, <2>1, <2>2 DEF RestoreRow
  <2>4. restore' = [restore EXCEPT ![r] = new]
    BY <1>6 DEF RestoreChunk
  <2>5. restoreDir' \in [Backups -> [there: BOOLEAN, chunks: SUBSET Chunks]]
    BY <1>0, <1>6, <2>1 DEF RestoreChunk, RestoreTyped
  <2> HIDE DEF new
  <2> QED BY <1>0, <1>1, <1>6, <2>3, <2>4, <2>5 DEF RestoreChunk, RestoreTyped
<1>7. CASE UnpackBegins(r)
  <2>1. restore[r].backup \in Backups
    BY <1>0, <1>7 DEF UnpackBegins, Asked
  <2>2. /\ second' \in Seconds /\ unpacking' \in [Restores -> UnpackRow]
        /\ \A s \in Restores : unpacking'[s].next = 0 \/ unpacking'[s] = unpacking[s]
    BY <1>0, <1>7, <2>1, UnpackStarts DEF UnpackBegins
  <2>3. RestoreTyped'
    BY <1>0, <1>7, <2>2 DEF UnpackBegins, RestoreTyped, Asked
  <2> QED BY <1>7, <2>2, <2>3, NoNewClaim DEF UnpackBegins
<1>8. CASE RestoreFails(r)
  <2>1. restore[r].at # "idle" /\ restore[r].backup \in Backups
    BY <1>0, <1>8 DEF RestoreFails, Asked
  <2>2. Underway(r) \subseteq LateCalls
    BY <1>0, <2>1 DEF Underway, LateCalls, RestoreRow, Asked
  <2>3. late' \subseteq LateCalls
    BY <1>0, <1>8, <2>2 DEF RestoreFails, RestoreTyped
  <2>4. restored' \in [Backups -> {"none", "restoring", "restored", "failed"}]
    BY <1>0, <1>8, <2>1 DEF RestoreFails, RestoreTyped
  <2> QED BY <1>0, <1>3, <1>8, <2>1, <2>3, <2>4 DEF RestoreFails, RestoreTyped
<1>9. CASE RestoreEnds(r)
  <2>1. restored' \in [Backups -> {"none", "restoring", "restored", "failed"}]
    BY <1>0, <1>9 DEF RestoreEnds, RestoreTyped, Asked
  <2> QED BY <1>0, <1>3, <1>9, <2>1 DEF RestoreEnds, RestoreTyped
<1> QED BY <1>2, <1>4, <1>5, <1>6, <1>7, <1>8, <1>9 DEF Restoring

LEMMA UnpackingWhole == ASSUME Whole, NEW r \in Restores, Unpacking(r) PROVE Whole'
<1>0. /\ RestoreTyped /\ restore[r] \in RestoreRow /\ unpacking[r] \in UnpackRow
      /\ r # Nobody /\ r # Torn
  BY Rows DEF Whole
<1>1. CASE StatFolder(r) \/ MakeFolder(r)
  <2>1. PICK at \in {"make", "extract"} : unpacking' = [unpacking EXCEPT ![r].at = at]
    BY <1>1 DEF StatFolder, MakeFolder
  <2> DEFINE new == [unpacking[r] EXCEPT !.at = at]
  <2>2. new \in UnpackRow /\ new.second = unpacking[r].second /\ new.next = unpacking[r].next
    BY <1>0 DEF UnpackRow
  <2>3. unpacking' = [unpacking EXCEPT ![r] = new]
    BY <2>1
  <2> HIDE DEF new
  <2>4. /\ unpacking' \in [Restores -> UnpackRow]
        /\ \A s \in Restores : unpacking'[s].second = unpacking[s].second /\ unpacking'[s].next = unpacking[s].next
    BY <1>0, <2>2, <2>3 DEF RestoreTyped
  <2>5. made' \subseteq Seconds
    BY <1>0, <1>1 DEF StatFolder, MakeFolder, RestoreTyped, UnpackRow
  <2>6. RestoreTyped'
    BY <1>0, <1>1, <2>4, <2>5 DEF StatFolder, MakeFolder, RestoreTyped, Asked
  <2> QED BY <1>1, <2>4, <2>6, NoNewClaim DEF StatFolder, MakeFolder
<1>2. CASE ExtractFile(r)
  <2> DEFINE new == [unpacking[r] EXCEPT !.next = @ + 1]
             s == unpacking[r].second
             n == unpacking[r].next
  <2>1. n \in Chunks /\ folder[s][n] = Nobody /\ WriteFile(r, r)
    BY <1>2 DEF ExtractFile
  <2>2. n + 1 \in 0 .. LastChunk + 1
    BY <2>1, BackupAssumption DEF Chunks
  <2>3. new \in UnpackRow /\ new.second = s /\ new.next = n + 1
    BY <1>0, <2>2 DEF UnpackRow
  <2>4. unpacking' = [unpacking EXCEPT ![r] = new]
    BY <1>2 DEF ExtractFile
  <2> HIDE DEF new
  <2>5. /\ folder' \in [Seconds -> [Chunks -> Restores \union {Nobody, Torn}]]
        /\ folder'[s][n] = r
        /\ \A x \in Seconds, i \in Chunks : folder[x][i] # Nobody => folder'[x][i] = folder[x][i]
    BY <1>0, <2>1, FilesStay
  <2>6. RestoreTyped'
    <3>1. unpacking' \in [Restores -> UnpackRow]
      BY <1>0, <2>3, <2>4 DEF RestoreTyped
    <3>2. /\ UNCHANGED <<restored, restore, late, restoreDir, second, made>>
          /\ \A q \in Restores : Asked(q)'
      BY <1>0, <1>2 DEF ExtractFile, RestoreTyped, Asked
    <3> QED BY <1>0, <2>5, <3>1, <3>2 DEF RestoreTyped
  <2>7. Extracted(r)'
    <3> SUFFICES ASSUME NEW i \in Chunks, i < n + 1 PROVE folder'[s][i] = r
      BY <1>0, <2>3, <2>4 DEF Extracted, RestoreTyped
    <3>1. CASE i = n
      BY <2>5, <3>1
    <3>2. CASE i # n
      <4>1. i < n
        BY <2>1, <3>2, BackupAssumption DEF Chunks
      <4>2. folder[s][i] = r /\ s \in Seconds
        BY <1>0, <4>1 DEF Whole, Extracted, UnpackRow
      <4> QED BY <1>0, <2>5, <4>2
    <3> QED BY <3>1, <3>2
  <2>8. ASSUME NEW q \in Restores, q # r PROVE Extracted(q)'
    <3>1. unpacking'[q] = unpacking[q] /\ unpacking[q] \in UnpackRow /\ q # Nobody
      BY <1>0, <2>4, <2>8, Rows DEF RestoreTyped
    <3> SUFFICES ASSUME NEW i \in Chunks, i < unpacking[q].next PROVE folder'[unpacking[q].second][i] = q
      BY <3>1 DEF Extracted
    <3>2. folder[unpacking[q].second][i] = q /\ unpacking[q].second \in Seconds
      BY <3>1 DEF Whole, Extracted, UnpackRow
    <3> QED BY <2>5, <3>1, <3>2
  <2>9. ASSUME NEW q \in Restores PROVE Reported(q)'
    <3>1. restore' = restore /\ restore[q] \in RestoreRow /\ q # Nobody
      BY <1>0, <1>2, Rows DEF ExtractFile
    <3> SUFFICES ASSUME restore[q].to # Nobody, NEW i \in Chunks PROVE folder'[restore[q].to][i] = q
      BY <3>1 DEF Reported
    <3>2. folder[restore[q].to][i] = q /\ restore[q].to \in Seconds
      BY <3>1 DEF Whole, Reported, RestoreRow
    <3> QED BY <2>5, <3>1, <3>2
  <2> QED BY <2>6, <2>7, <2>8, <2>9 DEF Whole
<1>3. CASE UnpackFails(r)
  <2>1. /\ folder' \in [Seconds -> [Chunks -> Restores \union {Nobody, Torn}]]
        /\ \A x \in Seconds, i \in Chunks : folder[x][i] # Nobody => folder'[x][i] = folder[x][i]
    <3>1. CASE UNCHANGED folder
      BY <1>0, <3>1 DEF RestoreTyped
    <3>2. CASE /\ unpacking[r].next \in Chunks
               /\ folder[unpacking[r].second][unpacking[r].next] = Nobody
               /\ WriteFile(r, Torn)
      BY <1>0, <3>2, FilesStay
    <3> QED BY <1>3, <3>1, <3>2 DEF UnpackFails
  <2>2. NotUnpacking \in UnpackRow /\ NotUnpacking.next = 0
    BY Zero DEF NotUnpacking, UnpackRow
  <2>3. /\ unpacking' \in [Restores -> UnpackRow]
        /\ \A q \in Restores : unpacking'[q].next = 0 \/ unpacking'[q] = unpacking[q]
    BY <1>0, <1>3, <2>2 DEF UnpackFails, RestoreTyped
  <2> DEFINE at == IF restore[r].at = "unpack" THEN "refused" ELSE restore[r].at
             new == [restore[r] EXCEPT !.at = at]
  <2>4. restore' = [restore EXCEPT ![r].at = at]
    BY <1>3 DEF UnpackFails
  <2>5. /\ new \in RestoreRow /\ new.to = restore[r].to
        /\ new.at # "idle" => new.backup \in Backups
        /\ new.at = "put" => new.next \in Chunks
    <3>1. Asked(r)
      BY <1>0 DEF RestoreTyped
    <3>2. new.at = at /\ new.backup = restore[r].backup /\ new.next = restore[r].next /\ new.to = restore[r].to
      BY <1>0 DEF RestoreRow
    <3>3. new \in RestoreRow
      BY <1>0 DEF RestoreRow
    <3> QED BY <3>1, <3>2, <3>3 DEF Asked
  <2>6. restore' = [restore EXCEPT ![r] = new]
    BY <2>4
  <2> HIDE DEF new
  <2>7. /\ restore' \in [Restores -> RestoreRow]
        /\ \A q \in Restores : restore'[q].to = restore[q].to
        /\ \A q \in Restores : Asked(q)'
    BY <1>0, <2>5, <2>6 DEF RestoreTyped, Asked
  <2>8. RestoreTyped'
    BY <1>0, <1>3, <2>1, <2>3, <2>7 DEF UnpackFails, RestoreTyped
  <2> QED BY <2>1, <2>3, <2>7, <2>8, NoNewClaim
<1>4. CASE UnpackEnds(r)
  <2>1. NotUnpacking \in UnpackRow /\ NotUnpacking.next = 0 /\ NoDir \in [there: BOOLEAN, chunks: SUBSET Chunks]
    BY Zero DEF NotUnpacking, UnpackRow, NoDir
  <2>2. /\ unpacking' \in [Restores -> UnpackRow]
        /\ \A q \in Restores : unpacking'[q].next = 0 \/ unpacking'[q] = unpacking[q]
    BY <1>0, <1>4, <2>1 DEF UnpackEnds, RestoreTyped
  <2>3. restoreDir' \in [Backups -> [there: BOOLEAN, chunks: SUBSET Chunks]]
    BY <1>0, <1>4, <2>1 DEF UnpackEnds, RestoreTyped
  <2>4. \A i \in Chunks : folder[unpacking[r].second][i] = r
    <3>1. unpacking[r].next = LastChunk + 1
      BY <1>0, <1>4, BackupAssumption DEF UnpackEnds, UnpackRow, Chunks
    <3>2. \A i \in Chunks : i < unpacking[r].next
      BY <3>1, BackupAssumption DEF Chunks
    <3> QED BY <3>2 DEF Whole, Extracted
  <2> DEFINE new == IF restore[r].at = "unpack" THEN [restore[r] EXCEPT !.at = "unpacked", !.to = unpacking[r].second]
                    ELSE restore[r]
  <2>5. /\ new \in RestoreRow
        /\ new.to = restore[r].to \/ new.to = unpacking[r].second
        /\ new.at # "idle" => new.backup \in Backups
        /\ new.at = "put" => new.next \in Chunks
    <3>1. CASE restore[r].at = "unpack"
      <4>1. restore[r].backup \in Backups
        BY <1>0, <3>1 DEF RestoreTyped, Asked
      <4> QED BY <1>0, <3>1, <4>1 DEF RestoreRow, UnpackRow
    <3>2. CASE restore[r].at # "unpack"
      BY <1>0, <3>2 DEF RestoreTyped, Asked
    <3> QED BY <3>1, <3>2
  <2>6. restore' = [restore EXCEPT ![r] = new]
    BY <1>4 DEF UnpackEnds
  <2> HIDE DEF new
  <2>7. restore' \in [Restores -> RestoreRow] /\ \A q \in Restores : Asked(q)'
    BY <1>0, <2>5, <2>6 DEF RestoreTyped, Asked
  <2>8. RestoreTyped'
    BY <1>0, <1>4, <2>2, <2>3, <2>7 DEF UnpackEnds, RestoreTyped
  <2>9. folder' = folder
    BY <1>4 DEF UnpackEnds
  <2>10. ASSUME NEW q \in Restores PROVE Reported(q)'
    <3>1. CASE q # r
      BY <1>0, <2>6, <2>9, <3>1 DEF Whole, RestoreTyped, Reported
    <3>2. CASE q = r
      BY <1>0, <2>4, <2>5, <2>6, <2>9, <3>2 DEF Whole, RestoreTyped, Reported
    <3> QED BY <3>1, <3>2
  <2>11. ASSUME NEW q \in Restores PROVE Extracted(q)'
    <3>1. CASE unpacking'[q].next = 0
      BY <3>1, BackupAssumption DEF Extracted, Chunks
    <3>2. CASE unpacking'[q] = unpacking[q]
      BY <2>9, <3>2 DEF Whole, Extracted
    <3> QED BY <2>2, <3>1, <3>2
  <2> QED BY <2>8, <2>10, <2>11 DEF Whole
<1> QED BY <1>1, <1>2, <1>3, <1>4 DEF Unpacking

LEMMA RestartWhole == ASSUME Whole, OwnerRestarts \/ CasperRestarts PROVE Whole'
<1>0. RestoreTyped
  BY DEF Whole
<1>1. CASE OwnerRestarts
  <2>1. NotUnpacking \in UnpackRow /\ NotUnpacking.next = 0
    BY Zero DEF NotUnpacking, UnpackRow
  <2>2. unpacking' \in [Restores -> UnpackRow] /\ \A q \in Restores : unpacking'[q].next = 0
    BY <1>1, <2>1 DEF OwnerRestarts
  <2>3. ASSUME NEW q \in Restores
        PROVE  restore'[q] \in RestoreRow /\ restore'[q].to = restore[q].to /\ Asked(q)'
    <3>1. restore[q] \in RestoreRow /\ Asked(q)
      BY <1>0, Rows DEF RestoreTyped
    <3>2. restore'[q] = restore[q]
          \/ (restore'[q] = [restore[q] EXCEPT !.at = "refused"] /\ restore[q].at = "unpack")
      BY <1>1 DEF OwnerRestarts
    <3> QED BY <3>1, <3>2 DEF RestoreRow, Asked
  <2>4. restore' \in [Restores -> RestoreRow]
    BY <1>1, <2>3 DEF OwnerRestarts
  <2>5. RestoreTyped'
    BY <1>0, <1>1, <2>2, <2>3, <2>4 DEF OwnerRestarts, RestoreTyped
  <2> QED BY <1>1, <2>2, <2>3, <2>5, NoNewClaim DEF OwnerRestarts
<1>2. CASE CasperRestarts
  <2>3. ASSUME NEW q \in Restores
        PROVE  /\ restore'[q] \in RestoreRow /\ restore'[q].to = restore[q].to /\ Asked(q)'
               /\ Underway(q) \subseteq LateCalls
    <3>1. restore[q] \in RestoreRow /\ Asked(q)
      BY <1>0, Rows DEF RestoreTyped
    <3>2. restore'[q] = restore[q]
          \/ (restore'[q] = [restore[q] EXCEPT !.at = "done"] /\ restore[q].at # "idle")
      BY <1>2 DEF CasperRestarts
    <3>3. Underway(q) \subseteq LateCalls
      BY <3>1 DEF Underway, LateCalls, RestoreRow, Asked
    <3> QED BY <3>1, <3>2, <3>3 DEF RestoreRow, Asked
  <2>4. restore' \in [Restores -> RestoreRow]
    BY <1>2, <2>3 DEF CasperRestarts
  <2>5. late' \subseteq LateCalls
    <3>1. PICK kept \in SUBSET Restores : late' = late \union UNION {Underway(q) : q \in kept}
      BY <1>2 DEF CasperRestarts
    <3>2. UNION {Underway(q) : q \in kept} \subseteq LateCalls
      BY <2>3
    <3> QED BY <1>0, <3>1, <3>2 DEF RestoreTyped
  <2>6. RestoreTyped'
    BY <1>0, <1>2, <2>3, <2>4, <2>5 DEF CasperRestarts, RestoreTyped
  <2> QED BY <1>2, <2>3, <2>6, NoNewClaim DEF CasperRestarts
<1> QED BY <1>1, <1>2

LEMMA ArrivalWhole == ASSUME Whole, NEW c \in late, CallArrives(c) PROVE Whole'
<1>0. /\ RestoreTyped /\ c \in LateCalls /\ c.backup \in Backups /\ c.restore \in Restores
      /\ c.at = "put" => c.next \in Chunks
  BY DEF Whole, RestoreTyped, LateCalls
<1>1. late' \subseteq LateCalls
  BY <1>0 DEF CallArrives, RestoreTyped
<1>2. restoreDir' \in [Backups -> [there: BOOLEAN, chunks: SUBSET Chunks]]
  <2>1. Begun \in [there: BOOLEAN, chunks: SUBSET Chunks]
    BY DEF Begun
  <2>2. CASE restoreDir' = [restoreDir EXCEPT ![c.backup] = Begun]
    BY <1>0, <2>1, <2>2 DEF RestoreTyped
  <2>3. CASE c.at = "put" /\ restoreDir' = [restoreDir EXCEPT ![c.backup].chunks = @ \union {c.next}]
    BY <1>0, <2>3 DEF RestoreTyped
  <2>4. CASE UNCHANGED restoreDir
    BY <1>0, <2>4 DEF RestoreTyped
  <2> QED BY <2>2, <2>3, <2>4 DEF CallArrives
<1>3. /\ second' \in Seconds /\ unpacking' \in [Restores -> UnpackRow]
      /\ \A s \in Restores : unpacking'[s].next = 0 \/ unpacking'[s] = unpacking[s]
  <2>1. CASE UNCHANGED <<unpacking, second>>
    BY <1>0, <2>1 DEF RestoreTyped
  <2>2. CASE Unpacks(c.restore, c.backup)
    BY <1>0, <2>2, UnpackStarts
  <2> QED BY <2>1, <2>2 DEF CallArrives
<1>4. RestoreTyped'
  BY <1>0, <1>1, <1>2, <1>3 DEF CallArrives, RestoreTyped, Asked
<1> QED BY <1>3, <1>4, NoNewClaim DEF CallArrives

LEMMA NextWhole == Whole /\ [RestoreNext]_allVars => Whole'
<1> SUFFICES ASSUME Whole, [RestoreNext]_allVars PROVE Whole'
  OBVIOUS
<1>1. CASE UNCHANGED restoreVars
  BY <1>1 DEF restoreVars, Whole, RestoreTyped, Asked, Extracted, Reported
<1>2. CASE OwnerRestarts \/ CasperRestarts
  BY <1>2, RestartWhole
<1>3. ASSUME NEW r \in Restores, (\E b \in Backups : AskRestore(r, b)) \/ Restoring(r) \/ Unpacking(r)
      PROVE  Whole'
  BY <1>3, RestoringWhole, UnpackingWhole
<1>4. ASSUME NEW c \in late, CallArrives(c) PROVE Whole'
  BY <1>4, ArrivalWhole
<1> QED BY <1>1, <1>2, <1>3, <1>4 DEF RestoreNext, allVars

\* A folder a restore was reported to be in holds every file, all written by
\* that restore, whatever else is restored, at once and in the same second.
THEOREM RestoresAreWhole == RestoreSpec => []RestoredIsWhole
<1>1. Whole => RestoredIsWhole
  BY DEF Whole, Reported, RestoredIsWhole
<1> QED BY <1>1, InitWhole, NextWhole, PTL DEF RestoreSpec

\* Restores keep their shape, and that of everything in Backups.
THEOREM RestoreTypesKept == RestoreSpec => []RestoreTypeOK
<1>1. Typed /\ Whole => RestoreTypeOK
  <2> SUFFICES ASSUME Typed, Whole PROVE RestoreTypeOK
    OBVIOUS
  <2>1. late \subseteq [restore: Restores, at: {"begin", "put", "unpack"}, backup: Backups, next: 0 .. LastChunk + 1]
    BY DEF Whole, RestoreTyped, LateCalls
  <2> QED BY <2>1 DEF Typed, Whole, RestoreTyped, RestoreRow, UnpackRow, RestoreTypeOK
<1>2. RestoreInit => Typed
  BY InitTyped DEF RestoreInit
<1>3. Typed /\ [RestoreNext]_allVars => Typed'
  BY NextTyped, RestoreStep
<1> QED BY <1>1, <1>2, <1>3, InitWhole, NextWhole, PTL DEF RestoreSpec
=============================================================================
