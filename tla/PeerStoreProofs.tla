-------------------------- MODULE PeerStoreProofs --------------------------
(***************************************************************************)
(* What of PeerStore holds for any number of people, backups, chunks and   *)
(* requests at the same time, and any quota, grace and cache age.          *)
(*                                                                         *)
(* Five arguments.  What the files of a backup look like (Files) follows   *)
(* from the order in which a write creates them.  What the daemon reads    *)
(* off a list is true of the service's rows because every list is an older *)
(* version of them (ListsAreOlder).  How much older is bounded by how long *)
(* a fetch and the cache may last (ListsAreRecent).  The quota is held     *)
(* because each first chunk still being written has had room for its whole *)
(* backup (QuotaInv).  And a refresh holds as long as nothing older has    *)
(* replaced the cache (RefreshHolds).                                      *)
(***************************************************************************)
EXTENDS PeerStore, FiniteSetTheorems, WellFoundedInduction, TLAPS

\* A request at work has an operation, and once it has fetched, a list.
AtWork ==
    /\ \A h \in Handlers : step[h] # "idle" => op[h] \in Op
    /\ \A h \in Handlers : step[h] \in {"fetched", "deciding", "writing", "marking"} => list[h] \in Seq(Grant)
    /\ \A h \in Handlers : step[h] \in {"writing", "marking"} => op[h].kind = "write"

Typed == TypeOK /\ AtWork

\* A set of naturals that is not empty has a least element.
LEMMA LeastNat ==
    ASSUME NEW A \in SUBSET Nat, A # {}
    PROVE  \E x \in A : \A y \in A : x <= y
<1>1. PICK x \in A : \A y \in A : ~(<<y, x>> \in OpToRel(<, Nat))
  BY NatLessThanWellFounded, WFMin
<1>2. ASSUME NEW y \in A, ~(x <= y) PROVE FALSE
  <2>1. x \in Nat /\ y \in Nat /\ y < x
    BY <1>2
  <2>2. <<y, x>> \in Nat \X Nat /\ <<y, x>>[1] = y /\ <<y, x>>[2] = x
    BY <2>1
  <2>3. <<y, x>> \in {ss \in Nat \X Nat : ss[1] < ss[2]}
    BY <2>1, <2>2
  <2>4. <<y, x>> \in OpToRel(<, Nat)
    BY <2>3, Zenon DEF OpToRel
  <2> QED BY <1>1, <2>4
<1> QED BY <1>2

----------------------------------------------------------------------------
(* Types *)

Steps == {"idle", "fetching", "fetched", "deciding", "writing", "marking"}

LEMMA ConstantsFit == Empty \in Dir /\ 0 \in Chunks /\ Chunks # {}
<1>1. 0 \in Chunks
  BY PeerAssumption DEF Chunks
<1> QED BY <1>1 DEF Empty, Dir

LEMMA OpKinds ==
    /\ \A o \in Op : o.kind = "write" => o.backup \in Backups /\ o.index \in Chunks
    /\ \A o \in Op : o.kind = "delete" => o.backup \in Backups
<1> QED BY DEF Op, WriteOp, OwnOp, RefreshOp

LEMMA InitTyped == Init => Typed
<1> SUFFICES ASSUME Init PROVE Typed
  OBVIOUS
<1>1. grants \in Seq(Grant) /\ stored \in [Backups -> Dir]
  BY ConstantsFit DEF Init
<1>2. TypeOK
  BY <1>1 DEF Init, TypeOK
<1>3. AtWork
  BY DEF Init, AtWork
<1> QED BY <1>2, <1>3 DEF Typed

\* What Finish leaves behind.
LEMMA FinishTyped ==
    ASSUME Typed, NEW h \in Handlers, Finish(h)
    PROVE  /\ step' \in [Handlers -> Steps]
           /\ op' \in [Handlers -> Op \union {NoOp}]
           /\ list' \in [Handlers -> Seq(Grant) \union {NoList}]
           /\ since' \in [Handlers -> Nat]
           /\ knew' \in [Handlers -> SUBSET Nat]
           /\ step'[h] = "idle"
           /\ \A k \in Handlers \ {h} :
                step'[k] = step[k] /\ op'[k] = op[k] /\ list'[k] = list[k]
                /\ since'[k] = since[k] /\ knew'[k] = knew[k]
           /\ AtWork'
<1>1. /\ step' \in [Handlers -> Steps] /\ op' \in [Handlers -> Op \union {NoOp}]
      /\ list' \in [Handlers -> Seq(Grant) \union {NoList}]
      /\ since' \in [Handlers -> Nat] /\ knew' \in [Handlers -> SUBSET Nat]
  BY DEF Finish, Typed, TypeOK, Steps
<1>2. /\ step'[h] = "idle"
      /\ \A k \in Handlers \ {h} :
            step'[k] = step[k] /\ op'[k] = op[k] /\ list'[k] = list[k]
            /\ since'[k] = since[k] /\ knew'[k] = knew[k]
  BY DEF Finish, Typed, TypeOK
<1>3. AtWork'
  BY <1>2 DEF Typed, AtWork
<1> QED BY <1>1, <1>2, <1>3

LEMMA RemoveTyped ==
    ASSUME Typed, NEW gone, Remove(gone)
    PROVE  stored' \in [Backups -> Dir] /\ wiped' \subseteq Backups
<1>1. stored' \in [Backups -> Dir]
  BY ConstantsFit DEF Remove, Typed, TypeOK
<1>2. BeingWritten \subseteq Backups
  BY OpKinds DEF BeingWritten, Typed, AtWork
<1> QED BY <1>1, <1>2 DEF Remove, Typed, TypeOK

LEMMA RevokedAreRows ==
    ASSUME NEW rows \in Seq(Grant)
    PROVE  Revoked(rows) \subseteq Nat
BY DEF Revoked

LEMMA ServiceTyped ==
    ASSUME Typed,
           \/ \E u \in Grantees, tier \in Tiers : GiveGrant(u, tier)
           \/ \E n \in 1 .. MaxRows : RevokeGrant(n)
           \/ Tick
    PROVE  Typed'
<1> USE DEF serviceVars, storeVars, callVars, history
<1>0. grants \in Seq(Grant) /\ now \in Nat
  BY DEF Typed, TypeOK
<1>1. ASSUME NEW u \in Grantees, NEW tier \in Tiers, GiveGrant(u, tier) PROVE Typed'
  <2>1. [who |-> u, tier |-> tier, revokedAt |-> Active] \in Grant
    BY DEF Grant
  <2>2. grants' \in Seq(Grant)
    BY <1>0, <1>1, <2>1 DEF GiveGrant
  <2> QED BY <1>1, <2>2 DEF GiveGrant, Typed, TypeOK, AtWork
<1>2. ASSUME NEW n \in 1 .. MaxRows, RevokeGrant(n) PROVE Typed'
  <2>1. grants[n] \in Grant /\ [grants[n] EXCEPT !.revokedAt = now] \in Grant
    <3>1. grants[n] \in Grant
      BY <1>0, <1>2 DEF RevokeGrant
    <3> QED BY <1>0, <3>1 DEF Grant
  <2>2. grants' \in Seq(Grant)
    BY <1>0, <1>2, <2>1 DEF RevokeGrant
  <2> QED BY <1>2, <2>2 DEF RevokeGrant, Typed, TypeOK, AtWork
<1>3. CASE Tick
  BY <1>0, <1>3 DEF Tick, Typed, TypeOK, AtWork
<1> QED BY <1>1, <1>2, <1>3

LEMMA CallTyped ==
    ASSUME Typed, NEW h \in Handlers,
           (\E o \in Op : Begin(h, o)) \/ Fetch(h) \/ FetchFails(h) \/ KeepList(h)
    PROVE  Typed'
<1> USE DEF serviceVars, storeVars, callVars, history
<1>0. /\ step \in [Handlers -> Steps] /\ list \in [Handlers -> Seq(Grant) \union {NoList}]
      /\ now \in Nat /\ grants \in Seq(Grant) /\ cached \in Seq(Grant) \union {NoList}
      /\ op \in [Handlers -> Op \union {NoOp}] /\ since \in [Handlers -> Nat]
      /\ knew \in [Handlers -> SUBSET Nat] /\ refreshed \in SUBSET Nat
  BY DEF Typed, TypeOK, Steps
<1>1. ASSUME NEW o \in Op, Begin(h, o) PROVE Typed'
  <2>1. op' \in [Handlers -> Op \union {NoOp}] /\ knew' \in [Handlers -> SUBSET Nat]
    BY <1>0, <1>1 DEF Begin
  <2>2. /\ step' \in [Handlers -> Steps] /\ since' \in [Handlers -> Nat]
        /\ list' \in [Handlers -> Seq(Grant) \union {NoList}]
    BY <1>0, <1>1 DEF Begin, Steps
  <2>3. AtWork'
    <3>1. step'[h] \in {"fetching", "deciding"} /\ op'[h] = o
          /\ (step'[h] = "deciding" => list'[h] \in Seq(Grant))
      BY <1>0, <1>1 DEF Begin, Fresh
    <3>2. \A k \in Handlers \ {h} : step'[k] = step[k] /\ op'[k] = op[k] /\ list'[k] = list[k]
      BY <1>0, <1>1 DEF Begin
    <3> QED BY <3>1, <3>2 DEF Typed, AtWork
  <2> QED BY <1>1, <2>1, <2>2, <2>3 DEF Begin, Typed, TypeOK, Steps
<1>2. CASE Fetch(h)
  <2>1. step' \in [Handlers -> Steps] /\ list' \in [Handlers -> Seq(Grant) \union {NoList}]
    BY <1>0, <1>2 DEF Fetch, Steps
  <2>2. AtWork'
    BY <1>0, <1>2 DEF Fetch, Typed, AtWork
  <2> QED BY <1>2, <2>1, <2>2 DEF Fetch, Typed, TypeOK, Steps
<1>3. CASE FetchFails(h)
  BY <1>3, FinishTyped DEF FetchFails, Typed, TypeOK, Steps
<1>4. CASE KeepList(h)
  <2>1. step' \in [Handlers -> Steps] /\ cached' \in Seq(Grant) /\ cachedAt' \in Nat /\ reverted' \in BOOLEAN
    BY <1>0, <1>4 DEF KeepList, Steps, Typed, TypeOK, AtWork
  <2>2. AtWork'
    BY <1>0, <1>4 DEF KeepList, Typed, AtWork
  <2> QED BY <1>4, <2>1, <2>2 DEF KeepList, Typed, TypeOK, Steps
<1> QED BY <1>1, <1>2, <1>3, <1>4

LEMMA RequestTyped ==
    ASSUME Typed, NEW h \in Handlers,
           \/ Reply(h) \/ RefuseWrite(h) \/ AcceptWrite(h) \/ WriteFiles(h)
           \/ Mark(h) \/ WriteCutShort(h) \/ Delete(h) \/ Purge(h)
    PROVE  Typed'
<1> USE DEF serviceVars, storeVars, callVars, history
<1>0. /\ step \in [Handlers -> Steps] /\ stored \in [Backups -> Dir]
  BY DEF Typed, TypeOK, Steps
<1>1. CASE Reply(h)
  BY <1>1, FinishTyped DEF Reply, Typed, TypeOK, Steps
<1>2. CASE RefuseWrite(h)
  BY <1>2, FinishTyped DEF RefuseWrite, Typed, TypeOK, Steps
<1>3. CASE AcceptWrite(h)
  <2>1. step' \in [Handlers -> Steps] /\ overlapped' \in BOOLEAN
    BY <1>0, <1>3 DEF AcceptWrite, Steps, Typed, TypeOK
  <2>2. AtWork'
    BY <1>0, <1>3 DEF AcceptWrite, Deciding, Typed, AtWork
  <2> QED BY <1>3, <2>1, <2>2 DEF AcceptWrite, Typed, TypeOK, Steps
<1>4. ASSUME step[h] \in {"writing", "marking"}
      PROVE  op[h].backup \in Backups /\ op[h].index \in Chunks /\ stored[op[h].backup] \in Dir
  BY <1>0, <1>4, OpKinds DEF Typed, AtWork
<1>5. CASE WriteFiles(h)
  <2>1. Written(stored[op[h].backup], op[h].index) \in Dir
    BY <1>4, <1>5 DEF WriteFiles, Written, Dir
  <2>2. stored' \in [Backups -> Dir]
    BY <1>0, <1>5, <2>1 DEF WriteFiles
  <2>3. CASE Whole(Written(stored[op[h].backup], op[h].index))
    <3>1. step' \in [Handlers -> Steps]
      BY <1>0, <1>5, <2>3 DEF WriteFiles, Steps
    <3>2. AtWork'
      BY <1>0, <1>5, <2>3 DEF WriteFiles, Typed, AtWork
    <3> QED BY <1>5, <2>2, <2>3, <3>1, <3>2 DEF WriteFiles, Typed, TypeOK, Steps
  <2>4. CASE ~Whole(Written(stored[op[h].backup], op[h].index))
    <3>1. Finish(h) /\ UNCHANGED <<now, grants, cached, cachedAt, refreshed, wiped, reverted, overlapped>>
      BY <1>5, <2>4 DEF WriteFiles
    <3> QED BY <2>2, <3>1, FinishTyped DEF Typed, TypeOK, Steps
  <2> QED BY <2>3, <2>4
<1>6. CASE Mark(h)
  <2>1. stored' \in [Backups -> Dir]
    BY <1>0, <1>4, <1>6 DEF Mark, Dir
  <2> QED BY <1>6, <2>1, FinishTyped DEF Mark, Typed, TypeOK, Steps
<1>7. CASE WriteCutShort(h)
  <2>1. stored' \in [Backups -> Dir]
    <3>1. PICK chunkToo \in BOOLEAN :
            stored' = [stored EXCEPT ![op[h].backup] =
                CutShort(stored[op[h].backup], op[h].index, chunkToo)]
      BY <1>7 DEF WriteCutShort
    <3>2. step[h] = "writing"
      BY <1>7 DEF WriteCutShort
    <3>3. CutShort(stored[op[h].backup], op[h].index, chunkToo) \in Dir
      BY <1>4, <3>2 DEF CutShort, Dir
    <3> QED BY <1>0, <3>1, <3>3
  <2> QED BY <1>7, <2>1, FinishTyped DEF WriteCutShort, Typed, TypeOK, Steps
<1>8. CASE Delete(h)
  <2>1. stored' \in [Backups -> Dir] /\ wiped' \subseteq Backups
    BY <1>8, RemoveTyped DEF Delete
  <2> QED BY <1>8, <2>1, FinishTyped DEF Delete, Typed, TypeOK, Steps
<1>9. CASE Purge(h)
  <2>1. stored' \in [Backups -> Dir] /\ wiped' \subseteq Backups
    BY <1>9, RemoveTyped DEF Purge
  <2>2. refreshed' \in SUBSET Nat
    BY <1>9, RevokedAreRows DEF Purge, Deciding, Typed, TypeOK, AtWork
  <2> QED BY <1>9, <2>1, <2>2, FinishTyped DEF Purge, Typed, TypeOK, Steps
<1> QED BY <1>1, <1>2, <1>3, <1>5, <1>6, <1>7, <1>8, <1>9

LEMMA NextTyped == Typed /\ [Next]_vars => Typed'
<1> SUFFICES ASSUME Typed, [Next]_vars PROVE Typed'
  OBVIOUS
<1> USE DEF serviceVars, storeVars, callVars, history
<1>1. CASE Restart
  BY <1>1 DEF Restart, Typed, TypeOK, AtWork
<1>2. CASE UNCHANGED vars
  BY <1>2 DEF vars, Typed, TypeOK, AtWork
<1> QED BY <1>1, <1>2, ServiceTyped, CallTyped, RequestTyped DEF Next

\* Every variable keeps its type: no request works without an operation, and
\* none decides without a list.
THEOREM TypesKept == Spec => []TypeOK
<1>1. Typed => TypeOK
  BY DEF Typed
<1> QED BY <1>1, InitTyped, NextTyped, PTL DEF Spec

----------------------------------------------------------------------------
(* The files of a backup *)

\* The first chunk is never without its manifest, and neither the marker nor
\* a request about to set it is without every chunk, removals under a write aside.
Files ==
    /\ \A b \in Backups : 0 \in stored[b].chunks => stored[b].manifest
    /\ \A b \in Backups \ wiped : stored[b].complete => stored[b].chunks = Chunks
    /\ \A h \in Handlers : step[h] = "marking" /\ op[h].backup \notin wiped =>
            stored[op[h].backup].chunks = Chunks

LEMMA InitFiles == Init => Files
BY DEF Init, Files, Empty

\* Files that only grow, with a manifest before the first chunk and a marker
\* for what is whole.
LEMMA FilesGrow ==
    ASSUME Typed, Files, NEW b \in Backups, wiped' = wiped,
           stored' \in [Backups -> Dir],
           \A c \in Backups \ {b} : stored'[c] = stored[c],
           stored[b].chunks \subseteq stored'[b].chunks,
           stored[b].manifest => stored'[b].manifest,
           0 \in stored'[b].chunks => 0 \in stored[b].chunks \/ stored'[b].manifest,
           b \notin wiped /\ stored'[b].complete => stored[b].complete \/ stored'[b].chunks = Chunks,
           \A h \in Handlers : step'[h] = "marking" =>
                op'[h] = op[h] /\ (step[h] = "marking" \/ (op[h].backup = b /\ stored'[b].chunks = Chunks))
    PROVE  Files'
<1>1. stored[b].chunks = Chunks => stored'[b].chunks = Chunks
  BY DEF Dir
<1>2. \A c \in Backups : 0 \in stored'[c].chunks => stored'[c].manifest
  BY DEF Files
<1>3. \A c \in Backups \ wiped : stored'[c].complete => stored'[c].chunks = Chunks
  BY <1>1 DEF Files
<1>4. ASSUME NEW h \in Handlers, step'[h] = "marking", op'[h].backup \notin wiped
      PROVE  stored'[op'[h].backup].chunks = Chunks
  <2>1. CASE op[h].backup = b
    BY <1>1, <1>4, <2>1 DEF Files
  <2>2. CASE op[h].backup # b
    <3>1. step[h] = "marking" /\ op[h].backup \in Backups
      BY <1>4, <2>2, OpKinds DEF Typed, AtWork
    <3> QED BY <1>4, <2>2, <3>1 DEF Files
  <2> QED BY <2>1, <2>2
<1> QED BY <1>2, <1>3, <1>4 DEF Files

\* Directories that go away take nothing from what is promised: whoever was
\* writing them is counted out.
LEMMA FilesGo ==
    ASSUME Typed, Files, NEW h \in Handlers, step[h] = "deciding", NEW gone, Remove(gone), Finish(h)
    PROVE  Files'
<1>1. /\ step'[h] = "idle"
      /\ \A k \in Handlers \ {h} : step'[k] = step[k] /\ op'[k] = op[k]
  BY FinishTyped
<1>2. /\ \A b \in Backups : stored'[b] = IF b \in gone THEN Empty ELSE stored[b]
      /\ wiped' = wiped \union (gone \intersect BeingWritten)
  BY DEF Remove
<1>3. \A b \in Backups : 0 \in stored'[b].chunks => stored'[b].manifest
  BY <1>2 DEF Files, Empty
<1>4. \A b \in Backups \ wiped' : stored'[b].complete => stored'[b].chunks = Chunks
  BY <1>2 DEF Files, Empty
<1>5. ASSUME NEW k \in Handlers, step'[k] = "marking", op'[k].backup \notin wiped'
      PROVE  stored'[op'[k].backup].chunks = Chunks
  <2>1. k # h /\ step[k] = "marking" /\ op'[k] = op[k]
    BY <1>1, <1>5
  <2>2. op[k].backup \in Backups /\ op[k].backup \in BeingWritten
    BY <2>1, OpKinds DEF BeingWritten, Typed, AtWork
  <2>3. op[k].backup \notin gone /\ op[k].backup \notin wiped
    BY <1>2, <1>5, <2>1, <2>2
  <2> QED BY <1>2, <2>1, <2>2, <2>3 DEF Files
<1> QED BY <1>3, <1>4, <1>5 DEF Files

LEMMA NextFiles == Typed /\ Files /\ [Next]_vars => Files'
<1> SUFFICES ASSUME Typed, Files, [Next]_vars PROVE Files'
  OBVIOUS
<1> USE DEF serviceVars, storeVars, callVars, history
<1>0. /\ step \in [Handlers -> Steps] /\ stored \in [Backups -> Dir]
      /\ op \in [Handlers -> Op \union {NoOp}] /\ stored' \in [Backups -> Dir]
  BY NextTyped DEF Typed, TypeOK, Steps
<1>1. ASSUME UNCHANGED <<stored, wiped>>,
             \A h \in Handlers : step'[h] = "marking" => step[h] = "marking" /\ op'[h] = op[h]
      PROVE  Files'
  BY <1>1 DEF Files
<1>2. CASE \/ \E u \in Grantees, tier \in Tiers : GiveGrant(u, tier)
           \/ \E n \in 1 .. MaxRows : RevokeGrant(n)
           \/ Tick \/ UNCHANGED vars
  <2>1. UNCHANGED <<stored, wiped, step, op>>
    BY <1>2 DEF GiveGrant, RevokeGrant, Tick, vars
  <2> QED BY <1>1, <2>1
<1>3. ASSUME NEW h \in Handlers,
             (\E o \in Op : Begin(h, o)) \/ Fetch(h) \/ KeepList(h) \/ AcceptWrite(h)
      PROVE  Files'
  <2>1. UNCHANGED <<stored, wiped>>
    BY <1>3 DEF Begin, Fetch, KeepList, AcceptWrite
  <2>2. step'[h] # "marking" /\ \A k \in Handlers \ {h} : step'[k] = step[k] /\ op'[k] = op[k]
    BY <1>0, <1>3 DEF Begin, Fetch, KeepList, AcceptWrite
  <2> QED BY <1>1, <2>1, <2>2
<1>4. ASSUME NEW h \in Handlers, Finish(h)
      PROVE  step'[h] = "idle" /\ \A k \in Handlers \ {h} : step'[k] = step[k] /\ op'[k] = op[k]
  BY <1>4, FinishTyped
<1>5. ASSUME NEW h \in Handlers, FetchFails(h) \/ Reply(h) \/ RefuseWrite(h) PROVE Files'
  <2>1. UNCHANGED <<stored, wiped>> /\ Finish(h)
    BY <1>5 DEF FetchFails, Reply, RefuseWrite
  <2> QED BY <1>1, <1>4, <2>1
<1>6. ASSUME NEW h \in Handlers, step[h] \in {"writing", "marking"}
      PROVE  op[h].backup \in Backups /\ op[h].index \in Chunks /\ stored[op[h].backup] \in Dir
  BY <1>0, <1>6, OpKinds DEF Typed, AtWork
<1>7. ASSUME NEW h \in Handlers, WriteFiles(h) PROVE Files'
  <2>1. step[h] = "writing" /\ wiped' = wiped
    BY <1>7 DEF WriteFiles, Finish
  <2>2. /\ stored'[op[h].backup] = Written(stored[op[h].backup], op[h].index)
        /\ \A c \in Backups \ {op[h].backup} : stored'[c] = stored[c]
    BY <1>0, <1>6, <1>7, <2>1 DEF WriteFiles
  <2>3. /\ stored'[op[h].backup].chunks = stored[op[h].backup].chunks \union {op[h].index}
        /\ stored[op[h].backup].manifest \/ op[h].index = 0 => stored'[op[h].backup].manifest
        /\ stored'[op[h].backup].complete => stored[op[h].backup].complete
    BY <1>6, <2>1, <2>2 DEF Written, Dir
  <2>4. \A k \in Handlers : step'[k] = "marking" =>
            /\ op'[k] = op[k]
            /\ step[k] = "marking" \/ (op[k].backup = op[h].backup /\ stored'[op[h].backup].chunks = Chunks)
    <3>1. CASE Whole(Written(stored[op[h].backup], op[h].index))
      BY <1>0, <1>7, <2>2, <3>1 DEF WriteFiles, Whole
    <3>2. CASE ~Whole(Written(stored[op[h].backup], op[h].index))
      <4>1. Finish(h)
        BY <1>7, <3>2 DEF WriteFiles
      <4> QED BY <1>4, <4>1
    <3> QED BY <3>1, <3>2
  <2> QED BY <1>0, <1>6, <2>1, <2>2, <2>3, <2>4, FilesGrow
<1>8. ASSUME NEW h \in Handlers, Mark(h) PROVE Files'
  <2>1. step[h] = "marking" /\ wiped' = wiped /\ Finish(h)
    BY <1>8 DEF Mark
  <2>2. /\ \/ stored'[op[h].backup] = stored[op[h].backup]
           \/ stored'[op[h].backup] = [stored[op[h].backup] EXCEPT !.complete = TRUE]
        /\ \A c \in Backups \ {op[h].backup} : stored'[c] = stored[c]
    BY <1>0, <1>6, <1>8, <2>1 DEF Mark
  <2>3. /\ stored'[op[h].backup].chunks = stored[op[h].backup].chunks
        /\ stored'[op[h].backup].manifest = stored[op[h].backup].manifest
    BY <1>6, <2>1, <2>2 DEF Dir
  <2>4. op[h].backup \notin wiped => stored'[op[h].backup].chunks = Chunks
    BY <2>1, <2>3 DEF Files
  <2>5. \A k \in Handlers : step'[k] = "marking" => op'[k] = op[k] /\ step[k] = "marking"
    BY <1>4, <2>1
  <2> QED BY <1>0, <1>6, <2>1, <2>2, <2>3, <2>4, <2>5, FilesGrow
<1>9. ASSUME NEW h \in Handlers, WriteCutShort(h) PROVE Files'
  <2>1. step[h] = "writing" /\ wiped' = wiped /\ Finish(h)
    BY <1>9 DEF WriteCutShort
  <2>2. PICK chunkToo \in BOOLEAN :
            stored' = [stored EXCEPT ![op[h].backup] =
                CutShort(stored[op[h].backup], op[h].index, chunkToo)]
    BY <1>9 DEF WriteCutShort
  <2>3. /\ stored'[op[h].backup] = CutShort(stored[op[h].backup], op[h].index, chunkToo)
        /\ \A c \in Backups \ {op[h].backup} : stored'[c] = stored[c]
    BY <1>0, <1>6, <2>1, <2>2
  <2>4. /\ stored[op[h].backup].chunks \subseteq stored'[op[h].backup].chunks
        /\ stored'[op[h].backup].chunks \subseteq stored[op[h].backup].chunks \union {op[h].index}
        /\ stored[op[h].backup].manifest \/ op[h].index = 0 => stored'[op[h].backup].manifest
        /\ stored'[op[h].backup].complete => stored[op[h].backup].complete
    <3> DEFINE before == stored[op[h].backup]
               after == stored'[op[h].backup]
    <3>1. before \in Dir /\ after = CutShort(before, op[h].index, chunkToo)
      BY <1>6, <2>1, <2>3
    <3>2. /\ after.manifest = (before.manifest \/ op[h].index = 0)
          /\ after.chunks = IF chunkToo THEN before.chunks \union {op[h].index} ELSE before.chunks
          /\ after.complete = before.complete
      <4> HIDE DEF before, after
      <4> QED BY <3>1 DEF CutShort, Dir
    <3> QED BY <3>2
  <2>5. \A k \in Handlers : step'[k] = "marking" => op'[k] = op[k] /\ step[k] = "marking"
    BY <1>4, <2>1
  <2> QED BY <1>0, <1>6, <2>1, <2>3, <2>4, <2>5, FilesGrow
<1>10. ASSUME NEW h \in Handlers, Delete(h) \/ Purge(h) PROVE Files'
  <2>1. PICK gone : Remove(gone) /\ Finish(h)
    <3>1. CASE Delete(h)
      BY <3>1 DEF Delete
    <3>2. CASE Purge(h)
      BY <3>2 DEF Purge
    <3> QED BY <1>10, <3>1, <3>2
  <2>2. step[h] = "deciding"
    BY <1>10 DEF Delete, Purge, Deciding
  <2> QED BY <2>1, <2>2, FilesGo
<1>11. CASE Restart
  <2>1. UNCHANGED <<stored, wiped>> /\ \A h \in Handlers : step'[h] = "idle"
    BY <1>11 DEF Restart
  <2> QED BY <1>1, <2>1
<1> QED BY <1>2, <1>3, <1>5, <1>7, <1>8, <1>9, <1>10, <1>11 DEF Next

\* A backup with the marker has its manifest and every chunk, whatever chunks
\* were written twice, late, cut short or after a removal, unless its directory
\* was removed under a write already accepted.
THEOREM MarkedIsWhole == Spec => []CompleteIsWhole
<1>1. Files => CompleteIsWhole
  BY ConstantsFit DEF Files, CompleteIsWhole
<1> QED BY <1>1, InitTyped, NextTyped, InitFiles, NextFiles, PTL DEF Spec

----------------------------------------------------------------------------
(* A grant list is an older version of the service's rows *)

Older(rows) ==
    \A n \in DOMAIN rows :
        /\ n \in DOMAIN grants
        /\ rows[n].who = grants[n].who
        /\ rows[n].revokedAt # Active => grants[n].revokedAt = rows[n].revokedAt

ListsAreOlder ==
    /\ cached # NoList => Older(cached)
    /\ \A h \in Handlers : step[h] \in {"fetched", "deciding"} => Older(list[h])

\* What the service's transactions do to the rows.
LEMMA RowsGrow ==
    ASSUME Typed, [Next]_vars
    PROVE  /\ DOMAIN grants \subseteq DOMAIN grants'
           /\ \A n \in DOMAIN grants :
                /\ grants'[n].who = grants[n].who
                /\ grants[n].revokedAt # Active => grants'[n].revokedAt = grants[n].revokedAt
                /\ grants'[n].revokedAt # grants[n].revokedAt => grants'[n].revokedAt = now
<1> USE DEF serviceVars, storeVars, callVars, history
<1>0. grants \in Seq(Grant)
  BY DEF Typed, TypeOK
<1>1. ASSUME NEW u \in Grantees, NEW tier \in Tiers, GiveGrant(u, tier)
      PROVE  DOMAIN grants \subseteq DOMAIN grants' /\ \A n \in DOMAIN grants : grants'[n] = grants[n]
  <2>1. [who |-> u, tier |-> tier, revokedAt |-> Active] \in Grant
    BY DEF Grant
  <2> QED BY <1>0, <1>1, <2>1 DEF GiveGrant
<1>2. ASSUME NEW m \in 1 .. MaxRows, RevokeGrant(m)
      PROVE  /\ DOMAIN grants' = DOMAIN grants
             /\ \A n \in DOMAIN grants :
                  /\ grants'[n].who = grants[n].who
                  /\ n # m => grants'[n] = grants[n]
             /\ grants[m].revokedAt = Active /\ grants'[m].revokedAt = now
  <2>1. \A n \in DOMAIN grants : grants[n] \in Grant
    BY <1>0
  <2> QED BY <1>0, <1>2, <2>1 DEF RevokeGrant, Grant
<1>3. CASE Tick \/ Restart \/ UNCHANGED vars
  BY <1>3 DEF Tick, Restart, vars
<1>4. ASSUME NEW h \in Handlers,
             \/ (\E o \in Op : Begin(h, o)) \/ Fetch(h) \/ FetchFails(h) \/ KeepList(h)
             \/ Reply(h) \/ RefuseWrite(h) \/ AcceptWrite(h) \/ WriteFiles(h)
             \/ Mark(h) \/ WriteCutShort(h) \/ Delete(h) \/ Purge(h)
      PROVE  grants' = grants
  BY <1>4 DEF Begin, Fetch, FetchFails, KeepList, Reply, RefuseWrite, AcceptWrite, WriteFiles,
              Mark, WriteCutShort, Delete, Purge
<1> QED BY <1>1, <1>2, <1>3, <1>4 DEF Next

\* Where the lists come from, and when: each is one the daemon already had, or
\* the rows as they are.
CacheMoves ==
    \/ cached' = cached /\ cachedAt' = cachedAt
    \/ cached' = NoList
    \/ /\ \E h \in Handlers : step[h] = "fetched" /\ cached' = list[h]
       /\ cachedAt' = now /\ UNCHANGED <<now, grants>>

CallMoves(h) ==
    \/ step'[h] = step[h] /\ list'[h] = list[h] /\ since'[h] = since[h]
    \/ step'[h] \in {"idle", "writing", "marking"}
    \/ /\ UNCHANGED <<now, grants>>
       /\ \/ step'[h] = "fetching" /\ since'[h] = now
          \/ step[h] = "fetching" /\ step'[h] = "fetched" /\ list'[h] = grants /\ since'[h] = since[h]
          \/ step[h] = "fetched" /\ step'[h] = "deciding" /\ list'[h] = list[h]
          \/ step'[h] = "deciding" /\ list'[h] = cached /\ Fresh

LEMMA ListsMove ==
    ASSUME Typed, [Next]_vars
    PROVE  CacheMoves /\ \A h \in Handlers : CallMoves(h)
<1> USE DEF serviceVars, storeVars, callVars, history
<1>0. /\ step \in [Handlers -> Steps] /\ list \in [Handlers -> Seq(Grant) \union {NoList}]
      /\ since \in [Handlers -> Nat]
  BY DEF Typed, TypeOK, Steps
<1>1. CASE \/ \E u \in Grantees, tier \in Tiers : GiveGrant(u, tier)
           \/ \E n \in 1 .. MaxRows : RevokeGrant(n)
           \/ Tick \/ UNCHANGED vars
  <2>1. UNCHANGED <<cached, cachedAt, step, list, since>>
    BY <1>1 DEF GiveGrant, RevokeGrant, Tick, vars
  <2> QED BY <2>1 DEF CacheMoves, CallMoves
<1>2. CASE Restart
  BY <1>2 DEF Restart, CacheMoves, CallMoves
<1>3. ASSUME NEW h \in Handlers,
             UNCHANGED <<cached, cachedAt>> \/ CacheMoves, CallMoves(h),
             \A k \in Handlers \ {h} : step'[k] = step[k] /\ list'[k] = list[k] /\ since'[k] = since[k]
      PROVE  CacheMoves /\ \A k \in Handlers : CallMoves(k)
  BY <1>3 DEF CacheMoves, CallMoves
<1>4. ASSUME NEW h \in Handlers, NEW o \in Op, Begin(h, o)
      PROVE  CacheMoves /\ \A k \in Handlers : CallMoves(k)
  <2>1. UNCHANGED <<cached, cachedAt>> /\ CallMoves(h)
    BY <1>0, <1>4 DEF Begin, CallMoves
  <2>2. \A k \in Handlers \ {h} : step'[k] = step[k] /\ list'[k] = list[k] /\ since'[k] = since[k]
    BY <1>0, <1>4 DEF Begin
  <2> QED BY <1>3, <2>1, <2>2
<1>5. ASSUME NEW h \in Handlers, Fetch(h) \/ AcceptWrite(h) \/ KeepList(h)
      PROVE  CacheMoves /\ \A k \in Handlers : CallMoves(k)
  <2>1. UNCHANGED <<cached, cachedAt>> \/ CacheMoves
    BY <1>0, <1>5 DEF Fetch, AcceptWrite, KeepList, CacheMoves
  <2>2. CallMoves(h)
    BY <1>0, <1>5 DEF Fetch, AcceptWrite, KeepList, CallMoves
  <2>3. \A k \in Handlers \ {h} : step'[k] = step[k] /\ list'[k] = list[k] /\ since'[k] = since[k]
    BY <1>0, <1>5 DEF Fetch, AcceptWrite, KeepList
  <2> QED BY <1>3, <2>1, <2>2, <2>3
<1>6. ASSUME NEW h \in Handlers, WriteFiles(h), ~Finish(h)
      PROVE  CacheMoves /\ \A k \in Handlers : CallMoves(k)
  <2>1. UNCHANGED <<cached, cachedAt, list, since>> /\ step'[h] = "marking"
        /\ \A k \in Handlers \ {h} : step'[k] = step[k]
    BY <1>0, <1>6 DEF WriteFiles
  <2> QED BY <1>3, <2>1 DEF CallMoves
<1>7. ASSUME NEW h \in Handlers,
             FetchFails(h) \/ Reply(h) \/ RefuseWrite(h) \/ (WriteFiles(h) /\ Finish(h))
             \/ Mark(h) \/ WriteCutShort(h) \/ Delete(h) \/ Purge(h)
      PROVE  CacheMoves /\ \A k \in Handlers : CallMoves(k)
  <2>1. Finish(h) /\ UNCHANGED <<cached, cachedAt>>
    BY <1>7 DEF FetchFails, Reply, RefuseWrite, WriteFiles, Mark, WriteCutShort, Delete, Purge
  <2>2. /\ step'[h] = "idle"
        /\ \A k \in Handlers \ {h} : step'[k] = step[k] /\ list'[k] = list[k] /\ since'[k] = since[k]
    BY <2>1, FinishTyped
  <2> QED BY <1>3, <2>1, <2>2 DEF CallMoves
<1> QED BY <1>1, <1>2, <1>4, <1>5, <1>6, <1>7 DEF Next

LEMMA OlderKept ==
    ASSUME Typed, [Next]_vars, NEW rows, Older(rows)
    PROVE  \A n \in DOMAIN rows :
                /\ n \in DOMAIN grants'
                /\ rows[n].who = grants'[n].who
                /\ rows[n].revokedAt # Active => grants'[n].revokedAt = rows[n].revokedAt
BY RowsGrow DEF Older

LEMMA NextOlder == Typed /\ ListsAreOlder /\ [Next]_vars => ListsAreOlder'
<1> SUFFICES ASSUME Typed, ListsAreOlder, [Next]_vars PROVE ListsAreOlder'
  OBVIOUS
<1> DEFINE OlderNow(rows) ==
        \A n \in DOMAIN rows :
            /\ n \in DOMAIN grants'
            /\ rows[n].who = grants'[n].who
            /\ rows[n].revokedAt # Active => grants'[n].revokedAt = rows[n].revokedAt
<1>1. \A rows : Older(rows) => OlderNow(rows)
  BY OlderKept
<1>2. Older(grants)
  BY DEF Older
<1> HIDE DEF OlderNow
<1>3. cached' # NoList => OlderNow(cached')
  BY <1>1, ListsMove DEF ListsAreOlder, CacheMoves
<1>4. ASSUME NEW h \in Handlers, step'[h] \in {"fetched", "deciding"} PROVE OlderNow(list'[h])
  BY <1>1, <1>2, <1>4, ListsMove DEF ListsAreOlder, CallMoves, Fresh
<1> QED BY <1>3, <1>4 DEF ListsAreOlder, Older, OlderNow

\* Only the purge of an expired grantee or a delete by the owner empties a
\* directory: writes add to it.
LEMMA OnlyRemovalsEmpty ==
    ASSUME Typed, [Next]_vars, NEW b \in Backups, stored[b] # Empty, stored'[b] = Empty
    PROVE  \E h \in Handlers :
              \/ Deciding(h, "delete") /\ op[h].backup = b /\ step'[h] = "idle"
              \/ Purge(h) /\ OwnerOf[b] \in Expired(list[h])
<1> USE DEF serviceVars, storeVars, callVars, history
<1>0. stored \in [Backups -> Dir] /\ stored[b] \in Dir /\ step \in [Handlers -> Steps]
  BY DEF Typed, TypeOK, Steps
<1>1. CASE \/ \E u \in Grantees, tier \in Tiers : GiveGrant(u, tier)
           \/ \E n \in 1 .. MaxRows : RevokeGrant(n)
           \/ Tick \/ Restart \/ UNCHANGED vars
  <2>1. stored' = stored
    BY <1>1 DEF GiveGrant, RevokeGrant, Tick, Restart, vars
  <2> QED BY <2>1
<1>2. ASSUME NEW h \in Handlers,
             (\E o \in Op : Begin(h, o)) \/ Fetch(h) \/ FetchFails(h) \/ KeepList(h)
             \/ Reply(h) \/ RefuseWrite(h) \/ AcceptWrite(h)
      PROVE  stored' = stored
  BY <1>2 DEF Begin, Fetch, FetchFails, KeepList, Reply, RefuseWrite, AcceptWrite
<1>3. ASSUME NEW h \in Handlers, WriteFiles(h) \/ Mark(h) \/ WriteCutShort(h) PROVE FALSE
  <2>1. op[h].backup \in Backups /\ op[h].index \in Chunks
    BY <1>3, OpKinds DEF WriteFiles, Mark, WriteCutShort, Typed, AtWork
  <2>2. CASE op[h].backup # b
    <3>1. stored'[b] = stored[b]
      BY <1>0, <1>3, <2>1, <2>2 DEF WriteFiles, Mark, WriteCutShort
    <3> QED BY <3>1
  <2>3. CASE op[h].backup = b
    <3>1. ASSUME WriteFiles(h) PROVE FALSE
      <4>1. stored'[b] = Written(stored[b], op[h].index)
        BY <1>0, <2>3, <3>1 DEF WriteFiles
      <4>2. op[h].index \in stored'[b].chunks
        BY <1>0, <4>1 DEF Written, Dir
      <4> QED BY <4>2 DEF Empty
    <3>2. ASSUME Mark(h) PROVE FALSE
      <4>1. stored'[b] = [stored[b] EXCEPT !.complete = TRUE]
        <5>1. stored' # stored
          OBVIOUS
        <5>2. stored' = [stored EXCEPT ![op[h].backup].complete = TRUE]
          BY <3>2, <5>1 DEF Mark
        <5> QED BY <1>0, <2>3, <5>2
      <4>2. stored'[b].complete
        BY <1>0, <4>1 DEF Dir
      <4> QED BY <4>2 DEF Empty
    <3>3. ASSUME WriteCutShort(h) PROVE FALSE
      <4>1. PICK chunkToo \in BOOLEAN :
              stored' = [stored EXCEPT ![op[h].backup] =
                  CutShort(stored[op[h].backup], op[h].index, chunkToo)]
        BY <3>3 DEF WriteCutShort
      <4>2. stored'[b] = CutShort(stored[b], op[h].index, chunkToo)
        BY <1>0, <2>3, <4>1
      <4>3. /\ stored[b].manifest => stored'[b].manifest
            /\ stored[b].chunks \subseteq stored'[b].chunks
            /\ stored'[b].complete = stored[b].complete
        BY <1>0, <4>2 DEF CutShort, Dir
      <4>4. stored[b].manifest = FALSE /\ stored[b].chunks = {} /\ stored[b].complete = FALSE
        <5>1. Empty.manifest = FALSE /\ Empty.chunks = {} /\ Empty.complete = FALSE
          BY DEF Empty
        <5>2. stored[b].manifest \in BOOLEAN /\ stored[b].complete \in BOOLEAN
          BY <1>0 DEF Dir
        <5> QED BY <4>3, <5>1, <5>2
      <4> QED BY <1>0, <4>4 DEF Empty, Dir
    <3> QED BY <1>3, <3>1, <3>2, <3>3
  <2> QED BY <2>2, <2>3
<1>4. ASSUME NEW h \in Handlers, Delete(h)
      PROVE  Deciding(h, "delete") /\ op[h].backup = b /\ step'[h] = "idle"
  <2>1. Finish(h) /\ Deciding(h, "delete")
    BY <1>4 DEF Delete
  <2>2. op[h].backup = b
    BY <1>0, <1>4 DEF Delete, Remove
  <2> QED BY <2>1, <2>2, FinishTyped
<1>5. ASSUME NEW h \in Handlers, Purge(h) PROVE OwnerOf[b] \in Expired(list[h])
  BY <1>0, <1>5 DEF Purge, Remove
<1> QED BY <1>1, <1>2, <1>3, <1>4, <1>5 DEF Next

\* Nothing of a person's goes other than by their own delete before some grant
\* of theirs is revoked and its grace over, however old the list is that the
\* daemon purges from.  (A later grant of theirs does not protect it: run
\* peer_regrant.)
THEOREM PurgesNeedAnExpiredGrant == Spec => PurgedOnlyAfterGrace
<1>1. Init => ListsAreOlder
  BY DEF Init, ListsAreOlder
<1>2. Typed /\ ListsAreOlder /\ [Next]_vars =>
        [\A b \in Backups : Purged(b) =>
            \E n \in DOMAIN grants : grants[n].who = OwnerOf[b] /\ GraceOver(grants[n])]_vars
  <2> SUFFICES ASSUME Typed, ListsAreOlder, [Next]_vars, NEW b \in Backups, Purged(b)
               PROVE  \E n \in DOMAIN grants : grants[n].who = OwnerOf[b] /\ GraceOver(grants[n])
    OBVIOUS
  <2>1. PICK h \in Handlers : Purge(h) /\ OwnerOf[b] \in Expired(list[h])
    BY OnlyRemovalsEmpty DEF Purged
  <2>2. PICK m \in DOMAIN list[h] : list[h][m].who = OwnerOf[b] /\ GraceOver(list[h][m])
    BY <2>1 DEF Expired
  <2>3. Older(list[h])
    BY <2>1 DEF Purge, Deciding, ListsAreOlder
  <2>4. m \in DOMAIN grants /\ grants[m].who = OwnerOf[b] /\ GraceOver(grants[m])
    BY <2>2, <2>3 DEF Older, GraceOver
  <2> QED BY <2>4
<1> QED BY <1>1, <1>2, InitTyped, NextTyped, NextOlder, PTL DEF Spec, PurgedOnlyAfterGrace

----------------------------------------------------------------------------
(* And not much older *)

\* A row the list shows as active, revoked since.
Missed(rows, n) ==
    n \in DOMAIN rows /\ rows[n].revokedAt = Active /\ grants[n].revokedAt # Active

\* The same of the rows after a step.
MissedNext(rows, n) ==
    n \in DOMAIN rows /\ rows[n].revokedAt = Active /\ grants'[n].revokedAt # Active

\* No fetch takes longer than its timeout.
Clocks ==
    /\ cachedAt <= now
    /\ \A h \in Handlers : step[h] \in {"fetching", "fetched"} =>
            since[h] <= now /\ now <= since[h] + FetchTime

ListsAreRecent ==
    /\ cached # NoList =>
            \A n \in DOMAIN cached : Missed(cached, n) => cachedAt <= grants[n].revokedAt + FetchTime
    /\ \A h \in Handlers : step[h] = "fetched" =>
            \A n \in DOMAIN list[h] : Missed(list[h], n) => since[h] <= grants[n].revokedAt
    /\ \A h \in Handlers : step[h] = "deciding" =>
            \A n \in DOMAIN list[h] : Missed(list[h], n) => now <= grants[n].revokedAt + MaxAge + FetchTime

LEMMA StepTime ==
    ASSUME Typed, [Next]_vars
    PROVE  \/ now' = now
           \/ Tick
<1> USE DEF serviceVars, storeVars, callVars, history
<1>1. ASSUME NEW h \in Handlers,
             \/ (\E o \in Op : Begin(h, o)) \/ Fetch(h) \/ FetchFails(h) \/ KeepList(h)
             \/ Reply(h) \/ RefuseWrite(h) \/ AcceptWrite(h) \/ WriteFiles(h)
             \/ Mark(h) \/ WriteCutShort(h) \/ Delete(h) \/ Purge(h)
      PROVE  now' = now
  BY <1>1 DEF Begin, Fetch, FetchFails, KeepList, Reply, RefuseWrite, AcceptWrite, WriteFiles,
              Mark, WriteCutShort, Delete, Purge
<1>2. CASE \/ \E u \in Grantees, tier \in Tiers : GiveGrant(u, tier)
           \/ \E n \in 1 .. MaxRows : RevokeGrant(n)
           \/ Restart \/ UNCHANGED vars
  BY <1>2 DEF GiveGrant, RevokeGrant, Restart, vars
<1> QED BY <1>1, <1>2 DEF Next

LEMMA NextClocks ==
    ASSUME Typed, Clocks, [Next]_vars
    PROVE  Clocks'
<1> USE DEF serviceVars, storeVars, callVars, history
<1>0. now \in Nat /\ cachedAt \in Nat /\ since \in [Handlers -> Nat] /\ FetchTime \in Nat
  BY PeerAssumption DEF Typed, TypeOK
<1>1. CASE Tick
  BY <1>0, <1>1 DEF Tick, Clocks
<1>2. CASE now' = now
  <2>1. cachedAt' <= now'
    <3>1. CASE Restart
      BY <1>0, <3>1 DEF Restart
    <3>2. CASE ~Restart
      <4>1. cachedAt' = cachedAt \/ cachedAt' = now
        BY <3>2 DEF Next, GiveGrant, RevokeGrant, Tick, Begin, Fetch, FetchFails, KeepList, Reply,
                    RefuseWrite, AcceptWrite, WriteFiles, Mark, WriteCutShort, Delete, Purge, vars
      <4> QED BY <1>0, <1>2, <4>1 DEF Clocks
    <3> QED BY <3>1, <3>2
  <2>2. ASSUME NEW h \in Handlers, step'[h] \in {"fetching", "fetched"}
        PROVE  since'[h] <= now' /\ now' <= since'[h] + FetchTime
    BY <1>0, <1>2, <2>2, ListsMove DEF CallMoves, Clocks
  <2> QED BY <2>1, <2>2 DEF Clocks
<1> QED BY <1>1, <1>2, StepTime

LEMMA NextRecent ==
    ASSUME Typed, Clocks, ListsAreOlder, ListsAreRecent, [Next]_vars
    PROVE  ListsAreRecent'
<1>0. /\ now \in Nat /\ cachedAt \in Nat /\ since \in [Handlers -> Nat]
      /\ FetchTime \in Nat /\ MaxAge \in Nat /\ grants \in Seq(Grant)
  BY PeerAssumption DEF Typed, TypeOK
\* A row missed after the step was missed before it, or is revoked now.
<1>1. ASSUME NEW rows, Older(rows), NEW n \in DOMAIN rows, MissedNext(rows, n)
      PROVE  /\ n \in DOMAIN grants
             /\ \/ Missed(rows, n) /\ grants'[n].revokedAt = grants[n].revokedAt
                   /\ grants[n].revokedAt \in Nat
                \/ grants'[n].revokedAt = now
  <2>1. n \in DOMAIN grants /\ grants'[n].revokedAt # Active /\ rows[n].revokedAt = Active
    BY <1>1 DEF Older, MissedNext
  <2>2. grants[n].revokedAt \in Nat \union {Active}
    <3>1. grants[n] \in Grant
      BY <1>0, <2>1
    <3> QED BY <3>1 DEF Grant
  <2> QED BY <2>1, <2>2, RowsGrow DEF Missed
<1>2. ASSUME cached' # NoList, NEW n \in DOMAIN cached', MissedNext(cached', n)
      PROVE  cachedAt' <= grants'[n].revokedAt + FetchTime
  <2>1. CASE cached' = cached /\ cachedAt' = cachedAt
    <3>1. Older(cached) /\ n \in DOMAIN cached /\ MissedNext(cached, n)
      BY <1>2, <2>1 DEF ListsAreOlder, Missed, MissedNext
    <3> QED BY <1>0, <1>1, <1>2, <2>1, <3>1 DEF ListsAreRecent, Clocks
  <2>2. ASSUME NEW h \in Handlers, step[h] = "fetched", cached' = list[h],
               cachedAt' = now, UNCHANGED <<now, grants>>
        PROVE  cachedAt' <= grants'[n].revokedAt + FetchTime
    <3>1. Older(list[h]) /\ n \in DOMAIN list[h] /\ MissedNext(list[h], n) /\ Missed(list[h], n)
      BY <1>2, <2>2 DEF ListsAreOlder, Missed, MissedNext
    <3>2. since[h] <= grants[n].revokedAt /\ now <= since[h] + FetchTime
      BY <2>2, <3>1 DEF ListsAreRecent, Clocks
    <3> QED BY <1>0, <1>1, <2>2, <3>1, <3>2
  <2> QED BY <1>2, <2>1, <2>2, ListsMove DEF CacheMoves
<1>3. ASSUME NEW h \in Handlers, step'[h] = "fetched", NEW n \in DOMAIN list'[h], MissedNext(list'[h], n)
      PROVE  since'[h] <= grants'[n].revokedAt
  <2>1. CASE step'[h] = step[h] /\ list'[h] = list[h] /\ since'[h] = since[h]
    <3>1. Older(list[h]) /\ n \in DOMAIN list[h] /\ MissedNext(list[h], n)
      BY <1>3, <2>1 DEF ListsAreOlder, Missed, MissedNext
    <3> QED BY <1>0, <1>1, <1>3, <2>1, <3>1 DEF ListsAreRecent, Clocks
  <2>2. CASE list'[h] = grants /\ UNCHANGED grants
    BY <1>3, <2>2 DEF MissedNext
  <2> QED BY <1>3, <2>1, <2>2, ListsMove DEF CallMoves
<1>4. ASSUME NEW h \in Handlers, step'[h] = "deciding", NEW n \in DOMAIN list'[h], MissedNext(list'[h], n)
      PROVE  now' <= grants'[n].revokedAt + MaxAge + FetchTime
  <2>1. CASE step'[h] = step[h] /\ list'[h] = list[h]
    <3>1. Older(list[h]) /\ n \in DOMAIN list[h] /\ MissedNext(list[h], n)
      BY <1>4, <2>1 DEF ListsAreOlder, Missed, MissedNext
    <3>2. now' = now
      BY <1>4, <2>1, StepTime DEF Tick
    <3> QED BY <1>0, <1>1, <1>4, <2>1, <3>1, <3>2 DEF ListsAreRecent
  <2>2. CASE step[h] = "fetched" /\ list'[h] = list[h] /\ UNCHANGED <<now, grants>>
    <3>1. Older(list[h]) /\ n \in DOMAIN list[h] /\ MissedNext(list[h], n) /\ Missed(list[h], n)
      BY <1>4, <2>2 DEF ListsAreOlder, Missed, MissedNext
    <3>2. since[h] <= grants[n].revokedAt /\ now <= since[h] + FetchTime
      BY <2>2, <3>1 DEF ListsAreRecent, Clocks
    <3> QED BY <1>0, <1>1, <2>2, <3>1, <3>2
  <2>3. CASE list'[h] = cached /\ Fresh /\ UNCHANGED <<now, grants>>
    <3>1. Older(cached) /\ n \in DOMAIN cached /\ MissedNext(cached, n) /\ Missed(cached, n)
      BY <1>4, <2>3 DEF ListsAreOlder, Missed, MissedNext, Fresh
    <3>2. cachedAt <= grants[n].revokedAt + FetchTime /\ now - cachedAt < MaxAge
      BY <2>3, <3>1 DEF ListsAreRecent, Fresh
    <3> QED BY <1>0, <1>1, <2>3, <3>1, <3>2
  <2> QED BY <1>4, <2>1, <2>2, <2>3, ListsMove DEF CallMoves
<1> QED BY <1>2, <1>3, <1>4 DEF ListsAreRecent, Missed, MissedNext

\* What an allowed write has seen: a grant of its owner the list shows as active.
LEMMA AllowedSawGrant ==
    ASSUME NEW h \in Handlers, MayWrite(h), list[h] \in Seq(Grant)
    PROVE  \E n \in DOMAIN list[h] :
                list[h][n].who = OwnerOf[op[h].backup] /\ list[h][n].revokedAt = Active
<1> DEFINE own == {n \in DOMAIN list[h] : list[h][n].who = OwnerOf[op[h].backup]}
           g == FindGrant(list[h], OwnerOf[op[h].backup])
<1>1. g # NoList /\ g.revokedAt = Active
  <2>1. WriteVerdict(list[h], op[h].backup) # "deny"
    BY DEF MayWrite
  <2> QED BY <2>1 DEF WriteVerdict
<1>2. own # {} /\ g = list[h][Min(own)]
  BY <1>1 DEF FindGrant
<1>3. Min(own) \in own
  <2>1. own \subseteq Nat
    OBVIOUS
  <2>2. PICK x \in own : \A y \in own : x <= y
    BY <1>2, <2>1, LeastNat
  <2> QED BY <2>2 DEF Min
<1> QED BY <1>1, <1>2, <1>3

\* No other step starts writing.
LEMMA OnlyAcceptsWrite ==
    ASSUME Typed, [Next]_vars, NEW h \in Handlers, step[h] = "deciding", step'[h] = "writing"
    PROVE  MayWrite(h)
<1> USE DEF serviceVars, storeVars, callVars, history
<1>0. step \in [Handlers -> Steps]
  BY DEF Typed, TypeOK, Steps
<1>1. CASE \/ \E u \in Grantees, tier \in Tiers : GiveGrant(u, tier)
           \/ \E n \in 1 .. MaxRows : RevokeGrant(n)
           \/ Tick \/ UNCHANGED vars
  <2>1. step' = step
    BY <1>1 DEF GiveGrant, RevokeGrant, Tick, vars
  <2> QED BY <2>1
<1>2. CASE Restart
  BY <1>2 DEF Restart
<1>3. ASSUME NEW k \in Handlers, (\E o \in Op : Begin(k, o)) \/ Fetch(k) \/ KeepList(k)
      PROVE  FALSE
  BY <1>0, <1>3 DEF Begin, Fetch, KeepList
<1>4. ASSUME NEW k \in Handlers, AcceptWrite(k) PROVE MayWrite(h)
  <2>1. k = h
    BY <1>0, <1>4 DEF AcceptWrite
  <2> QED BY <1>4, <2>1 DEF AcceptWrite
<1>5. ASSUME NEW k \in Handlers, WriteFiles(k), ~Finish(k) PROVE FALSE
  BY <1>0, <1>5 DEF WriteFiles
<1>6. ASSUME NEW k \in Handlers,
             FetchFails(k) \/ Reply(k) \/ RefuseWrite(k) \/ (WriteFiles(k) /\ Finish(k))
             \/ Mark(k) \/ WriteCutShort(k) \/ Delete(k) \/ Purge(k)
      PROVE  FALSE
  <2>1. Finish(k)
    BY <1>6 DEF FetchFails, Reply, RefuseWrite, WriteFiles, Mark, WriteCutShort, Delete, Purge
  <2> QED BY <2>1, FinishTyped
<1> QED BY <1>1, <1>2, <1>3, <1>4, <1>5, <1>6 DEF Next

\* A write is accepted at most grantsMaxAge plus the timeout of one fetch after
\* the revocation of the grant it rests on, also if no refresh ever arrives and
\* whichever of two fetches under way ends last.
THEOREM RevocationTakesHold == Spec => StalenessBounded
<1>1. Init => Clocks /\ ListsAreOlder /\ ListsAreRecent
  BY DEF Init, Clocks, ListsAreOlder, ListsAreRecent
<1>2. Typed /\ Clocks /\ ListsAreOlder /\ ListsAreRecent /\ [Next]_vars => Clocks' /\ ListsAreRecent'
  BY NextClocks, NextRecent
<1>3. Typed /\ ListsAreOlder /\ ListsAreRecent /\ [Next]_vars =>
        [\A h \in Handlers : Accepts(h) =>
            \E n \in DOMAIN grants :
                /\ grants[n].who = OwnerOf[op[h].backup]
                /\ grants[n].revokedAt # Active => now - grants[n].revokedAt <= MaxAge + FetchTime]_vars
  <2> SUFFICES ASSUME Typed, ListsAreOlder, ListsAreRecent, [Next]_vars, NEW h \in Handlers, Accepts(h)
               PROVE  \E n \in DOMAIN grants :
                        /\ grants[n].who = OwnerOf[op[h].backup]
                        /\ grants[n].revokedAt # Active => now - grants[n].revokedAt <= MaxAge + FetchTime
    OBVIOUS
  <2>1. MayWrite(h) /\ list[h] \in Seq(Grant) /\ Older(list[h]) /\ step[h] = "deciding"
    <3>1. step[h] = "deciding" /\ step'[h] = "writing"
      BY DEF Accepts
    <3>2. MayWrite(h)
      BY <3>1, OnlyAcceptsWrite
    <3> QED BY <3>1, <3>2 DEF Typed, AtWork, ListsAreOlder
  <2>2. PICK n \in DOMAIN list[h] :
            list[h][n].who = OwnerOf[op[h].backup] /\ list[h][n].revokedAt = Active
    BY <2>1, AllowedSawGrant
  <2>3. n \in DOMAIN grants /\ grants[n].who = OwnerOf[op[h].backup]
    BY <2>1, <2>2 DEF Older
  <2>4. ASSUME grants[n].revokedAt # Active PROVE now - grants[n].revokedAt <= MaxAge + FetchTime
    <3>1. now <= grants[n].revokedAt + MaxAge + FetchTime
      BY <2>1, <2>2, <2>4 DEF ListsAreRecent, Missed
    <3>2. grants[n].revokedAt \in Nat /\ now \in Nat /\ MaxAge \in Nat /\ FetchTime \in Nat
      <4>1. grants[n] \in Grant
        BY <2>3 DEF Typed, TypeOK
      <4> QED BY <2>4, <4>1, PeerAssumption DEF Grant, Typed, TypeOK
    <3> QED BY <3>1, <3>2
  <2> QED BY <2>3, <2>4
<1> QED BY <1>1, <1>2, <1>3, InitTyped, NextTyped, NextOlder, PTL DEF Spec, StalenessBounded

----------------------------------------------------------------------------
(* Sums: what the recursion behind MapThenSumSet computes.  Each fact about *)
(* every finite set is proved from a smallest counterexample (LeastNat).    *)

Chosen(S) == CHOOSE x \in S : TRUE

\* f is the recursion of MapThenSumSet, tabulated for the subsets of S.
IsTally(f, S) ==
    f = [s \in SUBSET S |-> IF s = {} THEN 0 ELSE SizeOf[Chosen(s)] + f[s \ {Chosen(s)}]]

LEMMA TotalIsTally == ASSUME NEW S PROVE TotalBytes(S) = (CHOOSE f : IsTally(f, S))[S]
BY DEF TotalBytes, MapThenSumSet, MapThenFoldSet, IsTally, Chosen

LEMMA ChosenIn == ASSUME NEW S, S # {} PROVE Chosen(S) \in S
BY DEF Chosen

LEMMA TallyAt ==
    ASSUME NEW S, NEW f, IsTally(f, S), NEW T \in SUBSET S
    PROVE  f[T] = IF T = {} THEN 0 ELSE SizeOf[Chosen(T)] + f[T \ {Chosen(T)}]
<1> DEFINE g == [s \in SUBSET S |-> IF s = {} THEN 0 ELSE SizeOf[Chosen(s)] + f[s \ {Chosen(s)}]]
<1>1. f = g
  BY DEF IsTally
<1>2. g[T] = IF T = {} THEN 0 ELSE SizeOf[Chosen(T)] + f[T \ {Chosen(T)}]
  OBVIOUS
<1> HIDE DEF g
<1> QED BY <1>1, <1>2

\* Two tables agree on what they share.
LEMMA TalliesAgree ==
    ASSUME NEW S, NEW T, NEW f, NEW g, IsTally(f, S), IsTally(g, T),
           NEW U \in SUBSET S, U \in SUBSET T, IsFiniteSet(U)
    PROVE  f[U] = g[U]
<1> DEFINE Bad == {V \in SUBSET U : f[V] # g[V]}
           A == {Cardinality(V) : V \in Bad}
<1> SUFFICES ASSUME Bad # {} PROVE FALSE
  OBVIOUS
<1>1. \A V \in SUBSET U : IsFiniteSet(V) /\ Cardinality(V) \in Nat
  BY FS_Subset, FS_CardinalityType
<1>2. A \in SUBSET Nat /\ A # {}
  BY <1>1
<1>3. PICK n \in A : \A m \in A : n <= m
  BY <1>2, LeastNat
<1>4. PICK V \in Bad : \A W \in Bad : Cardinality(V) <= Cardinality(W)
  BY <1>3
<1>5. V \in SUBSET S /\ V \in SUBSET T
  OBVIOUS
<1>6. V # {}
  BY <1>5, TallyAt
<1> DEFINE W == V \ {Chosen(V)}
<1>7. W \in SUBSET U /\ Cardinality(W) < Cardinality(V)
  <2>1. Chosen(V) \in V /\ V \in SUBSET U /\ IsFiniteSet(V)
    BY <1>1, <1>6, ChosenIn
  <2>2. Cardinality(W) = Cardinality(V) - 1 /\ Cardinality(V) \in Nat
    BY <1>1, <2>1, FS_RemoveElement
  <2> QED BY <2>1, <2>2
<1>8. f[W] = g[W]
  <2> HIDE DEF W
  <2>1. Cardinality(W) \in Nat /\ Cardinality(V) \in Nat
    BY <1>1, <1>7
  <2>2. ~(Cardinality(V) <= Cardinality(W))
    BY <1>7, <2>1
  <2>3. W \notin Bad
    BY <1>4, <2>2
  <2> QED BY <1>7, <2>3
<1>9. ASSUME NEW X, NEW h, IsTally(h, X), V \in SUBSET X
      PROVE  h[V] = SizeOf[Chosen(V)] + h[W]
  <2> HIDE DEF Bad, A
  <2> QED BY <1>6, <1>9, TallyAt
<1>10. f[V] = SizeOf[Chosen(V)] + f[W] /\ g[V] = SizeOf[Chosen(V)] + g[W]
  <2> HIDE DEF Bad, A, W
  <2> QED BY <1>5, <1>9
<1> HIDE DEF W
<1> QED BY <1>4, <1>8, <1>9, <1>10

\* There is a table for every finite set.
LEMMA TallyExists ==
    ASSUME NEW S, IsFiniteSet(S)
    PROVE  \E f : IsTally(f, S)
<1> DEFINE Bad == {V \in SUBSET S : ~\E f : IsTally(f, V)}
           A == {Cardinality(V) : V \in Bad}
<1> SUFFICES ASSUME Bad # {} PROVE FALSE
  OBVIOUS
<1>1. \A V \in SUBSET S : IsFiniteSet(V) /\ Cardinality(V) \in Nat
  BY FS_Subset, FS_CardinalityType
<1>2. A \in SUBSET Nat /\ A # {}
  BY <1>1
<1>3. PICK n \in A : \A m \in A : n <= m
  BY <1>2, LeastNat
<1>4. PICK V \in Bad : \A W \in Bad : Cardinality(V) <= Cardinality(W)
  BY <1>3
\* Smaller sets have tables, which give the sums of their subsets.
<1>5. ASSUME NEW W \in SUBSET V, W # V PROVE IsTally(CHOOSE f : IsTally(f, W), W)
  <2>1. Cardinality(W) < Cardinality(V) /\ W \in SUBSET S
    BY <1>1, <1>5, FS_Subset
  <2>2. W \notin Bad
    BY <1>1, <1>4, <2>1
  <2> QED BY <2>1, <2>2
<1> DEFINE Sum(W) == (CHOOSE f : IsTally(f, W))[W]
<1>6. ASSUME NEW W \in SUBSET V, W # V
      PROVE  Sum(W) = IF W = {} THEN 0 ELSE SizeOf[Chosen(W)] + Sum(W \ {Chosen(W)})
  <2> DEFINE g == CHOOSE f : IsTally(f, W)
             X == W \ {Chosen(W)}
             h == CHOOSE f : IsTally(f, X)
  <2>1. IsTally(g, W)
    BY <1>5, <1>6
  <2>2. Sum(W) = g[W]
    OBVIOUS
  <2>3. CASE W = {}
    <3> HIDE DEF g
    <3> QED BY <2>1, <2>2, <2>3, TallyAt
  <2>4. CASE W # {}
    <3>1. X \in SUBSET V /\ X # V /\ X \in SUBSET W /\ IsFiniteSet(X)
      <4>1. Chosen(W) \in W
        BY <2>4, ChosenIn
      <4> QED BY <1>1, <4>1
    <3>2. IsTally(h, X)
      BY <1>5, <3>1
    <3>3. Sum(X) = h[X]
      OBVIOUS
    <3> HIDE DEF g, h, X, Sum
    <3>4. g[X] = h[X]
      BY <2>1, <3>1, <3>2, TalliesAgree
    <3>5. g[W] = SizeOf[Chosen(W)] + g[X]
      BY <2>1, <2>4, TallyAt DEF X
    <3> QED BY <2>2, <2>4, <3>3, <3>4, <3>5 DEF X
  <2> QED BY <2>3, <2>4
<1> DEFINE f == [s \in SUBSET V |-> IF s # V THEN Sum(s)
                                    ELSE IF V = {} THEN 0 ELSE SizeOf[Chosen(V)] + Sum(V \ {Chosen(V)})]
<1>7. ASSUME NEW W \in SUBSET V
      PROVE  f[W] = IF W = {} THEN 0 ELSE SizeOf[Chosen(W)] + f[W \ {Chosen(W)}]
  <2>1. CASE W = {}
    <3>1. CASE V = {}
      BY <2>1, <3>1
    <3>2. CASE V # {}
      <4>1. Sum({}) = 0
        <5> HIDE DEF Sum
        <5> QED BY <1>6, <3>2
      <4> HIDE DEF Sum
      <4> QED BY <2>1, <3>2, <4>1
    <3> QED BY <3>1, <3>2
  <2>2. CASE W # {}
    <3>1. Chosen(W) \in W
      BY <2>2, ChosenIn
    <3>2. W \ {Chosen(W)} \in SUBSET V /\ W \ {Chosen(W)} # V
      BY <3>1
    <3> HIDE DEF Sum
    <3>3. f[W \ {Chosen(W)}] = Sum(W \ {Chosen(W)})
      BY <3>2
    <3>4. f[W] = SizeOf[Chosen(W)] + Sum(W \ {Chosen(W)})
      <4>1. CASE W = V
        BY <2>2, <4>1
      <4>2. CASE W # V
        BY <1>6, <2>2, <4>2
      <4> QED BY <4>1, <4>2
    <3> QED BY <2>2, <3>3, <3>4
  <2> QED BY <2>1, <2>2
<1>8. IsTally(f, V)
  <2>1. f = [s \in SUBSET V |-> f[s]]
    OBVIOUS
  <2> HIDE DEF f
  <2> QED BY <1>7, <2>1 DEF IsTally
<1> QED BY <1>8

\* The sum over a finite set is the recursion: one element and the rest.
LEMMA TotalUnfolds ==
    /\ TotalBytes({}) = 0
    /\ \A S : IsFiniteSet(S) /\ S # {} =>
            TotalBytes(S) = SizeOf[Chosen(S)] + TotalBytes(S \ {Chosen(S)})
<1>1. ASSUME NEW S, IsFiniteSet(S)
      PROVE  TotalBytes(S) = IF S = {} THEN 0 ELSE SizeOf[Chosen(S)] + TotalBytes(S \ {Chosen(S)})
  <2> DEFINE f == CHOOSE h : IsTally(h, S)
             W == S \ {Chosen(S)}
             g == CHOOSE h : IsTally(h, W)
  <2>1. IsTally(f, S)
    BY <1>1, TallyExists
  <2>2. TotalBytes(S) = f[S] /\ TotalBytes(W) = g[W]
    BY TotalIsTally
  <2>3. IsFiniteSet(W) /\ W \in SUBSET S
    BY <1>1, FS_RemoveElement
  <2>4. IsTally(g, W)
    BY <2>3, TallyExists
  <2> HIDE DEF f, g
  <2>5. f[W] = g[W]
    BY <2>1, <2>3, <2>4, TalliesAgree
  <2>6. f[S] = IF S = {} THEN 0 ELSE SizeOf[Chosen(S)] + f[W]
    BY <2>1, TallyAt
  <2> QED BY <2>2, <2>5, <2>6
<1>2. TotalBytes({}) = 0
  BY <1>1, FS_EmptySet
<1> QED BY <1>1, <1>2

\* The sum is a number, and any element may be taken out first.
LEMMA TotalTakesOut ==
    ASSUME NEW S \in SUBSET Backups, IsFiniteSet(S)
    PROVE  /\ TotalBytes(S) \in Nat
           /\ \A x \in S : TotalBytes(S) = SizeOf[x] + TotalBytes(S \ {x})
<1> DEFINE Good(V) == /\ TotalBytes(V) \in Nat
                      /\ \A x \in V : TotalBytes(V) = SizeOf[x] + TotalBytes(V \ {x})
           Bad == {V \in SUBSET S : ~Good(V)}
           A == {Cardinality(V) : V \in Bad}
<1> SUFFICES ASSUME Bad # {} PROVE FALSE
  OBVIOUS
<1>1. \A V \in SUBSET S : IsFiniteSet(V) /\ Cardinality(V) \in Nat
  BY FS_Subset, FS_CardinalityType
<1>2. A \in SUBSET Nat /\ A # {}
  <2> HIDE DEF Good
  <2> QED BY <1>1
<1>3. PICK n \in A : \A m \in A : n <= m
  <2> HIDE DEF A
  <2> QED BY <1>2, LeastNat
<1>4. PICK V \in Bad : \A W \in Bad : Cardinality(V) <= Cardinality(W)
  <2> HIDE DEF Good, Bad
  <2> QED BY <1>3
<1>5. V \in SUBSET S /\ ~Good(V) /\ IsFiniteSet(V) /\ V \in SUBSET Backups
  BY <1>1
<1> HIDE DEF A
<1>6. ASSUME NEW x \in V PROVE Good(V \ {x})
  <2>1. V \ {x} \in SUBSET S /\ Cardinality(V \ {x}) = Cardinality(V) - 1 /\ Cardinality(V) \in Nat
    BY <1>1, <1>5, FS_RemoveElement
  <2> HIDE DEF Good
  <2>2. V \ {x} \notin Bad
    <3> HIDE DEF Bad
    <3> QED BY <1>4, <2>1
  <2> QED BY <2>1, <2>2
<1>7. \A x \in V : SizeOf[x] \in Nat /\ TotalBytes(V \ {x}) \in Nat
  BY <1>5, <1>6, PeerAssumption
<1>8. CASE V = {}
  BY <1>5, <1>8, TotalUnfolds
<1>9. CASE V # {}
  <2> DEFINE y == Chosen(V)
  <2>1. y \in V /\ TotalBytes(V) = SizeOf[y] + TotalBytes(V \ {y})
    BY <1>5, <1>9, ChosenIn, TotalUnfolds
  <2> HIDE DEF y
  <2>2. TotalBytes(V) \in Nat
    BY <1>7, <2>1
  <2>3. ASSUME NEW x \in V PROVE TotalBytes(V) = SizeOf[x] + TotalBytes(V \ {x})
    <3>1. CASE x = y
      BY <2>1, <3>1
    <3>2. CASE x # y
      <4>1. x \in V \ {y} /\ y \in V \ {x} /\ (V \ {y}) \ {x} = (V \ {x}) \ {y}
        BY <2>1, <2>3, <3>2
      <4> DEFINE Rest == TotalBytes((V \ {x}) \ {y})
      <4>2. TotalBytes(V \ {y}) = SizeOf[x] + Rest
        BY <1>6, <2>1, <4>1
      <4>3. TotalBytes(V \ {x}) = SizeOf[y] + Rest
        BY <1>6, <2>3, <4>1
      <4>4. Rest \in Nat
        <5>1. (V \ {x}) \ {y} \in SUBSET S
          BY <1>5
        <5>2. Cardinality((V \ {x}) \ {y}) = Cardinality(V) - 2 /\ Cardinality(V) \in Nat
          <6>1. Cardinality(V \ {x}) = Cardinality(V) - 1 /\ IsFiniteSet(V \ {x})
            BY <1>5, <2>3, FS_RemoveElement
          <6>2. Cardinality((V \ {x}) \ {y}) = Cardinality(V \ {x}) - 1
            BY <4>1, <6>1, FS_RemoveElement
          <6> QED BY <1>1, <1>5, <6>1, <6>2
        <5> HIDE DEF Good
        <5>3. (V \ {x}) \ {y} \notin Bad
          <6> HIDE DEF Bad
          <6> QED BY <1>4, <5>2
        <5>4. Good((V \ {x}) \ {y})
          BY <5>1, <5>3
        <5> QED BY <5>4 DEF Good
      <4> HIDE DEF Rest
      <4> QED BY <1>7, <2>1, <2>3, <4>2, <4>3, <4>4
    <3> QED BY <3>1, <3>2
  <2> QED BY <1>5, <2>2, <2>3
<1> QED BY <1>8, <1>9

\* A sum over less is not more.
LEMMA TotalGrows ==
    ASSUME NEW S \in SUBSET Backups, IsFiniteSet(S), NEW T \in SUBSET S
    PROVE  TotalBytes(T) <= TotalBytes(S)
<1> DEFINE Bad == {V \in SUBSET S : T \in SUBSET V /\ ~(TotalBytes(T) <= TotalBytes(V))}
           A == {Cardinality(V) : V \in Bad}
<1> SUFFICES ASSUME Bad # {} PROVE FALSE
  OBVIOUS
<1>1. \A V \in SUBSET S : IsFiniteSet(V) /\ Cardinality(V) \in Nat /\ TotalBytes(V) \in Nat
  BY FS_Subset, FS_CardinalityType, TotalTakesOut
<1>2. A \in SUBSET Nat /\ A # {}
  BY <1>1
<1>3. PICK n \in A : \A m \in A : n <= m
  <2> HIDE DEF A
  <2> QED BY <1>2, LeastNat
<1>4. PICK V \in Bad : \A W \in Bad : Cardinality(V) <= Cardinality(W)
  <2> HIDE DEF Bad
  <2> QED BY <1>3
<1> HIDE DEF A
<1>5. /\ V \in SUBSET S /\ V \in SUBSET Backups /\ T \in SUBSET V /\ IsFiniteSet(V)
      /\ ~(TotalBytes(T) <= TotalBytes(V))
  BY <1>1
<1>6. T # V
  BY <1>1, <1>5
<1>7. PICK x \in V : x \notin T
  BY <1>5, <1>6
<1> DEFINE W == V \ {x}
<1>8. W \in SUBSET S /\ T \in SUBSET W /\ Cardinality(W) = Cardinality(V) - 1
  BY <1>5, <1>7, FS_RemoveElement
<1>9. TotalBytes(V) = SizeOf[x] + TotalBytes(W) /\ SizeOf[x] \in Nat
  BY <1>5, <1>7, TotalTakesOut, PeerAssumption
<1> HIDE DEF W
<1>10. W \notin Bad
  <2> HIDE DEF Bad
  <2> QED BY <1>1, <1>4, <1>5, <1>8
<1>11. TotalBytes(T) <= TotalBytes(W)
  BY <1>8, <1>10
<1> QED BY <1>1, <1>5, <1>8, <1>9, <1>11

----------------------------------------------------------------------------
(* The quota *)

WithManifest == {b \in Backups : stored[b].manifest}

\* While no two first chunks of one person have been accepted together, each
\* write of a first chunk still to end has room for its whole backup.
QuotaInv ==
    /\ IsFiniteSet(WithManifest)
    /\ QuotaKept
    /\ ~overlapped =>
        /\ \A h, k \in Handlers :
            step[h] = "writing" /\ step[k] = "writing" => ~Rivals(op[h], op[k])
        /\ \A h \in Handlers : step[h] = "writing" /\ op[h].index = 0 =>
            UsedBytes(OwnerOf[op[h].backup], op[h].backup) + SizeOf[op[h].backup] <= Quota

\* Only a write of a first chunk brings a manifest.
LEMMA ManifestSteps ==
    ASSUME Typed, [Next]_vars
    PROVE  \/ WithManifest' \subseteq WithManifest
           \/ \E h \in Handlers :
                /\ step[h] = "writing" /\ op[h].index = 0 /\ op[h].backup \in Backups
                /\ WithManifest' \subseteq WithManifest \union {op[h].backup}
<1> USE DEF serviceVars, storeVars, callVars, history
<1> DEFINE Fewer == WithManifest' \subseteq WithManifest
           OneMore == \E h \in Handlers :
                /\ step[h] = "writing" /\ op[h].index = 0 /\ op[h].backup \in Backups
                /\ WithManifest' \subseteq WithManifest \union {op[h].backup}
<1>0. stored \in [Backups -> Dir]
  BY DEF Typed, TypeOK
<1>1. ASSUME stored' = stored PROVE Fewer
  BY <1>1 DEF WithManifest
<1>2. ASSUME \/ \E u \in Grantees, tier \in Tiers : GiveGrant(u, tier)
             \/ \E n \in 1 .. MaxRows : RevokeGrant(n)
             \/ Tick \/ Restart \/ UNCHANGED vars
      PROVE  Fewer
  <2>1. stored' = stored
    BY <1>2 DEF GiveGrant, RevokeGrant, Tick, Restart, vars
  <2> QED BY <1>1, <2>1
<1>3. ASSUME NEW h \in Handlers,
             (\E o \in Op : Begin(h, o)) \/ Fetch(h) \/ FetchFails(h) \/ KeepList(h)
             \/ Reply(h) \/ RefuseWrite(h) \/ AcceptWrite(h)
      PROVE  Fewer
  <2>1. stored' = stored
    BY <1>3 DEF Begin, Fetch, FetchFails, KeepList, Reply, RefuseWrite, AcceptWrite
  <2> QED BY <1>1, <2>1
<1>4. ASSUME NEW h \in Handlers, step[h] \in {"writing", "marking"}
      PROVE  op[h].backup \in Backups /\ op[h].index \in Chunks /\ stored[op[h].backup] \in Dir
  BY <1>0, <1>4, OpKinds DEF Typed, AtWork
<1>5. ASSUME NEW h \in Handlers, step[h] = "writing", NEW dir,
             dir.manifest = (stored[op[h].backup].manifest \/ op[h].index = 0),
             stored' = [stored EXCEPT ![op[h].backup] = dir]
      PROVE  Fewer \/ OneMore
  <2>1. \A c \in Backups : c # op[h].backup => stored'[c] = stored[c]
    BY <1>0, <1>5
  <2>2. op[h].backup \in Backups
    BY <1>4, <1>5
  <2>3. stored'[op[h].backup].manifest = (stored[op[h].backup].manifest \/ op[h].index = 0)
    BY <1>0, <1>5, <2>2
  <2>4. CASE op[h].index = 0
    BY <1>5, <2>1, <2>2, <2>4 DEF WithManifest
  <2>5. CASE op[h].index # 0
    BY <2>1, <2>3, <2>5 DEF WithManifest
  <2> QED BY <2>4, <2>5
<1>6. ASSUME NEW h \in Handlers, WriteFiles(h) PROVE Fewer \/ OneMore
  <2>1. step[h] = "writing"
    BY <1>6 DEF WriteFiles
  <2>2. Written(stored[op[h].backup], op[h].index).manifest = (stored[op[h].backup].manifest \/ op[h].index = 0)
    BY <1>4, <2>1 DEF Written, Dir
  <2> QED BY <1>5, <1>6, <2>1, <2>2 DEF WriteFiles
<1>7. ASSUME NEW h \in Handlers, WriteCutShort(h) PROVE Fewer \/ OneMore
  <2>1. PICK chunkToo \in BOOLEAN :
            stored' = [stored EXCEPT ![op[h].backup] =
                CutShort(stored[op[h].backup], op[h].index, chunkToo)]
    BY <1>7 DEF WriteCutShort
  <2>2. step[h] = "writing"
    BY <1>7 DEF WriteCutShort
  <2>3. CutShort(stored[op[h].backup], op[h].index, chunkToo).manifest
            = (stored[op[h].backup].manifest \/ op[h].index = 0)
    BY <1>4, <2>2 DEF CutShort, Dir
  <2> QED BY <1>5, <2>1, <2>2, <2>3
<1>8. ASSUME NEW h \in Handlers, Mark(h) PROVE Fewer
  <2>1. op[h].backup \in Backups /\ stored[op[h].backup] \in Dir
    BY <1>4, <1>8 DEF Mark
  <2>2. \A c \in Backups : stored'[c].manifest = stored[c].manifest
    BY <1>0, <1>8, <2>1 DEF Mark, Dir
  <2> QED BY <2>2 DEF WithManifest
<1>9. ASSUME NEW h \in Handlers, Delete(h) \/ Purge(h) PROVE Fewer
  <2>1. PICK gone : Remove(gone)
    BY <1>9 DEF Delete, Purge
  <2>2. \A b \in Backups : stored'[b] = IF b \in gone THEN Empty ELSE stored[b]
    BY <2>1 DEF Remove
  <2> QED BY <2>2 DEF WithManifest, Empty
<1> HIDE DEF Fewer, OneMore
<1>10. Fewer \/ OneMore
  BY <1>2, <1>3, <1>6, <1>7, <1>8, <1>9 DEF Next
<1> QED BY <1>10 DEF Fewer, OneMore

\* A request that writes was writing before, or has just been accepted.
LEMMA WriterSteps ==
    ASSUME Typed, [Next]_vars, NEW h \in Handlers, step'[h] = "writing"
    PROVE  op'[h] = op[h] /\ (step[h] = "writing" \/ AcceptWrite(h))
<1> USE DEF serviceVars, storeVars, callVars, history
<1>0. /\ step \in [Handlers -> Steps] /\ op \in [Handlers -> Op \union {NoOp}]
  BY DEF Typed, TypeOK, Steps
<1> DEFINE Goal == op'[h] = op[h] /\ (step[h] = "writing" \/ AcceptWrite(h))
<1>1. ASSUME \/ \E u \in Grantees, tier \in Tiers : GiveGrant(u, tier)
             \/ \E n \in 1 .. MaxRows : RevokeGrant(n)
             \/ Tick \/ UNCHANGED vars
      PROVE  Goal
  <2>1. step' = step /\ op' = op
    BY <1>1 DEF GiveGrant, RevokeGrant, Tick, vars
  <2> QED BY <2>1
<1>2. ASSUME Restart PROVE Goal
  BY <1>2 DEF Restart
<1>3. ASSUME NEW k \in Handlers, (\E o \in Op : Begin(k, o)) \/ Fetch(k) \/ KeepList(k) PROVE Goal
  BY <1>0, <1>3 DEF Begin, Fetch, KeepList
<1>4. ASSUME NEW k \in Handlers, AcceptWrite(k) PROVE Goal
  BY <1>0, <1>4 DEF AcceptWrite
<1>5. ASSUME NEW k \in Handlers, WriteFiles(k), ~Finish(k) PROVE Goal
  BY <1>0, <1>5 DEF WriteFiles
<1>6. ASSUME NEW k \in Handlers,
             FetchFails(k) \/ Reply(k) \/ RefuseWrite(k) \/ (WriteFiles(k) /\ Finish(k))
             \/ Mark(k) \/ WriteCutShort(k) \/ Delete(k) \/ Purge(k)
      PROVE  Goal
  <2>1. Finish(k)
    BY <1>6 DEF FetchFails, Reply, RefuseWrite, WriteFiles, Mark, WriteCutShort, Delete, Purge
  <2> QED BY <2>1, FinishTyped
<1> HIDE DEF Goal
<1>7. Goal
  BY <1>1, <1>2, <1>3, <1>4, <1>5, <1>6 DEF Next
<1> QED BY <1>7 DEF Goal

\* overlapped only ever becomes true, in a step that accepts a rival.
LEMMA OverlapSteps ==
    ASSUME Typed, [Next]_vars, ~overlapped'
    PROVE  /\ ~overlapped
           /\ \A h \in Handlers : AcceptWrite(h) =>
                ~\E k \in Handlers : step[k] = "writing" /\ Rivals(op[h], op[k])
<1> USE DEF serviceVars, storeVars, callVars, history
<1>1. \A h \in Handlers : AcceptWrite(h) =>
            ~overlapped /\ ~\E k \in Handlers : step[k] = "writing" /\ Rivals(op[h], op[k])
  BY DEF AcceptWrite
<1>2. CASE \/ \E u \in Grantees, tier \in Tiers : GiveGrant(u, tier)
           \/ \E n \in 1 .. MaxRows : RevokeGrant(n)
           \/ Tick \/ Restart \/ UNCHANGED vars
  <2>1. overlapped' = overlapped
    BY <1>2 DEF GiveGrant, RevokeGrant, Tick, Restart, vars
  <2>2. ASSUME NEW h \in Handlers, AcceptWrite(h), NEW k \in Handlers, step[k] = "writing", Rivals(op[h], op[k])
        PROVE  FALSE
    BY <1>1, <2>2
  <2> QED BY <2>1, <2>2
<1>3. ASSUME NEW h \in Handlers,
             \/ (\E o \in Op : Begin(h, o)) \/ Fetch(h) \/ FetchFails(h) \/ KeepList(h)
             \/ Reply(h) \/ RefuseWrite(h) \/ WriteFiles(h)
             \/ Mark(h) \/ WriteCutShort(h) \/ Delete(h) \/ Purge(h)
      PROVE  ~overlapped
  BY <1>3 DEF Begin, Fetch, FetchFails, KeepList, Reply, RefuseWrite, WriteFiles,
              Mark, WriteCutShort, Delete, Purge, Finish
<1> QED BY <1>1, <1>2, <1>3 DEF Next

\* A write that is accepted has room.
LEMMA AcceptedHasRoom ==
    ASSUME Typed, IsFiniteSet(WithManifest), NEW h \in Handlers, AcceptWrite(h)
    PROVE  UsedBytes(OwnerOf[op[h].backup], op[h].backup) + SizeOf[op[h].backup] <= Quota
<1> DEFINE b == op[h].backup
           others == {c \in Backups \ {b} : OwnerOf[c] = OwnerOf[b] /\ stored[c].manifest}
<1>1. b \in Backups
  BY OpKinds DEF AcceptWrite, Deciding, Typed, AtWork
<1>2. WriteVerdict(list[h], b) # "deny"
  BY DEF AcceptWrite, MayWrite
<1>3. ~(UsedBytes(OwnerOf[b], b) + SizeOf[b] > Quota)
  BY <1>2 DEF WriteVerdict
<1>4. others \in SUBSET WithManifest /\ others \in SUBSET Backups
  BY DEF WithManifest
<1>5. TotalBytes(others) \in Nat
  <2> HIDE DEF others
  <2> QED BY <1>4, FS_Subset, TotalTakesOut
<1>6. UsedBytes(OwnerOf[b], b) = TotalBytes(others)
  BY DEF UsedBytes
<1>7. SizeOf[b] \in Nat /\ Quota \in Nat
  BY <1>1, PeerAssumption
<1> HIDE DEF b, others
<1>8. UsedBytes(OwnerOf[b], b) + SizeOf[b] <= Quota
  BY <1>3, <1>5, <1>6, <1>7
<1> QED BY <1>8 DEF b

LEMMA NextQuota ==
    ASSUME Typed, QuotaInv, [Next]_vars
    PROVE  QuotaInv'
<1> DEFINE Held(u) == {b \in Backups : OwnerOf[b] = u /\ stored[b].manifest}
           HeldNext(u) == {b \in Backups : OwnerOf[b] = u /\ stored'[b].manifest}
           Beside(b) == {c \in Backups \ {b} : OwnerOf[c] = OwnerOf[b] /\ stored[c].manifest}
           BesideNext(b) == {c \in Backups \ {b} : OwnerOf[c] = OwnerOf[b] /\ stored'[c].manifest}
<1>0. IsFiniteSet(WithManifest) /\ WithManifest \subseteq Backups /\ WithManifest' \subseteq Backups
  BY DEF QuotaInv, WithManifest
<1>1. IsFiniteSet(WithManifest')
  <2>1. CASE WithManifest' \subseteq WithManifest
    BY <1>0, <2>1, FS_Subset
  <2>2. ASSUME NEW b \in Backups, WithManifest' \subseteq WithManifest \union {b}
        PROVE  IsFiniteSet(WithManifest')
    BY <1>0, <2>2, FS_AddElement, FS_Subset
  <2> QED BY <2>1, <2>2, ManifestSteps
<1>2. ASSUME NEW S \in SUBSET WithManifest
      PROVE  S \in SUBSET Backups /\ IsFiniteSet(S) /\ TotalBytes(S) \in Nat
  BY <1>0, <1>2, FS_Subset, TotalTakesOut
<1>3. ASSUME NEW S \in SUBSET WithManifest, NEW T \in SUBSET S
      PROVE  TotalBytes(T) <= TotalBytes(S) /\ TotalBytes(T) \in Nat /\ TotalBytes(S) \in Nat
  BY <1>2, <1>3, TotalGrows
<1>4. Quota \in Nat /\ SizeOf \in [Backups -> Nat] /\ OwnerOf \in [Backups -> Grantees]
  BY PeerAssumption
<1>5. CASE overlapped'
  BY <1>1, <1>5 DEF QuotaInv, QuotaKept
<1>6. CASE ~overlapped'
  <2>0. ~overlapped
    BY <1>6, OverlapSteps
  <2>1. \A h, k \in Handlers : step[h] = "writing" /\ step[k] = "writing" => ~Rivals(op[h], op[k])
    BY <2>0 DEF QuotaInv
  <2>2. \A u \in Grantees : TotalBytes(Held(u)) <= Quota
    BY <2>0 DEF QuotaInv, QuotaKept
  <2>3. \A h \in Handlers : step[h] = "writing" /\ op[h].index = 0 =>
            TotalBytes(Beside(op[h].backup)) + SizeOf[op[h].backup] <= Quota
    BY <2>0 DEF QuotaInv, UsedBytes
  <2>4. ASSUME NEW h \in Handlers, NEW k \in Handlers, step'[h] = "writing", step'[k] = "writing"
        PROVE  ~Rivals(op'[h], op'[k])
    <3>1. op'[h] = op[h] /\ op'[k] = op[k]
      BY <2>4, WriterSteps
    <3>2. CASE step[h] = "writing" /\ step[k] = "writing"
      BY <2>1, <3>1, <3>2
    <3>3. CASE AcceptWrite(h) /\ step[k] = "writing"
      BY <1>6, <3>1, <3>3, OverlapSteps
    <3>4. CASE step[h] = "writing" /\ AcceptWrite(k)
      BY <1>6, <3>1, <3>4, OverlapSteps DEF Rivals
    <3>5. CASE AcceptWrite(h) /\ AcceptWrite(k)
      <4>1. h = k
        <5>1. step[k] = "deciding" /\ step' = [step EXCEPT ![h] = "writing"]
          BY <3>5 DEF AcceptWrite, Deciding
        <5> QED BY <2>4, <5>1 DEF Typed, TypeOK
      <4> QED BY <3>1, <4>1 DEF Rivals
    <3> QED BY <2>4, <3>2, <3>3, <3>4, <3>5, WriterSteps
  <2>5. ASSUME NEW u \in Grantees PROVE TotalBytes(HeldNext(u)) <= Quota
    <3>1. Held(u) \in SUBSET WithManifest
      BY DEF WithManifest
    <3>2. CASE HeldNext(u) \in SUBSET Held(u)
      <4> HIDE DEF Held, HeldNext
      <4> QED BY <1>3, <1>4, <2>2, <3>1, <3>2
    <3>3. CASE HeldNext(u) \notin SUBSET Held(u)
      <4>1. ~(WithManifest' \subseteq WithManifest)
        BY <3>3 DEF WithManifest
      <4>2. PICK h \in Handlers :
                /\ step[h] = "writing" /\ op[h].index = 0 /\ op[h].backup \in Backups
                /\ WithManifest' \subseteq WithManifest \union {op[h].backup}
        BY <4>1, ManifestSteps
      <4>3. PICK b \in Backups : b = op[h].backup
        BY <4>2
      <4>4. OwnerOf[b] = u
        BY <3>3, <4>2, <4>3 DEF WithManifest
      <4>5. HeldNext(u) \in SUBSET (Beside(b) \union {b})
        BY <4>2, <4>3, <4>4 DEF WithManifest
      <4>6. Beside(b) \in SUBSET WithManifest /\ b \notin Beside(b)
        BY DEF WithManifest
      <4>7. TotalBytes(Beside(b)) + SizeOf[b] <= Quota
        BY <2>3, <4>2, <4>3
      <4> HIDE DEF Beside, Held, HeldNext
      <4>8. /\ Beside(b) \union {b} \in SUBSET Backups /\ IsFiniteSet(Beside(b) \union {b})
            /\ (Beside(b) \union {b}) \ {b} = Beside(b)
        BY <1>2, <4>6, FS_AddElement
      <4>9. TotalBytes(Beside(b) \union {b}) = SizeOf[b] + TotalBytes(Beside(b))
        BY <4>8, TotalTakesOut
      <4>10. /\ TotalBytes(HeldNext(u)) <= TotalBytes(Beside(b) \union {b})
             /\ TotalBytes(HeldNext(u)) \in Nat
        <5>1. IsFiniteSet(HeldNext(u)) /\ HeldNext(u) \in SUBSET Backups
          BY <4>5, <4>8, FS_Subset
        <5> QED BY <4>5, <4>8, <5>1, TotalGrows, TotalTakesOut
      <4> QED BY <1>2, <1>4, <4>6, <4>7, <4>9, <4>10
    <3> QED BY <3>2, <3>3
  <2>6. ASSUME NEW h \in Handlers, step'[h] = "writing", op'[h].index = 0
        PROVE  TotalBytes(BesideNext(op'[h].backup)) + SizeOf[op'[h].backup] <= Quota
    <3>1. op'[h] = op[h]
      BY <2>6, WriterSteps
    <3>2. op[h].backup \in Backups
      <4>1. step[h] \in {"writing", "deciding"} /\ op[h].kind = "write"
        BY <2>6, WriterSteps DEF AcceptWrite, Deciding, Typed, AtWork
      <4> QED BY <4>1, OpKinds DEF Typed, AtWork
    <3>3. PICK b \in Backups : b = op[h].backup
      BY <3>2
    <3>4. Beside(b) \in SUBSET WithManifest
      BY DEF WithManifest
    <3>5. TotalBytes(Beside(b)) + SizeOf[b] <= Quota
      <4>1. CASE step[h] = "writing"
        BY <2>3, <2>6, <3>1, <3>3, <4>1
      <4>2. CASE AcceptWrite(h)
        BY <1>0, <3>3, <4>2, AcceptedHasRoom DEF UsedBytes
      <4> QED BY <2>6, <4>1, <4>2, WriterSteps
    <3>6. BesideNext(b) \in SUBSET Beside(b)
      <4>1. CASE WithManifest' \subseteq WithManifest
        BY <4>1 DEF WithManifest
      <4>2. ASSUME NEW k \in Handlers, step[k] = "writing", op[k].index = 0, op[k].backup \in Backups,
                   WithManifest' \subseteq WithManifest \union {op[k].backup}
            PROVE  BesideNext(b) \in SUBSET Beside(b)
        <5>1. ~Rivals(op[h], op[k])
          <6>1. CASE step[h] = "writing"
            BY <2>1, <4>2, <6>1
          <6>2. CASE AcceptWrite(h)
            BY <1>6, <4>2, <6>2, OverlapSteps
          <6> QED BY <2>6, <6>1, <6>2, WriterSteps
        <5>2. op[k].backup = b \/ OwnerOf[op[k].backup] # OwnerOf[b]
          BY <2>6, <3>1, <3>3, <4>2, <5>1 DEF Rivals
        <5> QED BY <4>2, <5>2 DEF WithManifest
      <4> QED BY <4>1, <4>2, ManifestSteps
    <3> HIDE DEF Beside, BesideNext
    <3> QED BY <1>3, <1>4, <3>1, <3>3, <3>4, <3>5, <3>6
  <2> QED BY <1>1, <2>4, <2>5, <2>6 DEF QuotaInv, QuotaKept, UsedBytes
<1> QED BY <1>5, <1>6

LEMMA InitQuota == Init => QuotaInv
<1> SUFFICES ASSUME Init PROVE QuotaInv
  OBVIOUS
<1>1. WithManifest = {}
  BY DEF Init, Empty, WithManifest
<1>2. \A u \in Grantees : {b \in Backups : OwnerOf[b] = u /\ stored[b].manifest} = {}
  BY <1>1 DEF WithManifest
<1>3. \A u \in Grantees : TotalBytes({b \in Backups : OwnerOf[b] = u /\ stored[b].manifest}) <= Quota
  <2>1. 0 <= Quota
    BY PeerAssumption
  <2>2. TotalBytes({}) = 0
    BY TotalUnfolds
  <2> QED BY <1>2, <2>1, <2>2
<1>4. \A h \in Handlers : step[h] = "idle"
  BY DEF Init
<1> QED BY <1>1, <1>3, <1>4, FS_EmptySet DEF QuotaInv, QuotaKept

\* What a person has stored fits their quota, for any sizes, as long as no two
\* first chunks of theirs were accepted at the same moment.
THEOREM StoredFitsQuota == Spec => []QuotaKept
<1>1. Typed /\ QuotaInv /\ [Next]_vars => QuotaInv'
  BY NextQuota
<1>2. QuotaInv => QuotaKept
  BY DEF QuotaInv
<1> QED BY <1>1, <1>2, InitTyped, NextTyped, InitQuota, PTL DEF Spec

----------------------------------------------------------------------------
(* A refresh takes hold at once *)

\* Every revocation a finished refresh had fetched is one of the service's;
\* it is in the cache, and in each list a request decides from, as long as
\* nothing older has replaced the cache.  After a restart there is no cache,
\* and what has been fetched since is newer than every refresh.
RefreshHolds ==
    /\ refreshed \subseteq Revoked(grants)
    /\ \A h \in Handlers : knew[h] \subseteq refreshed
    /\ \A h \in Handlers : step[h] = "deciding" => cached # NoList
    /\ ~reverted =>
        /\ cached # NoList => refreshed \subseteq Revoked(cached)
        /\ cached = NoList => \A h \in Handlers :
              step[h] = "fetched" => refreshed \subseteq Revoked(list[h])
        /\ \A h \in Handlers : step[h] = "deciding" =>
              knew[h] \subseteq Revoked(list[h]) /\ Revoked(list[h]) \subseteq Revoked(cached)

LEMMA RevokedStays ==
    ASSUME Typed, [Next]_vars
    PROVE  Revoked(grants) \subseteq Revoked(grants')
BY RowsGrow DEF Revoked

\* A step that neither keeps a list nor refreshes, and leaves each request
\* where it was or past its decision.
LEMMA RefreshUntouched ==
    ASSUME Typed, [Next]_vars, RefreshHolds, UNCHANGED <<cached, refreshed, reverted>>,
           \A h \in Handlers :
             \/ step'[h] = step[h] /\ list'[h] = list[h] /\ knew'[h] = knew[h]
             \/ step'[h] \notin {"fetched", "deciding"} /\ knew'[h] \subseteq refreshed
    PROVE  RefreshHolds'
BY RevokedStays DEF RefreshHolds

LEMMA NextRefreshHolds ==
    ASSUME Typed, ListsAreOlder, RefreshHolds, [Next]_vars
    PROVE  RefreshHolds'
<1> USE DEF serviceVars, storeVars, callVars, history
<1>0. /\ step \in [Handlers -> Steps] /\ list \in [Handlers -> Seq(Grant) \union {NoList}]
      /\ knew \in [Handlers -> SUBSET Nat]
  BY DEF Typed, TypeOK, Steps
<1>1. ASSUME \/ \E u \in Grantees, tier \in Tiers : GiveGrant(u, tier)
             \/ \E n \in 1 .. MaxRows : RevokeGrant(n)
             \/ Tick \/ UNCHANGED vars
      PROVE  RefreshHolds'
  <2>1. UNCHANGED <<cached, refreshed, reverted, step, list, knew>>
    BY <1>1 DEF GiveGrant, RevokeGrant, Tick, vars
  <2> QED BY <2>1, RefreshUntouched
<1>2. ASSUME Restart PROVE RefreshHolds'
  <2>1. /\ cached' = NoList /\ UNCHANGED <<grants, refreshed, reverted>>
        /\ \A h \in Handlers : step'[h] = "idle" /\ knew'[h] = {}
    BY <1>2 DEF Restart
  <2> QED BY <2>1 DEF RefreshHolds
<1>3. ASSUME NEW h \in Handlers, NEW o \in Op, Begin(h, o) PROVE RefreshHolds'
  <2>1. /\ UNCHANGED <<grants, cached, refreshed, reverted>>
        /\ knew'[h] = refreshed
        /\ \A k \in Handlers \ {h} : step'[k] = step[k] /\ list'[k] = list[k] /\ knew'[k] = knew[k]
        /\ \/ step'[h] = "deciding" /\ list'[h] = cached /\ cached # NoList
           \/ step'[h] = "fetching"
    BY <1>0, <1>3 DEF Begin, Fresh
  <2> QED BY <2>1 DEF RefreshHolds
<1>4. ASSUME NEW h \in Handlers, Fetch(h) PROVE RefreshHolds'
  <2>1. /\ UNCHANGED <<grants, cached, refreshed, reverted, knew>>
        /\ step'[h] = "fetched" /\ list'[h] = grants
        /\ \A k \in Handlers \ {h} : step'[k] = step[k] /\ list'[k] = list[k]
    BY <1>0, <1>4 DEF Fetch
  <2> QED BY <2>1 DEF RefreshHolds
<1>5. ASSUME NEW h \in Handlers, KeepList(h) PROVE RefreshHolds'
  <2>1. /\ UNCHANGED <<grants, refreshed, knew, list>>
        /\ step[h] = "fetched" /\ step'[h] = "deciding" /\ cached' = list[h]
        /\ \A k \in Handlers \ {h} : step'[k] = step[k]
        /\ reverted' = (reverted \/ (cached # NoList /\ ~(Revoked(cached) \subseteq Revoked(list[h]))))
    BY <1>0, <1>5 DEF KeepList
  <2>2. cached' # NoList
    <3>1. list[h] \in Seq(Grant)
      BY <2>1 DEF Typed, AtWork
    <3> QED BY <2>1, <3>1, NoListAssumption
  <2>3. ASSUME ~reverted'
        PROVE  /\ refreshed \subseteq Revoked(cached')
               /\ cached # NoList => Revoked(cached) \subseteq Revoked(cached')
    BY <2>1, <2>3 DEF RefreshHolds
  <2>4. ASSUME ~reverted', NEW k \in Handlers, step'[k] = "deciding"
        PROVE  knew'[k] \subseteq Revoked(list'[k]) /\ Revoked(list'[k]) \subseteq Revoked(cached')
    <3>1. CASE k = h
      BY <2>1, <2>3, <2>4, <3>1 DEF RefreshHolds
    <3>2. CASE k # h
      BY <2>1, <2>3, <2>4, <3>2 DEF RefreshHolds
    <3> QED BY <3>1, <3>2
  <2> QED BY <2>1, <2>2, <2>3, <2>4 DEF RefreshHolds
<1>6. ASSUME NEW h \in Handlers, AcceptWrite(h) \/ (WriteFiles(h) /\ ~Finish(h)) PROVE RefreshHolds'
  <2>1. /\ UNCHANGED <<cached, refreshed, reverted, list, knew>>
        /\ step'[h] \in {"writing", "marking"}
        /\ \A k \in Handlers \ {h} : step'[k] = step[k]
    BY <1>0, <1>6 DEF AcceptWrite, WriteFiles
  <2>2. \A k \in Handlers :
             \/ step'[k] = step[k] /\ list'[k] = list[k] /\ knew'[k] = knew[k]
             \/ step'[k] \notin {"fetched", "deciding"} /\ knew'[k] \subseteq refreshed
    BY <2>1 DEF RefreshHolds
  <2> QED BY <2>1, <2>2, RefreshUntouched
<1>7. ASSUME NEW h \in Handlers, Finish(h)
      PROVE  /\ step'[h] = "idle" /\ knew'[h] = {}
             /\ \A k \in Handlers \ {h} : step'[k] = step[k] /\ list'[k] = list[k] /\ knew'[k] = knew[k]
  <2>1. knew'[h] = {}
    BY <1>0, <1>7 DEF Finish
  <2> QED BY <1>7, <2>1, FinishTyped
<1>8. ASSUME NEW h \in Handlers,
             FetchFails(h) \/ Reply(h) \/ RefuseWrite(h) \/ (WriteFiles(h) /\ Finish(h))
             \/ Mark(h) \/ WriteCutShort(h) \/ Delete(h)
      PROVE  RefreshHolds'
  <2>1. Finish(h) /\ UNCHANGED <<cached, refreshed, reverted>>
    BY <1>8 DEF FetchFails, Reply, RefuseWrite, WriteFiles, Mark, WriteCutShort, Delete, Finish
  <2> QED BY <1>7, <2>1, RefreshUntouched
<1>9. ASSUME NEW h \in Handlers, Purge(h) PROVE RefreshHolds'
  <2>1. /\ UNCHANGED <<grants, cached, reverted>> /\ Finish(h)
        /\ refreshed' = refreshed \union Revoked(list[h]) /\ step[h] = "deciding"
    BY <1>9 DEF Purge, Deciding
  <2>2. Revoked(list[h]) \subseteq Revoked(grants)
    BY <2>1 DEF ListsAreOlder, Older, Revoked
  <2>3. cached # NoList /\ (~reverted => Revoked(list[h]) \subseteq Revoked(cached))
    BY <2>1 DEF RefreshHolds
  <2> QED BY <1>7, <2>1, <2>2, <2>3 DEF RefreshHolds
<1> QED BY <1>1, <1>2, <1>3, <1>4, <1>5, <1>6, <1>8, <1>9 DEF Next

\* A write that comes in after a refresh has told the daemon of a revocation
\* is not accepted on that grant, unless an older list has replaced the cache.
THEOREM RefreshStopsWrites == Spec => WritesStopOnRefresh
<1>1. Init => ListsAreOlder /\ RefreshHolds
  BY DEF Init, ListsAreOlder, RefreshHolds
<1>2. Typed /\ ListsAreOlder /\ RefreshHolds /\ [Next]_vars => RefreshHolds'
  BY NextRefreshHolds
<1>3. Typed /\ ListsAreOlder /\ RefreshHolds /\ [Next]_vars =>
        [\A h \in Handlers : Accepts(h) /\ ~reverted =>
            \E n \in DOMAIN grants :
                grants[n].who = OwnerOf[op[h].backup] /\ n \notin knew[h]]_vars
  <2> SUFFICES ASSUME Typed, ListsAreOlder, RefreshHolds, [Next]_vars,
                      NEW h \in Handlers, Accepts(h), ~reverted
               PROVE  \E n \in DOMAIN grants :
                        grants[n].who = OwnerOf[op[h].backup] /\ n \notin knew[h]
    OBVIOUS
  <2>1. MayWrite(h) /\ list[h] \in Seq(Grant) /\ Older(list[h]) /\ step[h] = "deciding"
    <3>1. step[h] = "deciding" /\ step'[h] = "writing"
      BY DEF Accepts
    <3>2. MayWrite(h)
      BY <3>1, OnlyAcceptsWrite
    <3> QED BY <3>1, <3>2 DEF Typed, AtWork, ListsAreOlder
  <2>2. PICK n \in DOMAIN list[h] :
            list[h][n].who = OwnerOf[op[h].backup] /\ list[h][n].revokedAt = Active
    BY <2>1, AllowedSawGrant
  <2>3. n \in DOMAIN grants /\ grants[n].who = OwnerOf[op[h].backup]
    BY <2>1, <2>2 DEF Older
  <2>4. n \notin knew[h]
    BY <2>1, <2>2 DEF RefreshHolds, Revoked
  <2> QED BY <2>3, <2>4
<1> QED BY <1>1, <1>2, <1>3, InitTyped, NextTyped, NextOlder, PTL DEF Spec, WritesStopOnRefresh
============================================================================
