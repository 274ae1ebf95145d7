----------------------------- MODULE PeerStore -----------------------------
(***************************************************************************)
(* The peer's side of a backup: the daemon that keeps other people's       *)
(* encrypted chunks (agent/internal/backup/peer.go).                       *)
(*                                                                         *)
(* Each request is a goroutine of the daemon's HTTP server.  What several  *)
(* of them share is the cached grant list, guarded by a mutex that is not  *)
(* held while the list is fetched, and the files, guarded by nothing: a    *)
(* request decides first and touches the files after.  The grants          *)
(* themselves are rows of the service, given and revoked there.            *)
(*                                                                         *)
(* Contents, hashes and signatures are left out: a chunk is its index, and *)
(* each backup has one manifest, the one its owner signed.  All backups    *)
(* here have the same number of chunks.                                    *)
(***************************************************************************)
EXTENDS Integers, Sequences, FiniteSets, FiniteSetsExt

CONSTANTS
    Grantees,       \* people who may be given space here
    Backups,        \* backup ids; ids are random, so each is one person's
    OwnerOf,        \* whose backup it is
    SizeOf,         \* TotalBytes of its manifest
    LastChunk,      \* its chunks are 0 .. LastChunk
    Handlers,       \* requests the daemon serves at the same time
    Kinds,          \* the kinds of request it is sent
    Quota,          \* quota_bytes of every grant
    Tiers,          \* write tiers a grant may have, "allow" or "ask"
    MaxAge,         \* grantsMaxAge
    Grace,          \* RevocationGrace
    FetchTime,      \* the timeout of FetchGrants
    MaxTime,        \* bound: how far the clock runs
    MaxRows,        \* bound: grant rows
    Active,         \* revoked_at is NULL
    NoOp,           \* what an idle handler works on
    NoList          \* nothing fetched

Chunks == 0 .. LastChunk

ASSUME PeerAssumption ==
    /\ OwnerOf \in [Backups -> Grantees]
    /\ SizeOf \in [Backups -> Nat]
    /\ LastChunk \in Nat
    /\ Quota \in Nat
    /\ Kinds \subseteq {"authorize", "write", "read", "delete", "refresh"}
    /\ Tiers \subseteq {"allow", "ask"}
    /\ MaxAge \in Nat /\ Grace \in Nat /\ FetchTime \in Nat
    /\ MaxTime \in Nat /\ MaxRows \in Nat
    /\ Active \notin Nat

VARIABLES
    now,            \* the clock
    grants,         \* the service's rows for this host, in id order
    cached,         \* Store.grants
    cachedAt,       \* Store.grantsAt
    stored,         \* what peer/<grantee>/<backup>/ holds
    step,           \* where each request is
    op,             \* what it was asked to do
    list,           \* the grant list it decides from
    since,          \* when it asked the service for that list
    refreshed,      \* revoked rows some finished RefreshGrants had fetched
    knew,           \* refreshed, when the request came in
    wiped,          \* backups removed while a request was writing them
    reverted,       \* an older list has replaced a newer one in the cache
    overlapped      \* first chunks of one person were accepted at the same time

serviceVars == <<grants>>
storeVars == <<cached, cachedAt, stored>>
callVars == <<step, op, list, since, knew>>
history == <<refreshed, wiped, reverted, overlapped>>
vars == <<now, serviceVars, storeVars, callVars, history>>

Grant == [who: Grantees, tier: Tiers, revokedAt: Nat \union {Active}]

\* What has not been fetched, a nil slice, is told apart from every list that
\* was, an empty one included.
ASSUME NoListAssumption == NoList \notin Seq(Grant)

Dir == [manifest: BOOLEAN, chunks: SUBSET Chunks, complete: BOOLEAN]
Empty == [manifest |-> FALSE, chunks |-> {}, complete |-> FALSE]

WriteOp == [kind: {"write"}, backup: Backups, index: Chunks, approved: BOOLEAN]
OwnOp == [kind: {"authorize", "read", "delete"}, backup: Backups]
RefreshOp == [kind: {"refresh"}]
Op == {o \in WriteOp \union OwnOp \union RefreshOp : o.kind \in Kinds}

TypeOK ==
    /\ now \in Nat
    /\ grants \in Seq(Grant)
    /\ cached \in Seq(Grant) \union {NoList}
    /\ cachedAt \in Nat
    /\ stored \in [Backups -> Dir]
    /\ step \in [Handlers -> {"idle", "fetching", "fetched", "deciding", "writing", "marking"}]
    /\ op \in [Handlers -> Op \union {NoOp}]
    /\ list \in [Handlers -> Seq(Grant) \union {NoList}]
    /\ since \in [Handlers -> Nat]
    /\ refreshed \in SUBSET Nat
    /\ knew \in [Handlers -> SUBSET Nat]
    /\ wiped \subseteq Backups
    /\ reverted \in BOOLEAN /\ overlapped \in BOOLEAN

Init ==
    /\ now = 0
    /\ grants = <<>>
    /\ cached = NoList
    /\ cachedAt = 0
    /\ stored = [b \in Backups |-> Empty]
    /\ step = [h \in Handlers |-> "idle"]
    /\ op = [h \in Handlers |-> NoOp]
    /\ list = [h \in Handlers |-> NoList]
    /\ since = [h \in Handlers |-> 0]
    /\ refreshed = {}
    /\ knew = [h \in Handlers |-> {}]
    /\ wiped = {}
    /\ reverted = FALSE /\ overlapped = FALSE

----------------------------------------------------------------------------
(* What the daemon reads off a grant list and its files *)

\* The first grant of a person in the list: revoked rows are listed too.
FindGrant(rows, u) ==
    LET own == {n \in DOMAIN rows : rows[n].who = u}
    IN  IF own = {} THEN NoList ELSE rows[Min(own)]

\* What the manifests of these backups add up to.
TotalBytes(these) == MapThenSumSet(LAMBDA b : SizeOf[b], these)

\* usedBytes: the manifests of a person's other backups, finished or not.
UsedBytes(u, b) ==
    TotalBytes({c \in Backups \ {b} : OwnerOf[c] = u /\ stored[c].manifest})

WriteVerdict_UntilPurged(rows, b) ==
    LET g == FindGrant(rows, OwnerOf[b]) IN
    IF g = NoList \/ (g.revokedAt # Active /\ now - g.revokedAt >= Grace) THEN "deny"
    ELSE IF UsedBytes(OwnerOf[b], b) + SizeOf[b] > Quota THEN "deny"
    ELSE g.tier

\* The tier of a write of the whole of b, or "deny".
WriteVerdict(rows, b) ==
    LET g == FindGrant(rows, OwnerOf[b]) IN
    IF g = NoList \/ g.revokedAt # Active THEN "deny"
    ELSE IF UsedBytes(OwnerOf[b], b) + SizeOf[b] > Quota THEN "deny"
    ELSE g.tier

GraceOver(row) == row.revokedAt # Active /\ now - row.revokedAt >= Grace

ReadableBy(rows, u) ==
    LET g == FindGrant(rows, u) IN g # NoList /\ ~GraceOver(g)

----------------------------------------------------------------------------
(* The service: grants given and revoked, and time *)

\* A person has one active row; whoever was revoked may be given space again.
GiveGrant(u, tier) ==
    /\ Len(grants) < MaxRows
    /\ \A n \in DOMAIN grants : grants[n].who = u => grants[n].revokedAt # Active
    /\ grants' = Append(grants, [who |-> u, tier |-> tier, revokedAt |-> Active])
    /\ UNCHANGED <<now, storeVars, callVars, history>>

RevokeGrant(n) ==
    /\ n \in DOMAIN grants
    /\ grants[n].revokedAt = Active
    /\ grants' = [grants EXCEPT ![n].revokedAt = now]
    /\ UNCHANGED <<now, storeVars, callVars, history>>

\* No fetch takes longer than its timeout, and a request decides at once.
Tick ==
    /\ now < MaxTime
    /\ \A h \in Handlers :
        /\ step[h] \in {"fetching", "fetched"} => now - since[h] < FetchTime
        /\ step[h] # "deciding"
    /\ now' = now + 1
    /\ UNCHANGED <<serviceVars, storeVars, callVars, history>>

----------------------------------------------------------------------------
(* currentGrants *)

Fresh == cached # NoList /\ now - cachedAt < MaxAge

Begin_NeverStale(h, o) ==
    /\ step[h] = "idle"
    /\ op' = [op EXCEPT ![h] = o]
    /\ knew' = [knew EXCEPT ![h] = refreshed]
    /\ IF cached # NoList /\ o.kind \notin {"authorize", "refresh"}
       THEN /\ step' = [step EXCEPT ![h] = "deciding"]
            /\ list' = [list EXCEPT ![h] = cached]
            /\ UNCHANGED since
       ELSE /\ step' = [step EXCEPT ![h] = "fetching"]
            /\ since' = [since EXCEPT ![h] = now]
            /\ UNCHANGED list
    /\ UNCHANGED <<now, serviceVars, storeVars, history>>

\* Authorize and RefreshGrants always fetch; the others use a fresh cache.
Begin(h, o) ==
    /\ step[h] = "idle"
    /\ op' = [op EXCEPT ![h] = o]
    /\ knew' = [knew EXCEPT ![h] = refreshed]
    /\ IF Fresh /\ o.kind \notin {"authorize", "refresh"}
       THEN /\ step' = [step EXCEPT ![h] = "deciding"]
            /\ list' = [list EXCEPT ![h] = cached]
            /\ UNCHANGED since
       ELSE /\ step' = [step EXCEPT ![h] = "fetching"]
            /\ since' = [since EXCEPT ![h] = now]
            /\ UNCHANGED list
    /\ UNCHANGED <<now, serviceVars, storeVars, history>>

\* GET /hosts/grants: one query of the service.
Fetch(h) ==
    /\ step[h] = "fetching"
    /\ step' = [step EXCEPT ![h] = "fetched"]
    /\ list' = [list EXCEPT ![h] = grants]
    /\ UNCHANGED <<now, serviceVars, storeVars, op, since, knew, history>>

\* The request is over: its goroutine is gone.
Finish(h) ==
    /\ step' = [step EXCEPT ![h] = "idle"]
    /\ op' = [op EXCEPT ![h] = NoOp]
    /\ list' = [list EXCEPT ![h] = NoList]
    /\ since' = [since EXCEPT ![h] = 0]
    /\ knew' = [knew EXCEPT ![h] = {}]

FetchFails(h) ==
    /\ step[h] \in {"fetching", "fetched"}
    /\ Finish(h)
    /\ UNCHANGED <<now, serviceVars, storeVars, history>>

Revoked(rows) == {n \in DOMAIN rows : rows[n].revokedAt # Active}

\* The list just fetched replaces the cached one, whichever is newer.
KeepList(h) ==
    /\ step[h] = "fetched"
    /\ cached' = list[h]
    /\ cachedAt' = now
    /\ step' = [step EXCEPT ![h] = "deciding"]
    /\ reverted' = (reverted \/ (cached # NoList /\ ~(Revoked(cached) \subseteq Revoked(list[h]))))
    /\ UNCHANGED <<now, serviceVars, stored, op, list, since, knew, refreshed, wiped, overlapped>>

----------------------------------------------------------------------------
(* The requests *)

Deciding(h, kind) == step[h] = "deciding" /\ op[h].kind = kind

\* Authorize, List, GetManifest and GetChunk change nothing here.
Reply(h) ==
    /\ Deciding(h, "authorize") \/ Deciding(h, "read")
    /\ Finish(h)
    /\ UNCHANGED <<now, serviceVars, storeVars, history>>

MayWrite_ForgetsQuota(h) ==
    LET g == FindGrant(list[h], OwnerOf[op[h].backup]) IN
    /\ op[h].index # 0 => stored[op[h].backup].manifest
    /\ g # NoList /\ g.revokedAt = Active
    /\ g.tier = "allow" \/ op[h].approved

\* Chunks after the first need the manifest chunk 0 brought.
MayWrite(h) ==
    LET o == op[h]
        tier == WriteVerdict(list[h], o.backup)
    IN  /\ o.index # 0 => stored[o.backup].manifest
        /\ tier = "allow" \/ (tier = "ask" /\ o.approved)

RefuseWrite(h) ==
    /\ Deciding(h, "write")
    /\ ~MayWrite(h)
    /\ Finish(h)
    /\ UNCHANGED <<now, serviceVars, storeVars, history>>

\* First chunks of two backups of one person.
Rivals(o, p) ==
    /\ o.index = 0 /\ p.index = 0
    /\ o.backup # p.backup /\ OwnerOf[o.backup] = OwnerOf[p.backup]

AcceptWrite(h) ==
    /\ Deciding(h, "write")
    /\ MayWrite(h)
    /\ step' = [step EXCEPT ![h] = "writing"]
    /\ overlapped' = (overlapped \/ \E k \in Handlers : step[k] = "writing" /\ Rivals(op[h], op[k]))
    /\ UNCHANGED <<now, serviceVars, storeVars, op, list, since, knew, refreshed, wiped, reverted>>

\* A directory after chunk i; chunk 0 brings the manifest.
Written(dir, i) ==
    [dir EXCEPT !.manifest = @ \/ i = 0, !.chunks = @ \union {i}]

Whole_LastIsThere(dir) == LastChunk \in dir.chunks

\* Every chunk has a file: the upload is complete.
Whole(dir) == dir.chunks = Chunks

\* MkdirAll first: a directory deleted since the decision comes back.
WriteFiles(h) ==
    LET b == op[h].backup
        dir == Written(stored[b], op[h].index)
    IN  /\ step[h] = "writing"
        /\ stored' = [stored EXCEPT ![b] = dir]
        /\ IF Whole(dir)
           THEN step' = [step EXCEPT ![h] = "marking"] /\ UNCHANGED <<op, list, since, knew>>
           ELSE Finish(h)
        /\ UNCHANGED <<now, serviceVars, cached, cachedAt, history>>

\* The marker, in the directory if that is still there.  Whether it could be
\* written is not looked at: the answer is that the backup is complete.
Mark(h) ==
    /\ step[h] = "marking"
    /\ \/ /\ stored[op[h].backup] # Empty
          /\ stored' = [stored EXCEPT ![op[h].backup].complete = TRUE]
       \/ UNCHANGED stored
    /\ Finish(h)
    /\ UNCHANGED <<now, serviceVars, cached, cachedAt, history>>

\* A write that fails (a full disk) or is cut short (the daemon stops) leaves
\* the manifest, or the manifest and the chunk, without the marker.
CutShort(dir, i, chunkToo) ==
    [dir EXCEPT !.manifest = @ \/ i = 0,
                !.chunks = IF chunkToo THEN @ \union {i} ELSE @]

WriteCutShort(h) ==
    /\ step[h] = "writing"
    /\ \E chunkToo \in BOOLEAN :
        stored' = [stored EXCEPT ![op[h].backup] =
            CutShort(stored[op[h].backup], op[h].index, chunkToo)]
    /\ Finish(h)
    /\ UNCHANGED <<now, serviceVars, cached, cachedAt, history>>

BeingWritten == {op[h].backup : h \in {k \in Handlers : step[k] \in {"writing", "marking"}}}

\* RemoveAll of these backups' directories.
Remove(gone) ==
    /\ stored' = [b \in Backups |-> IF b \in gone THEN Empty ELSE stored[b]]
    /\ wiped' = wiped \union (gone \intersect BeingWritten)

Delete(h) ==
    /\ Deciding(h, "delete")
    /\ Remove(IF ReadableBy(list[h], OwnerOf[op[h].backup]) THEN {op[h].backup} ELSE {})
    /\ Finish(h)
    /\ UNCHANGED <<now, serviceVars, cached, cachedAt, refreshed, reverted, overlapped>>

Expired_AnyRevoked(rows) == {rows[n].who : n \in {m \in DOMAIN rows : rows[m].revokedAt # Active}}

\* The people RefreshGrants purges: those with any row past its grace.
Expired(rows) == {rows[n].who : n \in {m \in DOMAIN rows : GraceOver(rows[m])}}

Purge(h) ==
    /\ Deciding(h, "refresh")
    /\ Remove({b \in Backups : OwnerOf[b] \in Expired(list[h])})
    /\ refreshed' = refreshed \union Revoked(list[h])
    /\ Finish(h)
    /\ UNCHANGED <<now, serviceVars, cached, cachedAt, reverted, overlapped>>

\* The daemon starts again: the files and nothing else are there.
Restart ==
    /\ cached' = NoList
    /\ cachedAt' = 0
    /\ step' = [h \in Handlers |-> "idle"]
    /\ op' = [h \in Handlers |-> NoOp]
    /\ list' = [h \in Handlers |-> NoList]
    /\ since' = [h \in Handlers |-> 0]
    /\ knew' = [h \in Handlers |-> {}]
    /\ UNCHANGED <<now, serviceVars, stored, history>>

Next ==
    \/ \E u \in Grantees, tier \in Tiers : GiveGrant(u, tier)
    \/ \E n \in 1 .. MaxRows : RevokeGrant(n)
    \/ Tick
    \/ \E h \in Handlers :
        \/ \E o \in Op : Begin(h, o)
        \/ Fetch(h) \/ FetchFails(h) \/ KeepList(h)
        \/ Reply(h) \/ RefuseWrite(h) \/ AcceptWrite(h) \/ WriteFiles(h)
        \/ Mark(h)
        \/ WriteCutShort(h) \/ Delete(h) \/ Purge(h)
    \/ Restart

Spec == Init /\ [][Next]_vars

----------------------------------------------------------------------------
(* Safety *)

\* A backup that GetManifest hands out is whole: the marker is there only
\* with the manifest and every chunk, although chunks may be written twice,
\* late, cut short and after a delete or a purge.  The one exception is a
\* directory removed while a write accepted for it was still to end.
CompleteIsWhole ==
    \A b \in Backups \ wiped :
        stored[b].complete => stored[b].manifest /\ stored[b].chunks = Chunks

\* What a person has stored never exceeds their quota ("the whole backup must
\* fit the quota", WriteChunk), unless two backups of theirs were begun at the same moment:
\* the quota is read before what counts against it is written.
QuotaKept ==
    ~overlapped => \A u \in Grantees :
        TotalBytes({b \in Backups : OwnerOf[b] = u /\ stored[b].manifest}) <= Quota

\* Lost otherwise than by its owner's delete.
Purged(b) ==
    /\ stored[b] # Empty /\ stored'[b] = Empty
    /\ ~\E h \in Handlers :
        /\ Deciding(h, "delete") /\ op[h].backup = b
        /\ step'[h] = "idle"

\* "Only an explicit, expired revocation ever deletes anyone's data"
\* (RefreshGrants): whatever older or newer list a refresh works on, nobody
\* loses data who has no row that was revoked and whose grace is over.
PurgedOnlyAfterGrace ==
    [][\A b \in Backups : Purged(b) =>
        \E n \in DOMAIN grants : grants[n].who = OwnerOf[b] /\ GraceOver(grants[n])]_vars

\* "Restore and delete stay allowed for 7 days" after a revocation: nobody's
\* data goes while another grant of theirs is active or within its grace.
RestorableForGrace ==
    [][\A b \in Backups : Purged(b) =>
        \A n \in DOMAIN grants : grants[n].who = OwnerOf[b] => GraceOver(grants[n])]_vars

\* A write accepted in this step.
Accepts(h) == step[h] = "deciding" /\ step'[h] = "writing"

\* Writes stop soon after a revocation even if no refresh ever arrives: the
\* cache ages from when a list was kept, not from when it was read, so the
\* bound is grantsMaxAge plus one fetch.
StalenessBounded ==
    [][\A h \in Handlers : Accepts(h) =>
        \E n \in DOMAIN grants :
            /\ grants[n].who = OwnerOf[op[h].backup]
            /\ grants[n].revokedAt # Active => now - grants[n].revokedAt <= MaxAge + FetchTime]_vars

\* "Writes fail immediately": no write that comes in after a refresh has told
\* the daemon of a revocation is accepted on that grant, unless a slow fetch
\* has put an older list back.  (StalenessBounded is what is left then.)
WritesStopOnRefresh ==
    [][\A h \in Handlers : Accepts(h) /\ ~reverted =>
        \E n \in DOMAIN grants :
            grants[n].who = OwnerOf[op[h].backup] /\ n \notin knew[h]]_vars
=============================================================================
