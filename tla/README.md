# A verification of Casper's protocols

Casper lets people share machines: a small program (the *agent*, Go) runs on
each machine, a *service* (Python) keeps accounts, relationships and
approvals, and a *relay* (Go) connects the two, because agents sit behind
routers and only dial out. On top of that, friends give each other space for
encrypted backups and for mirrored folders, and people let a language model
run commands on their machines, under rules they write and approvals they give.

This directory models the parts of that system whose correctness depends on
the order in which things happen, checks them with TLC on small instances, and
proves what matters most with TLAPS for instances of any size.
`PROJECT.json` lists, for every definition, the source lines it models; for
every property, a change of the code that the run would notice; and, line by
line, the hazards the properties are about.

## 1. The system

### Components, their state and operations

| Component (source) | State it keeps | Operations | Module |
|---|---|---|---|
| Trust framework (`casper_service/trust.py`, handlers in `main.py`) | rows of `relation_tuples`, friend and access requests, offerings, invites | befriend, unfriend, offer, ask, grant, revoke, invite, redeem, take over, complete | `Trust` |
| Relay (`relay/internal/...`) | registry of connections, per connection an outbound channel and a map of pending requests | connect, register, displace, unregister, proxy a request, match an answer, time out | `Relay`, `RemoteCall` |
| Agent tunnel (`agent/internal/tunnel`) | its one connection, a goroutine per request | reconnect, serve a frame with a loopback call, drop out | `Relay` |
| Backup peer (`agent/internal/backup/peer.go`) | other people's chunks on disk, a cached grant list | authorize, write chunk, list, read, delete, refresh grants and purge | `PeerStore` |
| Backup orchestration (`casper_service/backups.py`) | table `backups`, transfer threads | push, decide, transfer, restore, delete | `Backups`, `Restore` |
| Backup owner (`agent/internal/backup/owner.go`) | staging directories, state of each preparation | prepare, status, read chunk, clean up; restore begin, chunk, unpack | `Backups` (staging), `Restore` |
| Pending approvals (`main.py`) | table `pending_approvals` | create, list, decide (site, agent, Telegram, harness) | `Approvals` for commands; `Backups`, `Mirror`, `Trust` for their kinds |
| Conversations (`casper_service/conversations.py`) | a turn held by the client or by a pending approval | step, call tools, pause, resume | `Approvals` (shell commands) |
| Harness chat (`harness/harness/cli.py`, `client.py`) | `chat_state.json` | chat, answer, quit, launch again; apply a policy file | `Approvals`, `Policy` |
| Pairing, presence, sign-out (`main.py`; `agent/cmd/casper/daemon.go`) | pairings, live hosts in memory; identities, tunnel keys and a session file | pair by code or link, report presence, sign out one or all, toggle, quit, resume | `Pairing` |
| Policy layers (`main.py`, `policy.py`, `commands/policy.go`, `daemon.go`) | layers, attachments, ordered rules; a machine's copy | create, edit, reorder, attach, apply a file; fetch; evaluate | `PolicyRules`, `Policy` |
| Database schema (`casper_service/db.py`) | tables and columns | `init_db`: rename, create, add | `Migrations` |
| Mirroring (`casper_service/mirroring.py`, `agent/internal/mirror*`) | folders, targets, known Macs; a Syncthing configuration, held copies and their marks | start, consent, restore, stop; reconcile, clean up orphans, the catcher's loop | `Mirror` |
| Accounts, tokens, environments, storage, guide, MCP server, site, tools | rows of their own | create, read, update, delete | not modelled |

### How they interact

* The service reaches an agent only through the relay: `POST
  /agent/{key}/api/command` becomes a frame on the agent's WebSocket, the agent
  makes a loopback call to its own server, and its answer travels back. A
  caller that times out cannot tell whether the agent acted. `RemoteCall` is
  that contract; `Relay` is shown to keep it. `Backups` and `Approvals` live with
  it: a chunk write or a command the service has given up on may still be
  carried out (`arriving`, `late`).
* An agent decides from what it fetched itself (grants, policy layers, desired
  mirrors), not from what a request says. The service nudges it to fetch again
  when something changes; between the two lies a copy with an age. `PeerStore`,
  `Policy` and `Mirror` are about those copies.
* People decide approvals: a row, created by one request and deleted by
  another, whose handler then looks at the state that is current by then.
* A turn of a conversation is a value: a client has a copy, a pause stores
  one, and either may be resumed.
* The service's endpoints are plain functions in a thread pool; nothing but
  single database transactions separates them. Transfers are threads.

### What is hard here, and what correctness means

* **Trust**: relations are rows that several paths insert and revoke. Friendship
  is two rows, of which readers look at one; an invite makes rows that another
  person's acceptance must undo, and only those; ending a friendship must end
  everything built on it.
* **Relay and tunnel**: connections break half-way, are displaced by newer
  ones, and unregister late. An answer must reach its own caller, nothing may
  leak or hang, the newer connection wins, and a request is carried out at most
  once.
* **Peer store**: decide first, write later, with a cache that is refilled
  without its lock. What is handed out must be whole, the quota must hold,
  writes must stop after a revocation, and nobody's data may be purged early.
* **Backups**: a row, an approval, two daemons and several threads, any of which
  may fail or be late. What needs permission waits for it, a denied backup stays
  denied, a complete one is stored, a deleted one is gone, a restored folder is
  whole, and transfers and restores end.
* **Approvals**: a command must not run without an answer of its own, although
  the turn that asks for it exists in several copies, machines answer late, and
  the service and the chat may stop at any moment; and the transcript must stay
  one the model accepts.
* **Pairing**: two views of who is signed in where, repaired on a 401 that may
  be old; names and tokens that travel apart; a session file written outside
  the lock. Credentials must stay with their owner, and heartbeats must make
  the two views agree in the end.
* **Policy**: the order of the rules decides, positions are computed before they
  are inserted, and a machine reads its layers one by one while they change.
* **Migrations**: every statement commits alone, and the service may be stopped
  between any two.
* **Mirroring**: a reconcile pass must not take a failed fetch for "nothing is
  wanted any more", and a stop must win over a consent.

## 2. Modules

| Module | What it is |
|---|---|
| `Trust`, `MCTrust`, `TrustProofs` | the relation table and everything that changes it; instance; theorems |
| `RemoteCall` | abstract: what a call through the relay promises |
| `Relay`, `MCRelay`, `RelayProofs` | relay and tunnel, goroutine by goroutine; instance; theorems, among them that it implements `RemoteCall` |
| `PeerStore`, `MCPeerStore`, `PeerStoreProofs` | the peer's side of backups; instances; theorems |
| `Backups`, `MCBackups`, `BackupsProofs` | a backup seen from the service; instance; theorems |
| `Restore` | extends `Backups` by restores: their threads, the owner's restore directory and the unpacking |
| `Consent` | abstract: what people are promised about commands on their machines |
| `Approvals`, `MCApprovals`, `ApprovalsProofs` | the tool-calling loop, its approvals and the chat; instance; theorems, among them that it implements `Consent` |
| `Pairing`, `MCPairing`, `PairingProofs` | pairing, presence and sign-out between service and daemon; instance; theorems |
| `PolicyRules` | what a list of layers answers for a command, as operators |
| `Policy`, `MCPolicy` | layers in the service, `policy apply`, and the machine's copy; instance |
| `Migrations`, `MCMigrations` | `init_db`, statement by statement; the schema |
| `PolicyTablesProofs` | theorems about the tables of the policy layers: those of `Migrations`, which renames them, and those of `Policy` |
| `Mirror`, `MCMirror`, `MirrorProofs` | folders, consent, reconcile passes and the catcher's loop; instance; theorems |

### Trust

`tuples` is the table `relation_tuples` in id order (rows are never deleted, only
revoked), `friendRequests`, `accessRequest`, `offering` and `invite` are the
other tables, reduced to what decisions read. Each function of `trust.py` runs in
one transaction of its handler and is one action: `CreateFriendRequest`,
`DecideFriendRequest`, `RemoveFriend`, `PublishOffering`, `WithdrawOffering`,
`CreateAccessRequest`, `DecideAccessRequest`, `RevokeGrant`, `CreateInvite`,
`OfferAndInvite` (the agent's tool does both), `RedeemInvite`,
`RedeemInviteAgain`, `CancelInvite`. `RedeemInvite` contains `release_invite` (an
unfinished invite taken over by another person) and the rollback of the whole
transaction when the grant is held already. `ProposeMirror` and
`DecideMirrorConsent` are the two places where mirroring reads or changes this
layer: consent completes invites. `told` is what the last reply or notification
claimed. A request and the approval that is created for it, a transaction later,
are one step here, and a decision is taken on what is pending whichever approval
brought it: no reader of these tables looks at the approval, and what may happen
between the two steps is in `Approvals`, `Backups` and `Mirror`. Quotas, tiers,
names and times are left out.

### RemoteCall and Relay

`RemoteCall` has two variables per request, how often it was carried out and what
the caller was told. In `Relay`, an HTTP handler is `Get`, `RefuseBody`,
`BeginDo`, `Enqueue`, `TakeAnswer`, `GiveUp`, `SeeClosed`; a connection's handler
is `Connect`, `Register`, `CloseReplaced`, then its read loop (`ReadAnswer`,
`HandOver`, `ReaderFails`) and `Unregister`; its write loop is `WriterSends`,
`WriterFails`, `WriterQuits`; the agent is `Loopback`, `AgentDisconnects` and
`AgentCrashes`. A step is what a goroutine does between two points where another
can interfere: the registry's mutex, the connection's mutex, a channel, the
socket. Frames under way back to the relay are a set, because the agent serves
each in a goroutine of its own.

### PeerStore

Each request is a *handler* that goes through `Begin` (use the cached list or
fetch), `Fetch`, `KeepList` (the list replaces the cached one) and then its own
action: `RefuseWrite` or `AcceptWrite`, `WriteFiles` and `Mark`; `Reply`; `Delete`;
`Purge`. `Mark` may fail to write the marker, which the code does not look at
(`peer.go:202`): the answer is "complete" all the same. `WriteCutShort` is a full disk or a crash in the middle, `Restart` the
daemon starting again with its files and an empty cache. `GiveGrant` and
`RevokeGrant` are the service's rows; `Tick` is the clock that the age of the
cache and the grace of a revocation are measured with. Time passes only while no
fetch exceeds its ten seconds (`FetchTime`) and no request hesitates between its
list and its decision, two adjacent statements in the code. Files are as the
code leaves them: `os.RemoveAll` is taken as one step, a chunk file is written or
not.

### Backups

`Push`, `Decide`, `Transfer` and `DeleteBackup` are the service's threads, split at
every database transaction and every daemon call. The source daemon is `prepares`
and `staged`; the peer is `stored`, a `tier` that changes at any time (`PeerStore`
is the module about why) and `arriving`, the chunk writes it has accepted and not
yet done; the marker that the last chunk brings may be missing (`Written`).
`ServiceRestarts` loses the threads and keeps the tables;
`SourceRestarts` loses the preparations and keeps the staged files. Deciding takes
an approval in two steps (`ReadApproval`, `TakeApproval`), as
`decide_pending_approval` and `_resume_pending_approval` do, and the handler then
reads the backup's row (`CheckWaiting`) and writes it (`Allow`, `Deny`) in two more.
Any number of deciders may be at any of these; `crossed` is the backups that two
of them found waiting before either had written.

### Restore

`Restore` extends `Backups`: its next-state relation has every step of `Backups`
beside its own, and a restart of the service or of the source is one step for
both. `restore` is the threads of `_restore`, split at every call; `restoreDir`,
`unpacking` and `folder` are the machine that decrypts: one directory per backup
for all restores of it, the goroutines of `Unpack`, and the folders they write,
named by `second`. A caller may give up on any call before the daemon has begun
it (`late`, carried out by `CallArrives` or lost), and on an unpack while it runs,
which then goes on. `StatFolder`, `MakeFolder` and `ExtractFile` are `extractTar`
with the chunk reader that opens one chunk file at a time; `UnpackFails` leaves a
torn file behind or not. Chunks come out as the manifest names them (hashes are
abstracted), file i is what chunk i holds, and all backups are of one folder, so
that two unpacks in a second always want the same name. `FetchManifest` and
`FetchChunk` fail (`RestoreFails`) once a delete or a purge has been there.

### Consent and Approvals

`Consent` has the machines' `policy`, per command the number of `permits` (answers
"allow" not used yet) and of `runs`; a step changes a policy, gives a permit, lets
permits lapse, or runs a command under "allow", or under "ask" for a permit.

In `Approvals` a `thread` is a request the service works on: `Say`, `CallTool`,
`StepAgain` (a client resumes the copy it was given, and says itself whether the
turn is mocked), `Decide` and `AnswerPrompt` begin one; `TakeRow` is the delete of `_resume_pending_approval`, a transaction
after the row was read; `CallModel`, `ModelFails`, `Dispatch` (`Ran`, `Asks` or
`CameToNothing`) and `CreateRow` are the loop; `Reply` is the response, and
`ChatHears` what the chat makes of it. Which
machines are connected is read when a request begins; one that answers too late
may still carry the call out (`late`, `ArriveLate`). `rows` and `open` are
`pending_approvals` with the turn in each, `told` the paused turns a client has a
copy of, `chat` and `saved` the chat of the harness with its state file (`Launch`,
`Quit`). `Restart` loses the threads and keeps the rows. Of the tools only
`run_shell_command` is modelled; what a model says, and what a command prints, is
left out. `ResolveHost` is the choice of the machine, with its three refusals.

### Pairing

One machine and several accounts. The service is `code` (the pairing code and who
approved it last), `pairing`, `live` (in memory, lost by `ServiceRestart`) and the
`signouts` under way, which clear `live` and the pairings in separate steps. The
daemon is `ident`, `served` (the keys its server accepts), `tunnel`, `enabled` and
`disk`; what it does outside its lock, in goroutines, is `adding` and `leaving`,
each with the snapshot it will write. A pairing saves the session file and then
enables (`SaveAdd`, `FinishAdd`); a sign-out saves it, drops the identity and, if
that was the last, stops the tunnel (`SaveLeave`, `FinishLeave`, `StopTunnel`); a
start that finds a session refused loads the file without it and saves that in a
step of its own (`dropping`, `SaveDrop`). `tunnel.Start` refuses only an empty
domain or routing key, which no pairing has, and so always succeeds. `exchanges` are `/hosts/pair` calls,
`reports` presence reports and clears: both overtake each other, and either may
be lost. `Heartbeat`, `HearRefusal` (the 401), `Toggle`, `Quit`, `Start` and
`Resume` are the daemon's own.

### PolicyRules and Policy

`PolicyRules` defines what a list of layers answers for a command: a pattern is the
set of values it matches, `RuleMatches` is the match on directory, positions and
options, `MatchPolicy` the first rule that matches, by layer id and position,
"deny" if none. `RuleFromYaml` is what `policy apply` makes of a file. The
definition stands for both implementations, `policy.py` and `policy.go`.

`Policy` has the tables (`owner`, `layers`, `attached`, `rules`), one request of
the web page and one `policy apply` at a time. Where a request reads before it
writes and the difference can be seen (the position of a new rule, the ids of a
reorder, the layer to attach) it is two steps. `StartApply` to `ApplyEnds` are
`apply_policy_layer`, one HTTP request per step, and may stop anywhere. The
daemon's copy is `cache`; `BeginFetch`, `ReadLayer` (one query per layer),
`EndFetch`, `FetchFails` and `Restart` replace it.

### Migrations

`tables` maps each table that exists to its columns, `holds` says under which name
the rows of each renamed table are. `Start` is the look at the two names; then
`RenameTable` and `RenameColumn`, `CreateTable`, the indexes, and `AddColumn`, one
statement a step; `Serve`. `Crash` stops the service between any two. A statement
that sqlite refuses leaves the service down. `MCMigrations` has the tables and
columns of `db.py` that some migration is about, and the databases that each
earlier version of the file would have left. All five of
the renaming statements are there.

### Mirror

`folder` is `mirror_folders` with its targets. `StartFolder` and `AskConsent` are two
transactions; `ReadApproval`, `CheckConsent` and `WriteConsent` are the three of an
answer; `Restore`, `StopFolder` and `Revoke` one each. `Restore` and `StopFolder` may
meet any row there ever was (`Found`): the code finds an active or awaiting one
and updates it by its id in the next transaction. `LoseApproval` and
`LoseAnswer` are a stop of the service between them. A Mac's pass reports the Mac
(`Report`) and fetches the desired state (`Hear`) for each of its accounts. Each of
the two may fail by itself: a report that fails is only logged, an identity that
cannot be fetched contributes nothing, and a folder whose password cannot be
looked up is skipped (`FetchFails`). Then the pass acts on what it has (`Apply`), or
on a part of it when a directory cannot be made, or Syncthing refuses a PUT or a
DELETE (`ApplyFails`), with `CleanupOrphans`: a held copy that is not wanted is marked, and deleted when the mark is older than the grace period; `Tick` is that clock.
`BeginLoop`, `PutFolder`, `SweepFolders` and `LoopFails` are the loop of Casper's
own catcher.

## 3. Runs

| Run | Instance | Question |
|---|---|---|
| `trust` | 3 people, 2 offerings of one owner, 2 invites, one into a group; 6 rows while people ask each other, 10 where invites are taken over | Is friendship mutual, do takeovers undo exactly what they should, does ending a friendship end everything, and have people the space they are told of? |
| `relay` | 1 agent, 2 connections, 2 requests, channel of 1 | Do answers match, nothing leak, the newer connection win, calls return, and does the relay implement `RemoteCall`? |
| `peer` | 3 scenes: 1 backup and 3 ticks; 2 backups of 2 chunks that do not fit together; 1 request at a time while space is given again | Is what is handed out whole, who is purged, do writes stop, and what can exceed the quota? |
| `peer_regrant` | 1 request at a time, space given again after a revocation | *violation*: an old revocation purges a person with an active grant |
| `backup` | 1 backup of 2 chunks, 2 transfer threads; 3 scenes: 1 decider, 2 deciders, 2 restores in 2 seconds | the whole life of a backup, with failures and restarts: does what is asked wait, is what is complete stored, what is restored whole, and does everything end? |
| `backup_race` | the same | *violation*: an approval is resolved twice |
| `approvals` | 2 commands on 1 machine, 2 requests at a time, 3 in all | Does a command run without an answer of its own, and does it implement `Consent`? |
| `pairing` | 2 accounts on 1 machine, 2 pairings in all | Do credentials stay with their owner, and do the two views agree in the end? |
| `policy` | 2 accounts, 3 layers, 3 rules, 2 fetches at a time | Is a machine's copy its account's own, and in force; is the order of rules total; does an apply give the file? |
| `migrate` | every earlier database, 2 stops | Does the service come up whole? |
| `migrate_crash` | the same | *violation*: a stop between two renames strands rows |
| `mirror` | 1 folder, 2 friends on one Mac, 2 answers at a time, grace 1, 2 failures | Does a stop win, is a wanted copy kept, do all machines settle? |

### Bounds

Bounds are chosen so that each hazard has its actors: two connections because
displacing needs two, two requests because ids and channels are shared, two
handlers because a race needs two, three people because taking over needs an
owner and two takers, two accounts because the other one's credential is what
could be mixed up. Named bounds:

* `MaxTuples` (rows of the relation table), `MaxTime` and `MaxRows` (clock and
  grants of `PeerStore`), `Kinds` (which requests a `PeerStore` instance is sent),
  `Jobs` (transfer threads at a time), `LastSecond` (of `Restore`: two seconds tell
  unpacks in the same second from unpacks in different ones), `Restores` (each
  restore is asked for once) and `Straight`: a restore is asked for only of a
  backup allowed at once whose thread has cleaned up, before any restart of the
  service or delete; both then happen while it runs. A restore reads nothing of
  how its backup came to be complete.
* `MaxRequests` (of `Approvals`: enough to pause, to resume the row and to resume
  a client's copy of it); each call is proposed once, which the model's own
  ids guarantee in the code.
* `MaxCreds`, `MaxReports`, `MaxTasks`, `MaxStops` (of `Pairing`): one pairing each
  or two of one account; the report and the goroutine under way are what another
  step overtakes. With one of each, two saves or two reports never overtake each
  other in this run; `IdentitiesAreOwners` and `StandingPairingStays` are proved for
  any number of them.
* `MaxLayers`, `MaxRules`, `MaxBegun` (of `Policy`); `MaxCrashes` (of `Migrations`);
  `MaxFailures` and `Grace` (of `Mirror`: one tick tells a mark that is young from
  one that is old).

`MaxRows` grants are enough for an old one and a new one of the same person. One
backup is enough for `Backups`, one folder for `Mirror`: rows and files of
different ones share nothing there.

Three instances are split into scenes, chosen by a variable `scene` of the MC
module in the first state, so that each keeps together what has to meet:

* `MCTrust`: in *asking* friend requests and access requests run beside the
  invites in a table of 6 rows; in *takeover* there are only the invites, and 10
  rows: enough for both to be redeemed and both to be taken over. The exception
  of `GrantOutlivesOnlyReleasedFriendship` needs 7.
* `MCPeerStore`: in *grace* two requests at a time meet one backup while its grant is
  given and revoked; in *quota* two requests, also deletes, meet two backups, at one
  instant, because no quota decision reads the clock; in *again* one request at a
  time, also a delete, goes on through a second grant.
* `MCBackups`: with *one* decider the backup is deleted at any time; with *two* it is
  deleted once it is complete; in *restore* the peer allows the backup at once and
  two restores meet. Everything else happens in each.

Some runs begin or move in a restricted way besides: `StorySpec` (of `MCTrust`) lets
one owner send a first invite together with its offering and the others do
everything else; `DrawnSpec` (of `MCPolicy`) starts from a reachable state with
layers, rules and attachments in place; `OrderedSpec` (of `MCRelay`) uses the
connections and the requests in the order of their names, as `StorySpec` (of
`MCBackups`) does with deciders, threads and restores, which loses no behaviour and
stands in for symmetry, unsound for liveness; `MCAwake` (of `MCMirror`) turns on one
of the three Macs or the catcher at a time, because they only meet in the
service's tables and those change by themselves. All runs set `CHECK_DEADLOCK FALSE`: in every instance there comes a
point at which the bounds are used up and nobody has to do anything more.

### What the passing runs show

* **Trust.** Friendship is mutual in every state. What an invite made and still
  stands belongs to its last acceptor. A takeover revokes only rows of the
  unfinished invite. Unfriending leaves no grant and no membership, in either
  direction. Exceptions the code has are part of the properties: a grant
  outlives its friendship only if *another* invite had made that friendship and
  was taken over; who is told of space lacks it only after a request decided
  once the friendship had ended, or after redeeming an unfinished invite again
  whose grant was revoked; a grant is held twice only through a request made
  before it and decided after it.
* **Relay.** The three safety properties, that calls return (on a closed connection
  always; from a full channel behind a dead write loop where deadlines pass), and
  the refinement.
* **Peer store.** Nobody loses data who has no grant that was revoked longer ago
  than the grace; that a newer grant does not help is `peer_regrant`. Three
  exceptions are part of the other properties. The quota is
  exceeded only by two first chunks accepted at the same moment. A write is
  accepted after a refresh only if a slow fetch put an older list back, and then
  for no longer than `MaxAge + FetchTime`: the age of the list counts from its
  arrival. The `complete` marker stands beside an incomplete backup only if the
  directory was removed while an accepted write was still to end.
* **Backups.** Nothing moves while a backup is asked for, `complete` means stored, and
  an `ask` tier is honoured for every chunk. A backup is transferred once, stays
  away once it was denied, and leaves nothing when it is deleted complete: however
  many decisions read the approval, unless two of them crossed (`backup_race`). A
  restore that was reported is whole and its own, although two
  restores of a backup ruin each other's directory: the loser fails. A delete
  of a backup that failed or is under way promises less: the thread goes on.
* **Approvals.** Every run of a command is under the policy of that moment and,
  where that asks, uses up an answer to that very command. Two answers to the
  same command are possible (the row decided twice at once, or a client's copy
  decided besides the row) and then it may run twice: `OneAnswerOneRun` says that
  this is the only way, and that a command denied once, with no other answer,
  never runs. Approvals are never lost.
* **Pairing.** No interleaving puts a credential under another account's name. An
  account whose first pairing stands is never signed out. A machine that stays
  on is shown and reached again and again; a dead identity goes.
* **Policy.** What a machine enforces for an account is made of that account's
  layers; after a fetch begun since the last edit it decides as the service says.
  The order of rules is total unless two requests changed a layer at once. An
  apply that nobody disturbs leaves the file.
* **Migrations.** From every earlier version, a service stopped anywhere outside
  the renames comes up with every table, column and row.
* **Mirroring.** A stop wins over every answer except one that was past its check
  at that moment. A copy is deleted only after a grace period in which none of
  the Mac's accounts was heard to want it. In the end machines do what the
  tables say.

### What the violation runs show

Each shows a statement of the repository that its code does not keep; the quoted
lines are in `PROJECT.json` under `findings`.

* `peer_regrant`: the grant list carries revoked rows, and both `findGrant` (first
  match) and the purge (any match) let an old one decide for a person who was
  given space again.
* `backup_race`: "so the same approval can't be resolved twice"
  (`main.py:1543-1545`) is said of a row that is read in one transaction (1610) and
  deleted, whether or not it is still there, in another (1548); then the handler
  runs, and `decide_write` (`backups.py:237`) checks and writes the backup's row in
  two transactions more. Two deciders who both found it waiting start two
  transfers, or move what one of them denied.
* `migrate_crash`: the look at two names decides for all renames; a service
  stopped after the first does the others never, creates empty tables under the
  new names, and people's rules stay where nothing reads them.

### Limits of the code the models show besides

Found while modelling, and kept in the models as exceptions or not at all, so that
what is left is what the code really promises:

* A peer that could not write its marker answers that the backup is complete
  (`peer.go:202`); the service lists it so, and no restore of it can begin.
* `push` announces an approval before its row says so (`backups.py:216`); a
  decision in between is used up without effect.
* A presence report of an old token, refused late, removes an identity paired
  again meanwhile (`daemon.go:521`); a sign-out under way closes the tunnel of an
  identity just added (`daemon.go:280`). Heartbeats and the next pairing repair it.
* A lost answer to `/hosts/pair` leaves a pairing in the service that the machine
  does not know of.
* A stopped folder cannot be restored, although a tool's text offers it
  (`main.py:3135`; `find_owned`, `mirroring.py:348`, finds active and awaiting
  ones only).
* While `policy apply` is under way the layer is weaker or stricter than either
  version.

## 4. Fairness

* `Relay!GoroutinesRun`: goroutines that can go on do, and loops notice that their
  connection was closed (the code closes the socket and the channel). Nothing
  makes an agent connect, a half-open connection show, or an agent answer.
  `DeadlinesPass`, an assumption of the second half of `CallsReturn` only, is the
  context deadline that every `Do` has (`wire.TimeoutFor`).
* `Backups!ThreadsRun`: threads of the service go on, because every call they make
  ends: `daemon_call` has a timeout of 30 s and never raises, and waiting for the
  source to encrypt has a deadline of 30 minutes. Nothing makes a person push,
  decide or delete, the source finish encrypting, or a chunk arrive. A restart of
  the service ends its threads; `JobsEnd` says so (`restarted`). The restore
  threads of `RestoreSpec` likewise; nothing makes the owner's daemon unpack.
* `Pairing!Fairness`: the heartbeat's ticker fires again and again, so a report
  that can be sent, and served, again and again is at some point (strong: a full
  `reports` set or a lost one disables it meanwhile); goroutines of the daemon
  end (weak). Nothing makes a person pair or a restart stop happening, but stops
  are bounded (`MaxStops`).
* `Migrations!Fairness`: the container restarts (`restart: unless-stopped`), and
  `init_db` goes on.
* `Mirror!Fairness`: Macs that are on and the catcher pass every 15 seconds, and
  time goes on. Failures are bounded: `Settles` is about what happens once they
  stop.
* `Trust`, `PeerStore`, `Approvals` and `Policy` have safety properties only.

## 5. Refinements

`Relay` implements `RemoteCall` (`KeepsPromise`), with the two variables mapped to
themselves: carried out at most once, answered only with what the agent answered,
never carried out after a refusal.

`Approvals` implements `Consent` (`KeepsConsent`), with `policy` mapped to `tier`,
`runs` to itself, and `permits` to the threads that are about to send a command
again with an answer plus the calls sent with one that have not arrived. A
decision is `Allow`; an answer denied, lost in a restart or spent on an unreachable
machine is `Lapse`; handing a call to a machine that does not answer moves its
permit from one set to the other.

Both are checked by TLC as properties and proved.

## 6. Proofs

TLAPS checks every theorem for any number of people, connections, requests and so
on. Assumptions are the named `ASSUME`s of the modules, which say that constants
have their types and that "nothing" values are not real ones; `ApprovalAssumption`
also says that the requests under way are finite, because permits are counted.

**Trust** (`TrustProofs`). `TypeCorrect`; then `FriendshipIsMutual`,
`InviteIsSingleUse` and `StrayGrantsAreReleasedFriendships` from one inductive
invariant, `TrustInv`. Mutual friendship alone is not inductive: a release revokes
rows by the invite that made them, so the invariant needs that the two directions
of a friendship were made by the same invite or by none
(`MirroredFriendship`). The argument treats the table as the set of its rows: what
revoking and appending do to that set are lemmas (`RowsOfRevoke`,
`TableAfterAccept`, ...), and each action is shown to keep the invariant from them.
`SpaceIsAsTold` (`SpaceAsTold`) is from `SpaceInv`, which adds to the property that
an invite somebody has used has left its row in the table, standing or revoked;
that is why redeeming it again can only repeat a promise whose grant was taken
away. `TakeoverIsContained` and
`UnfriendingIsComplete` are the two action properties: the first from what
`Usable` lets be released, the second from what `RowsBetween` names.

**Relay** (`RelayProofs`). `RelayTypeCorrect`; `AnswersReachTheirCallers` and
`PendingDoesNotLeak` from `FrameInv`, which says where the frames of a request can
be: its tag is its own on its connection, frames carry the tag of their request,
a request taken from the pending map has been answered or given up.
`ServingConnectionsAreSeen` is by `DisplacedIsBeingClosed`. `RelayKeepsPromise` is
the refinement: every step of `Relay` is a step of `RemoteCall` or changes neither
of its variables.

**PeerStore** (`PeerStoreProofs`). `TypesKept`; `MarkedIsWhole` from `Files`: a
directory only gains files unless it is removed whole, so a request that saw every
chunk and is about to write the marker is wrong only if a removal came between.
The theorems about grants rest on what an old list still tells. `ListsAreOlder`:
the rows of any list the daemon holds are rows of the service, and a revocation it
shows is final. `PurgesNeedAnExpiredGrant` (`PurgedOnlyAfterGrace`) needs only that,
and so holds however old the list is, also for people who were given space again:
what it says of them is what the code keeps, and run `peer_regrant` shows that it
keeps no more.
`RevocationTakesHold` needs `ListsAreRecent` too, which says of each revocation a
list misses how long ago it can have happened: the cache is stamped when a fetch
ends and not when the service answered, so the bound is `grantsMaxAge` plus the
timeout of one fetch. `RefreshStopsWrites` (`WritesStopOnRefresh`) is from
`RefreshHolds`: until an older list replaces the cache, what a refresh showed
revoked is revoked in the cache and in every list a request decides from.
`StoredFitsQuota` (`QuotaKept`) is from `QuotaInv`: no two first chunks of one
person are being written, and each one being written still has room for its whole
backup. It is about a sum over the backups, whose terms change one at a time; the
facts about such sums are lemmas, by a set with fewest elements among those they
would fail for, in place of an induction. It assumes of `NoList` that it is no
list (`NoListAssumption`).

**Backups** (`BackupsProofs`). `TypesKept`; `NothingMovesBeforeTheOwnerDecides`
from `Moving`: until push is done with a backup, and then while its row says
"awaiting_approval", no thread, file or write on its way belongs to it; and a
decision past the check of the row belongs to a backup push is done with, which is
why a row never returns to "awaiting_approval" behind a transfer. The argument is
one lemma per kind of change (`StepAwaits`, `StepStarts`, `StepDecides`,
`StepTells`, `StepUntouched`), each over all steps. `ChunksNeedTheirOwner` is the
action property `AskNeedsItsOwner`. `CompleteMeansStored` is from `Storing`: a
thread copies in order and waits for each chunk. `UncrossedDecisionsStartOnce` and
`UncrossedDenialStands` (`TransferredOnce`, `DenialIsFinal`) hold for any number of
deciders and excuse only backups that two of them found waiting at the same time:
of any others, at most one decision is past the check of the row, and it leaves
the row in a state that no later check lets through. `DeleteOfCompleteLasts`
(`DeletedIsRemoved`), with the same exception, is from `Removal`: a backup that is
complete, or that a delete found so, was transferred by one thread, which has
ended, and none of its writes is on its way; a write given up on belongs to a
transfer that failed, and a failed transfer is never followed by another.

`RestoresOnlyRead` is that `RestoreSpec` implements `Spec`: every step of `Restore` is
one of `Backups` or changes none of its variables, and the fairness is there, so
all theorems about `Spec` hold beside restores. `RestoresAreWhole` (`RestoredIsWhole`)
is from `Whole`: the files before the one a goroutine is about to write are its
own, because a file is only ever created where there is none, and what is created
stays. It needs nothing about the shared directory or the name of the folder.
`RestoreTypesKept` is the type invariant.

**Approvals** (`ApprovalsProofs`). The invariant, `Inv`, is about every copy of a
turn (`Sound`): its answered and pending calls make up one list that was proposed,
and it has a call in front wherever one is waited for, stored or sent. It gives
`TypeCorrect`, `TranscriptsMatch` and `AnswersClose`; for the last it also says
that a thread that has read a row holds the turn stored in it, so that the answer
it accepts is one to the row it deletes. `CommandsKeepConsent` is the refinement: each kind
of step is shown to add one, keep, or take away one of the answers that may still
be used (`UsableGains`, `UsableShrinks`, `UsableSpent`, `UsableArrives`,
`UsableHandedOver`), by cardinalities of finite sets. `AnswersRunOnce`
(`OneAnswerOneRun`) is from `OnceInv`: as long as no call was answered twice, what
may still make it run is one thing at most (a thread that carries its answer, an
approval not answered yet, or a message that may arrive late), and nothing once it
ran or was denied.

**Pairing** (`PairingProofs`). `TypeCorrect`, `IdentitiesAreOwners` and
`StandingPairingStays`. The invariant says that wherever a credential is kept or on
its way under a name, the service gave it to that account, and that a report that
was refused, like a sign-out under way, names a credential whose pairing has
ended: for ever, because credentials are never reused.

**Migrations** (`PolicyTablesProofs`). `TypeCorrect` and `MigrationServesWhole`, from
`Shape`: wherever `init_db` is, the renames before the current one are done and
those after have not begun, no table lacks a column that nothing will add, and
everything up to the current statement is there. Only a stop among the renames
breaks it; after any other, the database is one an earlier version might have
left.

**Policy** (`PolicyTablesProofs`). Sorting comes first: `InOrder` puts the k-th
element where k - 1 come before it, and `InOrderLists` and `InOrderIs` say that for a
strict total order on a finite set this lists every element once, in order, and
is the only list that does (by counting what lies below each). The model sorts with
it and not with `SortSeq`, of which nothing could be proved. Then:

* `PolicyTypeCorrect`, with `Known`: whatever is written or about to be is about
  layers that were made, and a new order is one of its own layer's rules.
* `OrderStaysTotal` (`OrderIsTotal`) from `OrderInv`. That positions differ is not
  inductive: it also needs, of a layer nobody raced for, that a rule about to be
  added goes behind all there are and that an order about to be written has all of
  them.
* `CopyIsInForce` (`RefreshedIsInForce`) from `FreshInv`: what a fetch has got that no
  edit has come after, with what the layers it has still to read say now, is all
  there is to fetch. An edit drops the claim, and what is no edit leaves all of it
  as it was. A verdict depends on the set of layers and not on the order they come
  in (`MatchesBySet`).
* `ApplyLeavesFile` (`ApplyGivesFile`) from `ApplyInv`: an apply that has its layer for
  itself has sent off the first k rules of the file, the layer holds those with the
  positions 0 to k - 1 and nothing else, but for the one under way. Its steps either
  advance that (`ProgressAdds`, `ProgressInserts`, ...) or leave the layer alone
  (`Leaves`).

Besides the types of the constants they assume of `File` that it is a list and that
its rules load, and of `Nobody` that it is no request and no fetch.

**Mirror** (`MirrorProofs`). `TypeCorrect`; `StoppedIsFinal` from `StoppedStays`, that
a folder somebody was told is stopped keeps a final status and no consent is
about to be written for it; `WantedCopiesStay` from `MarksAreYoung`, that the mark
on a copy is never older than the time since the Mac last heard that the copy is
wanted, unless it has just heard so in the pass it is in.

The type invariants of these modules are proved and therefore in no run.

**Only model-checked:** all liveness (out of the prover's reach): `CallsReturn`,
`JobsEnd`, `OnMacShows`, `DeadIdentityGoes`, `ComesUp`, `Settles`.

## 7. Plan

Done: the modules above. Left, most important first:

1. `Backups` with `PeerStore`: a purge the service's rows do not know of; and
   `Backups` over `RemoteCall` (its `arriving` is what a call given up on may
   still do).
2. Torn files: a chunk, a session or a chat state cut short by a crash.

## 8. What is not modelled

Cryptography and key storage; the operating system glue of the agent (dialogs,
keychain, login items, Seatbelt); Syncthing itself; the language model behind
conversations, and its tools other than shell commands (storage, memory and mail
end in one answer each); texts (guide, mails, tool descriptions); accounts and
tokens, environments and storage endpoints, which are single transactions on rows
of their own; staging for a catcher, and a friend's catcher;
status reports and history of mirrors; resolving paths and matching regular
expressions in policies; tests, tools and site. Sizes, hashes, signatures and
names are abstracted wherever a property does not depend on them. A chunk file
torn by a crash is a hazard listed and not modelled: it needs a second transfer of
the same backup to be overwritten. A crash that loses a request whose approval was
never created is in `Mirror` (`LoseApproval`) and listed for the other kinds.
