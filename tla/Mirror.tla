------------------------------- MODULE Mirror -------------------------------
(***************************************************************************)
(* Mirroring: what one person's folders should be doing on every Mac, as   *)
(* the service computes it from consent and grants (mirroring.py and the   *)
(* endpoints and tools in main.py), and the Macs and Casper's catcher that *)
(* follow it (mirrord/service.go, mirror/manager.go, mirror/catcher.go).   *)
(*                                                                         *)
(* The owner has two Macs, the one the folders live on and one to restore  *)
(* on.  One more Mac, shared by some friends, is to hold the copies; each  *)
(* friend's grant is a target of its own.  Requests run in threads: what   *)
(* one reads may have changed when it writes.  The Macs and the catcher    *)
(* only meet in the service's tables, so those that are on are given.      *)
(* Files, sizes, paths, history and a friend's catcher are left out.       *)
(***************************************************************************)
EXTENDS Naturals, FiniteSets, TLC

CONSTANTS
    Folders,
    Friends,        \* accounts paired with the Mac that holds copies
    Deciders,       \* answers to a consent the service works on at once
    Home, Spare,    \* the owner's Macs
    Shared,         \* the friends' Mac
    Catcher,        \* Casper's own, a server
    Awake,          \* sets of those that may be on
    Reported,       \* sets of Macs that may be in mirror_devices before
    Owner,          \* the account on the owner's Macs
    Grace,          \* how long a copy nobody wants is kept (7 days)
    MaxFailures,    \* bound: requests that fail
    Nothing         \* no step, no answer

ASSUME MirrorAssumption ==
    /\ Grace \in Nat /\ MaxFailures \in Nat
    /\ \A macs \in Reported : macs \subseteq {Home, Spare, Shared}

VARIABLES
    on,             \* the Macs that are on, and the catcher
    folder,         \* mirror_folders and their mirror_targets
    granted,        \* friends whose grant stands
    known,          \* Macs in mirror_devices
    starting,       \* folders whose approval is about to be created
    asked,          \* folders with a row in pending_approvals
    answer,         \* what each decider is at
    step,           \* the reconcile pass each Mac is in
    config,         \* what each Mac's Syncthing is set to
    copies,         \* directories under held/ on the friends' Mac
    orphaned,       \* the age of the marker in those that have one
    unheard,        \* time since the friends' Mac last heard a copy is wanted
    loop,           \* the pass Casper's catcher is in
    caught,         \* folders Casper's catcher is set to hold
    told,           \* folders somebody was told are stopped or declined
    raced,          \* those a consent was about to be written for just then
    failures

tableVars == <<folder, granted, known>>
consentVars == <<starting, asked, answer, told, raced>>
macVars == <<step, config, copies, orphaned, unheard>>
catcherVars == <<loop, caught>>
vars == <<on, tableVars, consentVars, macVars, catcherVars, failures>>

Macs == {Home, Spare, Shared}

Accounts(m) == IF m = Shared THEN Friends ELSE {Owner}

\* A pass that has not fetched anything yet.
Fresh(m) == [todo |-> Accounts(m), owned |-> {}, held |-> {}]

Statuses == {"none", "awaiting_consent", "active", "declined", "stopped"}
Row == [status : Statuses, targets : SUBSET Friends, catcher : BOOLEAN, restore : BOOLEAN]
Answering == [folder : Folders, allow : BOOLEAN, at : {"read", "write"}]
\* A folder its owner's Syncthing shares: the files with the friends' Mac, if
\* there is one, or the staging area with Casper's catcher.
Owning == [folder : Folders, kind : {"files", "staging"}, shared : BOOLEAN]
Desired == [todo : SUBSET (Friends \union {Owner}), owned : SUBSET Owning, held : SUBSET Folders]
Looping == [left : SUBSET Folders, wanted : SUBSET Folders]

TypeOK ==
    /\ folder \in [Folders -> Row] /\ granted \subseteq Friends /\ known \subseteq Macs
    /\ starting \subseteq Folders /\ asked \subseteq Folders
    /\ answer \in [Deciders -> Answering \union {Nothing}]
    /\ step \in [Macs -> Desired]
    /\ config \in [Macs -> [owned : SUBSET Owning, held : SUBSET Folders]]
    /\ copies \subseteq Folders /\ DOMAIN orphaned \subseteq copies
    /\ \A f \in DOMAIN orphaned : orphaned[f] \in 0 .. Grace
    /\ unheard \in [Folders -> 0 .. Grace]
    /\ loop \in Looping \union {Nothing} /\ caught \subseteq Folders
    /\ told \subseteq Folders /\ raced \subseteq Folders
    /\ failures \in 0 .. MaxFailures

Init ==
    /\ on \in Awake
    /\ folder = [f \in Folders |-> [status |-> "none", targets |-> {}, catcher |-> FALSE, restore |-> FALSE]]
    /\ granted = Friends /\ known \in Reported
    /\ starting = {} /\ asked = {} /\ answer = [d \in Deciders |-> Nothing]
    /\ step = [m \in Macs |-> Fresh(m)]
    /\ config = [m \in Macs |-> [owned |-> {}, held |-> {}]]
    /\ copies = {} /\ orphaned = <<>> /\ unheard = [f \in Folders |-> Grace]
    /\ loop = Nothing /\ caught = {}
    /\ told = {} /\ raced = {}
    /\ failures = 0

----------------------------------------------------------------------------
(* Starting, consenting, stopping *)

\* Grants the owner holds on the machines named.
MayTarget(targets) == targets # {} /\ targets \subseteq granted

Created(targets, catcher) ==
    [status |-> "awaiting_consent", targets |-> targets, catcher |-> catcher, restore |-> FALSE]

\* mirror_folder: the row and its targets are committed first.
StartFolder(f, targets, catcher) ==
    /\ folder[f].status = "none"
    /\ MayTarget(targets)
    /\ folder' = [folder EXCEPT ![f] = Created(targets, catcher)]
    /\ starting' = starting \union {f}
    /\ UNCHANGED <<on, granted, known, asked, answer, told, raced, macVars, catcherVars, failures>>

\* Then the approval, in a transaction of its own.
AskConsent(f) ==
    /\ f \in starting
    /\ starting' = starting \ {f}
    /\ asked' = asked \union {f}
    /\ UNCHANGED <<on, tableVars, answer, told, raced, macVars, catcherVars, failures>>

\* From the dialog, Telegram or the web: the row is read in one transaction
\* and deleted in the next.
ReadApproval(d, f, allow) ==
    /\ answer[d] = Nothing /\ f \in asked
    /\ answer' = [answer EXCEPT ![d] = [folder |-> f, allow |-> allow, at |-> "read"]]
    /\ UNCHANGED <<on, tableVars, starting, asked, told, raced, macVars, catcherVars, failures>>

CheckConsent_Gone(d) ==
    /\ answer[d] # Nothing /\ answer[d].at = "read"
    /\ asked' = asked \ {answer[d].folder}
    /\ answer' = [answer EXCEPT ![d].at = "write"]
    /\ UNCHANGED <<on, tableVars, starting, told, raced, macVars, catcherVars, failures>>

\* The row is deleted; then _decide_mirror_consent leaves alone what is no
\* longer waiting.
CheckConsent(d) ==
    /\ answer[d] # Nothing /\ answer[d].at = "read"
    /\ asked' = asked \ {answer[d].folder}
    /\ answer' = [answer EXCEPT ![d] =
            IF folder[answer[d].folder].status = "awaiting_consent"
            THEN [@ EXCEPT !.at = "write"] ELSE Nothing]
    /\ UNCHANGED <<on, tableVars, starting, told, raced, macVars, catcherVars, failures>>

\* An answer that others have read as still waiting.
Underway(f) ==
    \E d \in Deciders :
        answer[d] # Nothing /\ answer[d].folder = f /\ answer[d].at = "write" /\ answer[d].allow

Tell(f) ==
    /\ told' = told \union {f}
    /\ raced' = IF Underway(f) THEN raced \union {f} ELSE raced

WriteConsent(d) ==
    LET f == answer[d].folder IN
    /\ answer[d] # Nothing /\ answer[d].at = "write"
    /\ answer' = [answer EXCEPT ![d] = Nothing]
    /\ IF answer[d].allow
       THEN folder' = [folder EXCEPT ![f].status = "active"] /\ UNCHANGED <<told, raced>>
       ELSE folder' = [folder EXCEPT ![f].status = "declined"] /\ Tell(f)
    /\ UNCHANGED <<on, granted, known, starting, asked, macVars, catcherVars, failures>>

\* restore_folder and stop_mirroring update by its id what find_owned found
\* awaiting or active; it may be neither by then.
Found(f) == folder[f].status # "none"

Restore(f) ==
    /\ Found(f)
    /\ folder' = [folder EXCEPT ![f].restore = TRUE]
    /\ UNCHANGED <<on, granted, known, consentVars, macVars, catcherVars, failures>>

StopFolder(f) ==
    /\ Found(f)
    /\ folder' = [folder EXCEPT ![f].status = "stopped"]
    /\ Tell(f)
    /\ UNCHANGED <<on, granted, known, starting, asked, answer, macVars, catcherVars, failures>>

\* By the friend, or because the friendship ended.
Revoke(u) ==
    /\ u \in granted
    /\ granted' = granted \ {u}
    /\ UNCHANGED <<on, folder, known, consentVars, macVars, catcherVars, failures>>

\* The service stops in between: an approval not yet created never will be,
\* and an answer is lost.
LoseApproval(f) ==
    /\ f \in starting
    /\ starting' = starting \ {f}
    /\ UNCHANGED <<on, tableVars, asked, answer, told, raced, macVars, catcherVars, failures>>

LoseAnswer(d) ==
    /\ answer[d] # Nothing
    /\ answer' = [answer EXCEPT ![d] = Nothing]
    /\ UNCHANGED <<on, tableVars, starting, asked, told, raced, macVars, catcherVars, failures>>

----------------------------------------------------------------------------
(* What each Mac should be doing *)

Active == {f \in Folders : folder[f].status = "active"}

\* Targets whose grant still stands.
ActiveTargets(f) == folder[f].targets \intersect granted

\* Macs of the owner that others are told about.
OwnerDevices(f) == known \intersect ({Home} \union {m \in {Spare} : folder[f].restore})

\* The owner's side of desired_state.
OwnedOn(m) ==
    LET mine == {f \in Active : m = Home \/ folder[f].restore} IN
    {[folder |-> f, kind |-> "files", shared |-> ActiveTargets(f) # {} /\ Shared \in known] : f \in mine}
        \union {[folder |-> f, kind |-> "staging", shared |-> TRUE] : f \in {g \in mine : folder[g].catcher}}

\* The friend's side: held under the grants of that account.
HeldFor(u) == {f \in Active : u \in ActiveTargets(f) /\ OwnerDevices(f) # {}}

----------------------------------------------------------------------------
(* A Mac's reconcile pass *)

\* The configuration fetched for u is merged with those of the other accounts;
\* a folder whose password cannot be looked up is left out.
Hear(m, u, skipped) ==
    /\ step' = [step EXCEPT ![m] =
            [todo |-> @.todo \ {u},
             owned |-> @.owned \union IF u = Owner THEN {o \in OwnedOn(m) : o.folder \notin skipped} ELSE {},
             held |-> @.held \union IF u = Owner THEN {} ELSE HeldFor(u)]]
    /\ unheard' = [f \in Folders |-> IF u # Owner /\ f \in HeldFor(u) THEN 0 ELSE unheard[f]]

Report(m) == known' = known \union {m}

\* The device is reported, then the configuration is fetched.
Fetch(m, u) ==
    /\ u \in step[m].todo
    /\ Report(m) /\ Hear(m, u, {})
    /\ UNCHANGED <<on, folder, granted, consentVars, config, copies, orphaned, catcherVars, failures>>

\* Without its configuration an account counts for nothing in this pass; a
\* report that fails is only logged.
FetchFails(m, u) ==
    /\ u \in step[m].todo /\ failures < MaxFailures
    /\ failures' = failures + 1
    /\ \/ /\ Report(m) \/ UNCHANGED known
          /\ step' = [step EXCEPT ![m].todo = @ \ {u}]
          /\ UNCHANGED unheard
       \/ UNCHANGED known /\ Hear(m, u, {})
       \/ Report(m) /\ \E skipped \in SUBSET Folders : Hear(m, u, skipped)
    /\ UNCHANGED <<on, folder, granted, consentVars, config, copies, orphaned, catcherVars>>

CleanupOrphans_Marked(here, wanted) ==
    LET unwanted == {f \in here : f \notin wanted \/ f \in DOMAIN orphaned}
        gone == {f \in DOMAIN orphaned : f \notin wanted /\ orphaned[f] = Grace}
    IN  /\ copies' = here \ gone
        /\ orphaned' = [f \in unwanted \ gone |-> IF f \in DOMAIN orphaned THEN orphaned[f] ELSE 0]

\* A copy is marked the first time nobody wants it, unmarked when somebody
\* does, and deleted when the mark is old.
CleanupOrphans(here, wanted) ==
    LET gone == {f \in DOMAIN orphaned \ wanted : orphaned[f] = Grace} IN
    /\ copies' = here \ gone
    /\ orphaned' = [f \in here \ (wanted \union gone) |->
            IF f \in DOMAIN orphaned THEN orphaned[f] ELSE 0]

EndStep(m, here) ==
    /\ step' = [step EXCEPT ![m] = Fresh(m)]
    /\ IF m = Shared
       THEN CleanupOrphans(copies \union here, step[m].held)
       ELSE UNCHANGED <<copies, orphaned>>

Fetched(m) == step[m].todo = {}

Apply_Adds(m) ==
    /\ Fetched(m)
    /\ config' = [config EXCEPT ![m] =
            [owned |-> @.owned \union step[m].owned, held |-> @.held \union step[m].held]]
    /\ EndStep(m, step[m].held)
    /\ UNCHANGED <<on, tableVars, consentVars, unheard, catcherVars, failures>>

\* What is wanted is set, and whatever else is Casper's removed.
Apply(m) ==
    /\ Fetched(m)
    /\ config' = [config EXCEPT ![m] = [owned |-> step[m].owned, held |-> step[m].held]]
    /\ EndStep(m, step[m].held)
    /\ UNCHANGED <<on, tableVars, consentVars, unheard, catcherVars, failures>>

\* A PUT replaces the Syncthing folder of that id.
Put(have, some) ==
    some \union {o \in have : \A n \in some : n.folder # o.folder \/ n.kind # o.kind}

\* A directory cannot be made, a PUT is refused after some others, or a
\* DELETE is: what comes after it is left for the next pass.
ApplyFails(m) ==
    /\ Fetched(m) /\ failures < MaxFailures
    /\ failures' = failures + 1
    /\ \/ \E made \in SUBSET step[m].held : UNCHANGED config /\ EndStep(m, made)
       \/ /\ \E owned \in SUBSET step[m].owned, held \in SUBSET step[m].held :
                config' = [config EXCEPT ![m] =
                    [owned |-> Put(@.owned, owned), held |-> @.held \union held]]
          /\ EndStep(m, step[m].held)
       \/ /\ \E owned \in SUBSET config[m].owned, held \in SUBSET config[m].held :
                config' = [config EXCEPT ![m] =
                    [owned |-> Put(owned, step[m].owned), held |-> step[m].held \union held]]
          /\ EndStep(m, step[m].held)
    /\ UNCHANGED <<on, tableVars, consentVars, unheard, catcherVars>>

MacStep(m) ==
    \/ \E u \in Accounts(m) : Fetch(m, u)
    \/ Apply(m)

MacFails(m) == ApplyFails(m) \/ \E u \in Accounts(m) : FetchFails(m, u)

\* A day, or however long it takes the marks to age by one.
Tick ==
    /\ Shared \in on
    /\ \E f \in Folders : unheard[f] < Grace \/ (f \in DOMAIN orphaned /\ orphaned[f] < Grace)
    /\ orphaned' = [f \in DOMAIN orphaned |-> IF orphaned[f] < Grace THEN orphaned[f] + 1 ELSE Grace]
    /\ unheard' = [f \in Folders |-> IF unheard[f] < Grace THEN unheard[f] + 1 ELSE Grace]
    /\ UNCHANGED <<on, tableVars, consentVars, step, config, copies, catcherVars, failures>>

----------------------------------------------------------------------------
(* Casper's catcher *)

Catching == {f \in Active : folder[f].catcher /\ OwnerDevices(f) # {}}

\* reconcile_catcher reads the rows once ...
BeginLoop ==
    /\ loop = Nothing
    /\ loop' = [left |-> Catching, wanted |-> Catching]
    /\ UNCHANGED <<on, tableVars, consentVars, macVars, caught, failures>>

\* ... puts the folders one by one ...
PutFolder ==
    /\ loop # Nothing
    /\ \E f \in loop.left :
        /\ caught' = caught \union {f}
        /\ loop' = [loop EXCEPT !.left = @ \ {f}]
    /\ UNCHANGED <<on, tableVars, consentVars, macVars, failures>>

\* ... and deletes the others.
SweepFolders ==
    /\ loop # Nothing /\ loop.left = {}
    /\ caught' = loop.wanted
    /\ loop' = Nothing
    /\ UNCHANGED <<on, tableVars, consentVars, macVars, failures>>

LoopFails ==
    /\ loop # Nothing /\ failures < MaxFailures
    /\ failures' = failures + 1
    /\ loop' = Nothing
    /\ UNCHANGED <<on, tableVars, consentVars, macVars, caught>>

LoopStep == BeginLoop \/ PutFolder \/ SweepFolders

----------------------------------------------------------------------------
PersonNext ==
    \/ \E f \in Folders :
        \/ \E targets \in SUBSET Friends, catcher \in BOOLEAN : StartFolder(f, targets, catcher)
        \/ AskConsent(f) \/ LoseApproval(f) \/ Restore(f) \/ StopFolder(f)
        \/ \E d \in Deciders, allow \in BOOLEAN : ReadApproval(d, f, allow)
    \/ \E d \in Deciders : CheckConsent(d) \/ WriteConsent(d) \/ LoseAnswer(d)
    \/ \E u \in Friends : Revoke(u)

Next ==
    \/ PersonNext
    \/ \E m \in Macs \intersect on : MacStep(m) \/ MacFails(m)
    \/ Tick
    \/ Catcher \in on /\ (LoopStep \/ LoopFails)

\* Macs that are on go on reconciling every 15 seconds, and so does the
\* service with its catcher; requests fail only so often.
Fairness ==
    /\ \A m \in Macs : WF_vars(m \in on /\ MacStep(m))
    /\ WF_vars(Tick)
    /\ WF_vars(Catcher \in on /\ LoopStep)

Spec == Init /\ [][Next]_vars /\ Fairness

----------------------------------------------------------------------------
(* Safety *)

\* After "Stopped mirroring" or "Didn't start mirroring" a folder is never
\* mirrored again, whoever still answers the question and however often,
\* unless a consent was being written at that moment.
StopIsFinal == \A f \in told \ raced : folder[f].status # "active"

\* A friend's copy is deleted only after the grace period in which the Mac
\* never once heard that any account there is to hold it: however fetches
\* fail, grants of other accounts end and passes overlap with edits.
KeptWhileWanted == [][\A f \in copies \ copies' : unheard[f] = Grace]_vars

----------------------------------------------------------------------------
(* Liveness *)

WantedCopies == UNION {HeldFor(u) : u \in Friends}

InPlace ==
    /\ Shared \in on => config[Shared].held = WantedCopies /\ copies = WantedCopies
    /\ \A m \in {Home, Spare} \intersect on : config[m].owned = OwnedOn(m)
    /\ Catcher \in on => caught = Catching

\* Whatever was edited while Macs and catcher were reading it, and whatever
\* failed: in the end every Mac and the catcher do what consent and grants
\* say, and copies nobody may hold are gone.
Settles == <>[]InPlace
=============================================================================
