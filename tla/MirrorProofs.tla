---------------------------- MODULE MirrorProofs ----------------------------
(***************************************************************************)
(* What of Mirror holds for any folders, friends, answers at a time, grace *)
(* period and number of failures.                                          *)
(*                                                                         *)
(* Two invariants carry it.  A folder somebody was told is stopped keeps a *)
(* final status, and no consent is about to be written for it.  And the    *)
(* mark on a copy is never older than the time since the Mac last heard    *)
(* that the copy is wanted, unless it has just heard so: then the pass it  *)
(* is in ends by taking the mark away.                                     *)
(***************************************************************************)
EXTENDS Mirror, TLAPS

Final == {"declined", "stopped"}

StoppedStays == \A f \in told \ raced : folder[f].status \in Final /\ ~Underway(f)

MarksAreYoung ==
    \A f \in DOMAIN orphaned : f \in step[Shared].held \/ orphaned[f] <= unheard[f]

Inv == TypeOK /\ StoppedStays /\ MarksAreYoung

----------------------------------------------------------------------------
(* Types *)

LEMMA InitTyped == Init => TypeOK
<1> SUFFICES ASSUME Init PROVE TypeOK
  OBVIOUS
<1>0. Grace \in Nat /\ MaxFailures \in Nat
  BY MirrorAssumption
<1>1. folder \in [Folders -> Row]
  BY DEF Init, Row, Statuses
<1>2. known \subseteq Macs
  BY MirrorAssumption DEF Init, Macs
<1>3. step \in [Macs -> Desired]
  BY DEF Init, Fresh, Desired, Accounts
<1>4. config \in [Macs -> [owned : SUBSET Owning, held : SUBSET Folders]]
  BY DEF Init
<1>5. orphaned = <<>> /\ copies = {} /\ unheard \in [Folders -> 0 .. Grace]
  BY <1>0 DEF Init
<1>6. DOMAIN orphaned = {}
  BY <1>5
<1>7. answer \in [Deciders -> Answering \union {Nothing}]
  BY DEF Init
<1> QED BY <1>0, <1>1, <1>2, <1>3, <1>4, <1>5, <1>6, <1>7 DEF Init, TypeOK

LEMMA OwnedFits == ASSUME NEW m PROVE OwnedOn(m) \subseteq Owning
<1>1. \A f \in Active : f \in Folders
  BY DEF Active
<1>2. \A f \in Folders, s \in BOOLEAN, k \in {"files", "staging"} :
          [folder |-> f, kind |-> k, shared |-> s] \in Owning
  BY DEF Owning
<1>3. \A f : (ActiveTargets(f) # {} /\ Shared \in known) \in BOOLEAN
  OBVIOUS
<1> QED BY <1>1, <1>2, <1>3, Zenon DEF OwnedOn

LEMMA PutFits ==
    ASSUME NEW have \in SUBSET Owning, NEW some \in SUBSET Owning
    PROVE  Put(have, some) \in SUBSET Owning
BY DEF Put

LEMMA HeldFits == ASSUME NEW u PROVE HeldFor(u) \subseteq Folders
BY DEF HeldFor, Active

\* A pass ends: the marks are those of copies, and none too old.
LEMMA EndStepTyped ==
    ASSUME TypeOK, NEW m \in Macs, NEW here \in SUBSET Folders, EndStep(m, here)
    PROVE  /\ step' \in [Macs -> Desired]
           /\ copies' \subseteq Folders /\ DOMAIN orphaned' \subseteq copies'
           /\ \A f \in DOMAIN orphaned' : orphaned'[f] \in 0 .. Grace
<1>1. step' \in [Macs -> Desired]
  <2>1. Fresh(m) \in Desired
    BY DEF Fresh, Desired, Accounts
  <2> QED BY <2>1 DEF EndStep, TypeOK
<1>2. CASE m # Shared
  BY <1>1, <1>2 DEF EndStep, TypeOK
<1>3. CASE m = Shared
  <2> DEFINE all == copies \union here
             wanted == step[m].held
             gone == {f \in DOMAIN orphaned \ wanted : orphaned[f] = Grace}
  <2>1. /\ copies' = all \ gone
        /\ orphaned' = [f \in all \ (wanted \union gone) |-> IF f \in DOMAIN orphaned THEN orphaned[f] ELSE 0]
    BY <1>3 DEF EndStep, CleanupOrphans
  <2>2. copies' \subseteq Folders /\ DOMAIN orphaned' \subseteq copies'
    BY <2>1 DEF TypeOK
  <2>3. \A f \in DOMAIN orphaned' : orphaned'[f] \in 0 .. Grace
    BY <2>1, MirrorAssumption DEF TypeOK
  <2> QED BY <1>1, <2>2, <2>3
<1> QED BY <1>2, <1>3

LEMMA PersonTyped == ASSUME TypeOK, PersonNext PROVE TypeOK'
<1> USE DEF tableVars, consentVars, macVars, catcherVars
<1>1. ASSUME NEW f \in Folders, NEW targets \in SUBSET Friends, NEW catcher \in BOOLEAN,
             StartFolder(f, targets, catcher)
      PROVE  TypeOK'
  <2>1. Created(targets, catcher) \in Row
    BY DEF Created, Row, Statuses
  <2>2. folder' \in [Folders -> Row] /\ starting' \subseteq Folders
    BY <1>1, <2>1 DEF StartFolder, TypeOK
  <2> QED BY <1>1, <2>2 DEF StartFolder, TypeOK
<1>2. ASSUME NEW f \in Folders, AskConsent(f) PROVE TypeOK'
  BY <1>2 DEF AskConsent, TypeOK
<1>3. ASSUME NEW f \in Folders, LoseApproval(f) PROVE TypeOK'
  BY <1>3 DEF LoseApproval, TypeOK
<1>4. ASSUME NEW f \in Folders, Restore(f) PROVE TypeOK'
  <2>1. folder' \in [Folders -> Row]
    BY <1>4 DEF Restore, TypeOK, Row
  <2> QED BY <1>4, <2>1 DEF Restore, TypeOK
<1>5. ASSUME NEW f \in Folders, StopFolder(f) PROVE TypeOK'
  <2>1. folder' \in [Folders -> Row]
    BY <1>5 DEF StopFolder, TypeOK, Row, Statuses
  <2> QED BY <1>5, <2>1 DEF StopFolder, Tell, TypeOK
<1>6. ASSUME NEW f \in Folders, NEW d \in Deciders, NEW allow \in BOOLEAN, ReadApproval(d, f, allow)
      PROVE  TypeOK'
  <2>1. [folder |-> f, allow |-> allow, at |-> "read"] \in Answering
    BY DEF Answering
  <2>2. answer' \in [Deciders -> Answering \union {Nothing}]
    BY <1>6, <2>1 DEF ReadApproval, TypeOK
  <2> QED BY <1>6, <2>2 DEF ReadApproval, TypeOK
<1>7. ASSUME NEW d \in Deciders, CheckConsent(d) PROVE TypeOK'
  <2>1. answer[d] \in Answering
    BY <1>7 DEF CheckConsent, TypeOK
  <2>2. [answer[d] EXCEPT !.at = "write"] \in Answering
    BY <2>1 DEF Answering
  <2>3. PICK new \in Answering \union {Nothing} : answer' = [answer EXCEPT ![d] = new]
    BY <1>7, <2>2 DEF CheckConsent
  <2>4. answer' \in [Deciders -> Answering \union {Nothing}]
    BY <2>3 DEF TypeOK
  <2> QED BY <1>7, <2>4 DEF CheckConsent, TypeOK
<1>8. ASSUME NEW d \in Deciders, WriteConsent(d) PROVE TypeOK'
  <2>1. answer[d] \in Answering /\ answer[d].folder \in Folders
    BY <1>8 DEF WriteConsent, TypeOK, Answering
  <2>2. folder' \in [Folders -> Row]
    <3>1. PICK f \in Folders, status \in Statuses : folder' = [folder EXCEPT ![f].status = status]
      BY <1>8, <2>1 DEF WriteConsent, Statuses
    <3>2. folder[f] \in Row
      BY DEF TypeOK
    <3>3. [folder[f] EXCEPT !.status = status] \in Row
      BY <3>2 DEF Row
    <3> QED BY <3>1, <3>3 DEF TypeOK
  <2>3. answer' \in [Deciders -> Answering \union {Nothing}]
    BY <1>8 DEF WriteConsent, TypeOK
  <2>4. told' \subseteq Folders /\ raced' \subseteq Folders
    BY <1>8, <2>1 DEF WriteConsent, Tell, TypeOK
  <2> QED BY <1>8, <2>2, <2>3, <2>4 DEF WriteConsent, TypeOK
<1>9. ASSUME NEW d \in Deciders, LoseAnswer(d) PROVE TypeOK'
  BY <1>9 DEF LoseAnswer, TypeOK
<1>10. ASSUME NEW u \in Friends, Revoke(u) PROVE TypeOK'
  BY <1>10 DEF Revoke, TypeOK
<1> QED BY <1>1, <1>2, <1>3, <1>4, <1>5, <1>6, <1>7, <1>8, <1>9, <1>10 DEF PersonNext

\* What a configuration adds to a pass.
LEMMA HearTyped ==
    ASSUME TypeOK, NEW m \in Macs, NEW u, NEW skipped, Hear(m, u, skipped)
    PROVE  step' \in [Macs -> Desired] /\ unheard' \in [Folders -> 0 .. Grace]
<1> DEFINE owned == step[m].owned \union IF u = Owner THEN {o \in OwnedOn(m) : o.folder \notin skipped} ELSE {}
           held == step[m].held \union IF u = Owner THEN {} ELSE HeldFor(u)
<1>0. step[m] \in Desired
  BY DEF TypeOK
<1>1. owned \subseteq Owning /\ held \subseteq Folders
  BY <1>0, OwnedFits, HeldFits DEF Desired
<1>2. step' = [step EXCEPT ![m] = [todo |-> step[m].todo \ {u}, owned |-> owned, held |-> held]]
  BY DEF Hear
<1>3. step' \in [Macs -> Desired]
  BY <1>0, <1>1, <1>2 DEF TypeOK, Desired
<1>4. unheard' \in [Folders -> 0 .. Grace]
  BY MirrorAssumption DEF Hear, TypeOK
<1> QED BY <1>3, <1>4

LEMMA MacTyped == ASSUME TypeOK, NEW m \in Macs, MacStep(m) \/ MacFails(m) PROVE TypeOK'
<1> USE DEF tableVars, consentVars, macVars, catcherVars
<1>0. step[m] \in Desired
  BY DEF TypeOK
<1>1. ASSUME NEW u \in Accounts(m), Fetch(m, u) PROVE TypeOK'
  <2>1. Hear(m, u, {}) /\ Report(m)
    BY <1>1 DEF Fetch
  <2>2. step' \in [Macs -> Desired] /\ unheard' \in [Folders -> 0 .. Grace]
    BY <2>1, HearTyped
  <2> QED BY <1>1, <2>1, <2>2 DEF Fetch, Report, TypeOK
<1>2. ASSUME NEW u \in Accounts(m), FetchFails(m, u) PROVE TypeOK'
  <2>1. step' \in [Macs -> Desired] /\ unheard' \in [Folders -> 0 .. Grace]
    <3>1. CASE step' = [step EXCEPT ![m].todo = @ \ {u}] /\ UNCHANGED unheard
      BY <1>0, <3>1 DEF TypeOK, Desired
    <3>2. ASSUME NEW skipped, Hear(m, u, skipped)
          PROVE  step' \in [Macs -> Desired] /\ unheard' \in [Folders -> 0 .. Grace]
      BY <3>2, HearTyped
    <3> QED BY <1>2, <3>1, <3>2 DEF FetchFails
  <2>2. failures' \in 0 .. MaxFailures
    BY <1>2, MirrorAssumption DEF FetchFails, TypeOK
  <2>3. known' \subseteq Macs
    BY <1>2 DEF FetchFails, Report, TypeOK
  <2> QED BY <1>2, <2>1, <2>2, <2>3 DEF FetchFails, TypeOK
<1>3. CASE Apply(m)
  <2>1. step[m].held \in SUBSET Folders /\ EndStep(m, step[m].held)
    BY <1>0, <1>3 DEF Apply, Desired
  <2>2. config' \in [Macs -> [owned : SUBSET Owning, held : SUBSET Folders]]
    BY <1>0, <1>3 DEF Apply, TypeOK, Desired
  <2> QED BY <1>3, <2>1, <2>2, EndStepTyped DEF Apply, TypeOK
<1>4. CASE ApplyFails(m)
  <2>0. config[m].owned \subseteq Owning /\ config[m].held \subseteq Folders
        /\ step[m].owned \subseteq Owning /\ step[m].held \subseteq Folders
    BY <1>0 DEF TypeOK, Desired
  <2>1. PICK here \in SUBSET step[m].held : EndStep(m, here)
    BY <1>4 DEF ApplyFails
  <2>2. here \in SUBSET Folders
    BY <2>0
  <2>3. config' \in [Macs -> [owned : SUBSET Owning, held : SUBSET Folders]]
    <3>1. CASE UNCHANGED config
      BY <3>1 DEF TypeOK
    <3>2. ASSUME NEW owned \in SUBSET Owning, NEW held \in SUBSET Folders,
                 config' = [config EXCEPT ![m] = [owned |-> owned, held |-> held]]
          PROVE  config' \in [Macs -> [owned : SUBSET Owning, held : SUBSET Folders]]
      BY <3>2 DEF TypeOK
    <3>3. ASSUME NEW owned \in SUBSET step[m].owned, NEW held \in SUBSET step[m].held,
                 config' = [config EXCEPT ![m] = [owned |-> Put(@.owned, owned), held |-> @.held \union held]]
          PROVE  config' \in [Macs -> [owned : SUBSET Owning, held : SUBSET Folders]]
      <4> DEFINE all == Put(config[m].owned, owned)
                 holding == config[m].held \union held
      <4>1. all \in SUBSET Owning /\ holding \in SUBSET Folders
        BY <2>0, PutFits
      <4>2. config' = [config EXCEPT ![m] = [owned |-> all, held |-> holding]]
        BY <3>3
      <4> HIDE DEF all, holding
      <4> QED BY <3>2, <4>1, <4>2
    <3>4. ASSUME NEW owned \in SUBSET config[m].owned, NEW held \in SUBSET config[m].held,
                 config' = [config EXCEPT ![m] =
                     [owned |-> Put(owned, step[m].owned), held |-> step[m].held \union held]]
          PROVE  config' \in [Macs -> [owned : SUBSET Owning, held : SUBSET Folders]]
      <4> DEFINE all == Put(owned, step[m].owned)
                 holding == step[m].held \union held
      <4>1. all \in SUBSET Owning /\ holding \in SUBSET Folders
        BY <2>0, PutFits
      <4>2. config' = [config EXCEPT ![m] = [owned |-> all, held |-> holding]]
        BY <3>4
      <4> HIDE DEF all, holding
      <4> QED BY <3>2, <4>1, <4>2
    <3> QED BY <1>4, <3>1, <3>3, <3>4 DEF ApplyFails
  <2>4. failures' \in 0 .. MaxFailures
    BY <1>4, MirrorAssumption DEF ApplyFails, TypeOK
  <2> QED BY <1>4, <2>1, <2>2, <2>3, <2>4, EndStepTyped DEF ApplyFails, TypeOK
<1> QED BY <1>1, <1>2, <1>3, <1>4 DEF MacStep, MacFails

LEMMA OtherTyped == ASSUME TypeOK, Tick \/ LoopStep \/ LoopFails PROVE TypeOK'
<1> USE DEF tableVars, consentVars, macVars, catcherVars
<1>1. CASE Tick
  <2>1. \A f \in DOMAIN orphaned' : orphaned'[f] \in 0 .. Grace
    BY <1>1, MirrorAssumption DEF Tick, TypeOK
  <2>2. unheard' \in [Folders -> 0 .. Grace]
    BY <1>1, MirrorAssumption DEF Tick, TypeOK
  <2> QED BY <1>1, <2>1, <2>2 DEF Tick, TypeOK
<1>2. Catching \subseteq Folders
  BY DEF Catching, Active
<1>3. CASE BeginLoop
  BY <1>2, <1>3 DEF BeginLoop, TypeOK, Looping
<1>4. CASE PutFolder
  <2>1. loop \in Looping
    BY <1>4 DEF PutFolder, TypeOK
  <2> QED BY <1>4, <2>1 DEF PutFolder, TypeOK, Looping
<1>5. CASE SweepFolders
  BY <1>5 DEF SweepFolders, TypeOK, Looping
<1>6. CASE LoopFails
  BY <1>6, MirrorAssumption DEF LoopFails, TypeOK
<1> QED BY <1>1, <1>3, <1>4, <1>5, <1>6 DEF LoopStep

LEMMA NextTyped == TypeOK /\ [Next]_vars => TypeOK'
<1> SUFFICES ASSUME TypeOK, [Next]_vars PROVE TypeOK'
  OBVIOUS
<1>1. CASE UNCHANGED vars
  BY <1>1 DEF vars, tableVars, consentVars, macVars, catcherVars, TypeOK
<1> QED BY <1>1, PersonTyped, MacTyped, OtherTyped DEF Next

----------------------------------------------------------------------------
(* What was stopped *)

\* StoppedStays depends on nothing else.
LEMMA StoppedKept ==
    ASSUME StoppedStays, UNCHANGED <<told, raced>>, UNCHANGED answer,
           \A f \in told \ raced : folder'[f].status = folder[f].status \/ folder'[f].status \in Final
    PROVE  StoppedStays'
BY DEF StoppedStays, Underway

\* Who answers a question moves on: only an answer to what is still waiting
\* comes to be written.
LEMMA AnswerMoves ==
    ASSUME TypeOK, StoppedStays, UNCHANGED <<folder, told, raced>>,
           NEW d \in Deciders, NEW new, answer' = [answer EXCEPT ![d] = new],
           new = Nothing \/ new.at = "read" \/ folder[new.folder].status \notin Final
    PROVE  StoppedStays'
<1> SUFFICES ASSUME NEW f \in told \ raced
             PROVE  folder[f].status \in Final /\ ~Underway(f)'
  BY DEF StoppedStays
<1>1. folder[f].status \in Final /\ ~Underway(f)
  BY DEF StoppedStays
<1>2. \A e \in Deciders : answer'[e] = IF e = d THEN new ELSE answer[e]
  BY DEF TypeOK
<1> QED BY <1>1, <1>2 DEF Underway

\* Somebody is told: either no consent is being written, or it is one of
\* those that raced.
LEMMA TellKeeps ==
    ASSUME TypeOK, StoppedStays, NEW f \in Folders, NEW status \in Final,
           folder' = [folder EXCEPT ![f].status = status], Tell(f),
           \A g : Underway(g)' => Underway(g)
    PROVE  StoppedStays'
<1> SUFFICES ASSUME NEW g \in told' \ raced'
             PROVE  folder'[g].status \in Final /\ ~Underway(g)'
  BY DEF StoppedStays
<1>1. CASE g = f
  <2>1. folder'[g].status = status
    BY <1>1 DEF TypeOK, Row
  <2>2. ~Underway(g)
    BY <1>1 DEF Tell
  <2> QED BY <2>1, <2>2
<1>2. CASE g # f
  <2>1. g \in told \ raced
    BY <1>2 DEF Tell
  <2>2. folder'[g] = folder[g]
    BY <1>2, <2>1 DEF TypeOK
  <2> QED BY <2>1, <2>2 DEF StoppedStays
<1> QED BY <1>1, <1>2

LEMMA PersonKeepsStopped == ASSUME TypeOK, StoppedStays, PersonNext PROVE StoppedStays'
<1> USE DEF tableVars, consentVars
<1>0. \A f \in told \ raced : f \in Folders /\ folder[f].status \in Final
  BY DEF StoppedStays, TypeOK
<1>1. ASSUME NEW f \in Folders, NEW targets \in SUBSET Friends, NEW catcher \in BOOLEAN,
             StartFolder(f, targets, catcher)
      PROVE  StoppedStays'
  <2>1. f \notin told \ raced
    BY <1>0, <1>1 DEF StartFolder, Final
  <2>2. \A g \in told \ raced : folder'[g] = folder[g]
    BY <1>0, <1>1, <2>1 DEF StartFolder, TypeOK
  <2> QED BY <1>1, <2>2, StoppedKept DEF StartFolder
<1>2. ASSUME NEW f \in Folders, AskConsent(f) \/ LoseApproval(f) PROVE StoppedStays'
  BY <1>2, StoppedKept DEF AskConsent, LoseApproval
<1>3. ASSUME NEW f \in Folders, Restore(f) PROVE StoppedStays'
  <2>1. \A g \in told \ raced : folder'[g].status = folder[g].status
    BY <1>0, <1>3 DEF Restore, TypeOK, Row
  <2> QED BY <1>3, <2>1, StoppedKept DEF Restore
<1>4. ASSUME NEW f \in Folders, StopFolder(f) PROVE StoppedStays'
  <2>1. \A g : Underway(g)' => Underway(g)
    BY <1>4 DEF StopFolder, Underway
  <2>2. folder' = [folder EXCEPT ![f].status = "stopped"] /\ Tell(f)
    BY <1>4 DEF StopFolder
  <2> QED BY <2>1, <2>2, TellKeeps DEF Final
<1>5. ASSUME NEW f \in Folders, NEW d \in Deciders, NEW allow \in BOOLEAN, ReadApproval(d, f, allow)
      PROVE  StoppedStays'
  BY <1>5, AnswerMoves DEF ReadApproval
<1>6. ASSUME NEW d \in Deciders, CheckConsent(d) PROVE StoppedStays'
  <2>1. answer[d] \in Answering
    BY <1>6 DEF CheckConsent, TypeOK
  <2>2. CASE folder[answer[d].folder].status = "awaiting_consent"
    <3> DEFINE new == [answer[d] EXCEPT !.at = "write"]
    <3>1. new.folder = answer[d].folder
      BY <2>1 DEF Answering
    <3>2. answer' = [answer EXCEPT ![d] = new]
      BY <1>6, <2>2 DEF CheckConsent
    <3> HIDE DEF new
    <3>3. folder[new.folder].status \notin Final
      BY <2>2, <3>1 DEF Final
    <3> QED BY <1>6, <3>2, <3>3, AnswerMoves DEF CheckConsent
  <2>3. CASE folder[answer[d].folder].status # "awaiting_consent"
    <3>1. answer' = [answer EXCEPT ![d] = Nothing]
      BY <1>6, <2>3 DEF CheckConsent
    <3> QED BY <1>6, <3>1, AnswerMoves DEF CheckConsent
  <2> QED BY <2>2, <2>3
<1>7. ASSUME NEW d \in Deciders, WriteConsent(d) PROVE StoppedStays'
  <2> DEFINE f == answer[d].folder
  <2>1. answer[d] \in Answering /\ f \in Folders
    BY <1>7 DEF WriteConsent, TypeOK, Answering
  <2>2. \A e \in Deciders : answer'[e] = IF e = d THEN Nothing ELSE answer[e]
    BY <1>7 DEF WriteConsent, TypeOK
  <2>3. \A g : Underway(g)' => Underway(g)
    BY <2>2 DEF Underway
  <2>4. CASE answer[d].allow
    <3>1. Underway(f)
      BY <1>7, <2>4 DEF WriteConsent, Underway
    <3>2. f \notin told \ raced
      BY <3>1 DEF StoppedStays
    <3>3. folder' = [folder EXCEPT ![f].status = "active"] /\ UNCHANGED <<told, raced>>
      BY <1>7, <2>4 DEF WriteConsent
    <3>4. \A g \in told \ raced : folder'[g] = folder[g]
      BY <1>0, <3>2, <3>3 DEF TypeOK
    <3> QED BY <2>3, <3>3, <3>4 DEF StoppedStays
  <2>5. CASE ~answer[d].allow
    <3>1. folder' = [folder EXCEPT ![f].status = "declined"] /\ Tell(f)
      BY <1>7, <2>5 DEF WriteConsent
    <3> QED BY <2>1, <2>3, <3>1, TellKeeps DEF Final
  <2> QED BY <2>4, <2>5
<1>8. ASSUME NEW d \in Deciders, LoseAnswer(d) PROVE StoppedStays'
  BY <1>8, AnswerMoves DEF LoseAnswer
<1>9. ASSUME NEW u \in Friends, Revoke(u) PROVE StoppedStays'
  BY <1>9, StoppedKept DEF Revoke
<1> QED BY <1>1, <1>2, <1>3, <1>4, <1>5, <1>6, <1>7, <1>8, <1>9 DEF PersonNext

----------------------------------------------------------------------------
(* Copies and their marks *)

\* Hearing only adds to what the pass is to hold.
LEMMA HearKeepsMarks ==
    ASSUME TypeOK, MarksAreYoung, NEW m \in Macs, NEW u \in Accounts(m), NEW skipped,
           Hear(m, u, skipped), UNCHANGED orphaned
    PROVE  MarksAreYoung'
<1> SUFFICES ASSUME NEW f \in DOMAIN orphaned
             PROVE  f \in step'[Shared].held \/ orphaned[f] <= unheard'[f]
  BY DEF MarksAreYoung
<1>1. f \in step[Shared].held \/ orphaned[f] <= unheard[f]
  BY DEF MarksAreYoung
<1>2. f \in Folders /\ Shared \in Macs
  BY DEF TypeOK, Macs
<1>3. step'[Shared].held = IF m = Shared THEN step[m].held \union (IF u = Owner THEN {} ELSE HeldFor(u))
                                        ELSE step[Shared].held
  BY <1>2 DEF Hear, TypeOK
<1>4. CASE u # Owner /\ f \in HeldFor(u)
  <2>1. m = Shared
    BY <1>4 DEF Accounts
  <2> QED BY <1>3, <1>4, <2>1
<1>5. CASE ~(u # Owner /\ f \in HeldFor(u))
  <2>1. unheard'[f] = unheard[f]
    BY <1>2, <1>5 DEF Hear
  <2> QED BY <1>1, <1>3, <2>1
<1> QED BY <1>4, <1>5

\* A pass ends with no mark on what it was told to hold; new marks are zero.
LEMMA EndStepKeepsMarks ==
    ASSUME TypeOK, MarksAreYoung, NEW m \in Macs, NEW here \in SUBSET Folders, EndStep(m, here),
           UNCHANGED unheard
    PROVE  MarksAreYoung'
<1>1. CASE m # Shared
  <2>1. step'[Shared] = step[Shared] /\ orphaned' = orphaned
    BY <1>1 DEF EndStep, TypeOK, Macs
  <2> QED BY <2>1 DEF MarksAreYoung
<1>2. CASE m = Shared
  <2> DEFINE all == copies \union here
             wanted == step[m].held
             gone == {f \in DOMAIN orphaned \ wanted : orphaned[f] = Grace}
  <2>1. orphaned' = [f \in all \ (wanted \union gone) |-> IF f \in DOMAIN orphaned THEN orphaned[f] ELSE 0]
    BY <1>2 DEF EndStep, CleanupOrphans
  <2>2. ASSUME NEW f \in DOMAIN orphaned' PROVE orphaned'[f] <= unheard[f]
    <3>1. f \in all /\ f \notin wanted /\ f \in Folders
      BY <2>1 DEF TypeOK
    <3>2. orphaned'[f] = IF f \in DOMAIN orphaned THEN orphaned[f] ELSE 0
      BY <2>1
    <3>3. unheard[f] \in 0 .. Grace
      BY <3>1 DEF TypeOK
    <3> QED BY <1>2, <3>1, <3>2, <3>3 DEF MarksAreYoung
  <2> QED BY <2>2 DEF MarksAreYoung
<1> QED BY <1>1, <1>2

LEMMA TickKeepsMarks == ASSUME TypeOK, MarksAreYoung, Tick PROVE MarksAreYoung'
<1> SUFFICES ASSUME NEW f \in DOMAIN orphaned, f \notin step[Shared].held
             PROVE  orphaned'[f] <= unheard'[f]
  BY DEF Tick, MarksAreYoung
<1>1. f \in Folders /\ orphaned[f] <= unheard[f]
  BY DEF TypeOK, MarksAreYoung
<1>2. orphaned[f] \in 0 .. Grace /\ unheard[f] \in 0 .. Grace
  BY <1>1 DEF TypeOK
<1>3. orphaned'[f] = IF orphaned[f] < Grace THEN orphaned[f] + 1 ELSE Grace
  BY DEF Tick
<1>4. unheard'[f] = IF unheard[f] < Grace THEN unheard[f] + 1 ELSE Grace
  BY <1>1 DEF Tick
<1> QED BY <1>1, <1>2, <1>3, <1>4, MirrorAssumption

LEMMA MacKeepsMarks ==
    ASSUME TypeOK, MarksAreYoung, NEW m \in Macs, MacStep(m) \/ MacFails(m)
    PROVE  MarksAreYoung'
<1>0. step[m] \in Desired
  BY DEF TypeOK
<1>1. ASSUME NEW u \in Accounts(m), FetchFails(m, u) PROVE MarksAreYoung'
  <2>1. UNCHANGED orphaned
    BY <1>1 DEF FetchFails
  <2>2. CASE step' = [step EXCEPT ![m].todo = @ \ {u}] /\ UNCHANGED unheard
    <3>1. step'[Shared].held = step[Shared].held
      BY <1>0, <2>2 DEF TypeOK, Desired, Macs
    <3> QED BY <2>1, <2>2, <3>1 DEF MarksAreYoung
  <2>3. ASSUME NEW skipped, Hear(m, u, skipped) PROVE MarksAreYoung'
    BY <2>1, <2>3, HearKeepsMarks
  <2> QED BY <1>1, <2>2, <2>3 DEF FetchFails
<1>2. CASE Apply(m)
  <2>1. step[m].held \in SUBSET Folders
    BY <1>0 DEF Desired
  <2> QED BY <1>2, <2>1, EndStepKeepsMarks DEF Apply
<1>3. CASE ApplyFails(m)
  <2>1. PICK here \in SUBSET step[m].held : EndStep(m, here)
    BY <1>3 DEF ApplyFails
  <2>2. here \in SUBSET Folders
    BY <1>0, <2>1 DEF Desired
  <2> QED BY <1>3, <2>1, <2>2, EndStepKeepsMarks DEF ApplyFails
<1>4. ASSUME NEW u \in Accounts(m), Fetch(m, u) PROVE MarksAreYoung'
  BY <1>4, HearKeepsMarks DEF Fetch
<1> QED BY <1>1, <1>2, <1>3, <1>4 DEF MacStep, MacFails

----------------------------------------------------------------------------
LEMMA InitInv == Init => Inv
<1> SUFFICES ASSUME Init PROVE Inv
  OBVIOUS
<1>1. TypeOK
  BY InitTyped
<1>2. orphaned = <<>>
  BY DEF Init
<1>3. DOMAIN orphaned = {}
  BY <1>2
<1> QED BY <1>1, <1>3 DEF Init, Inv, StoppedStays, MarksAreYoung

LEMMA InvKept == Inv /\ [Next]_vars => Inv'
<1> SUFFICES ASSUME Inv, [Next]_vars PROVE Inv'
  OBVIOUS
<1> USE DEF Inv
<1>1. TypeOK'
  BY NextTyped
<1>2. CASE PersonNext
  <2>1. MarksAreYoung'
    BY <1>2 DEF PersonNext, StartFolder, AskConsent, LoseApproval, Restore, StopFolder, ReadApproval,
                CheckConsent, WriteConsent, LoseAnswer, Revoke, macVars, MarksAreYoung
  <2> QED BY <1>1, <1>2, <2>1, PersonKeepsStopped
<1>3. ASSUME NEW m \in Macs, MacStep(m) \/ MacFails(m) PROVE Inv'
  <2>1. UNCHANGED <<folder, told, raced, answer>>
    BY <1>3 DEF MacStep, MacFails, Fetch, FetchFails, Apply, ApplyFails, tableVars, consentVars
  <2> QED BY <1>1, <1>3, <2>1, MacKeepsMarks, StoppedKept
<1>4. CASE Tick
  <2>1. UNCHANGED <<folder, told, raced, answer>>
    BY <1>4 DEF Tick, tableVars, consentVars
  <2> QED BY <1>1, <1>4, <2>1, TickKeepsMarks, StoppedKept
<1>5. CASE LoopStep \/ LoopFails
  <2>1. UNCHANGED <<folder, told, raced, answer>> /\ UNCHANGED <<step, orphaned, unheard>>
    BY <1>5 DEF LoopStep, BeginLoop, PutFolder, SweepFolders, LoopFails, tableVars, consentVars, macVars
  <2> QED BY <1>1, <2>1, StoppedKept DEF MarksAreYoung
<1>6. CASE UNCHANGED vars
  BY <1>1, <1>6 DEF vars, tableVars, consentVars, macVars, StoppedStays, Underway, MarksAreYoung
<1> QED BY <1>2, <1>3, <1>4, <1>5, <1>6 DEF Next

\* Types, for every instance: whatever is interleaved with what.
THEOREM TypeCorrect == Spec => []TypeOK
<1>1. Inv => TypeOK
  BY DEF Inv
<1> QED BY <1>1, InitInv, InvKept, PTL DEF Spec

\* What somebody was told is stopped or declined is not mirrored again, with
\* any number of answers to the question under way, unless a consent was
\* just being written (record_consent, stop_mirroring).
THEOREM StoppedIsFinal == Spec => []StopIsFinal
<1>1. Inv => StopIsFinal
  BY DEF Inv, StoppedStays, StopIsFinal, Final
<1> QED BY <1>1, InitInv, InvKept, PTL DEF Spec

\* Only a pass of the friends' Mac deletes copies, and only marked ones as
\* old as the grace period, which it was not told to hold.
LEMMA OnlyOldGo ==
    ASSUME Inv, Next, NEW f \in copies \ copies'
    PROVE  unheard[f] = Grace
<1> USE DEF Inv
<1>1. f \in Folders /\ unheard[f] \in 0 .. Grace
  BY DEF TypeOK
<1>2. ASSUME NEW m \in Macs, NEW here \in SUBSET Folders, EndStep(m, here)
      PROVE  unheard[f] = Grace
  <2>1. m = Shared
    BY <1>2 DEF EndStep
  <2>2. f \in DOMAIN orphaned /\ f \notin step[Shared].held /\ orphaned[f] = Grace
    BY <1>2, <2>1 DEF EndStep, CleanupOrphans
  <2> QED BY <1>1, <2>2, MirrorAssumption DEF MarksAreYoung
<1>3. ASSUME NEW m \in Macs, MacStep(m) \/ MacFails(m) PROVE unheard[f] = Grace
  <2>1. step[m].held \subseteq Folders
    BY DEF TypeOK, Desired
  <2>2. PICK here \in SUBSET step[m].held : EndStep(m, here)
    BY <1>3 DEF MacStep, MacFails, Fetch, FetchFails, Apply, ApplyFails
  <2> QED BY <1>2, <2>1, <2>2
<1>4. PersonNext => copies' = copies
  BY DEF PersonNext, StartFolder, AskConsent, LoseApproval, Restore, StopFolder, ReadApproval,
         CheckConsent, WriteConsent, LoseAnswer, Revoke, macVars
<1>5. Tick \/ LoopStep \/ LoopFails => copies' = copies
  BY DEF Tick, LoopStep, BeginLoop, PutFolder, SweepFolders, LoopFails, macVars
<1> QED BY <1>3, <1>4, <1>5 DEF Next

\* A copy that any account's configuration has named within the grace period
\* is never deleted (CleanupOrphans), for any folders, accounts, failures.
THEOREM WantedCopiesStay == Spec => KeptWhileWanted
<1>1. Inv /\ [Next]_vars => [\A f \in copies \ copies' : unheard[f] = Grace]_vars
  <2> SUFFICES ASSUME Inv, Next PROVE \A f \in copies \ copies' : unheard[f] = Grace
    OBVIOUS
  <2> QED BY OnlyOldGo
<1> QED BY <1>1, InitInv, InvKept, PTL DEF Spec, KeptWhileWanted
=============================================================================
