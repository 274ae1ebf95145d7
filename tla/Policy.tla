------------------------------- MODULE Policy -------------------------------
(***************************************************************************)
(* Policy layers: written by people in the service (main.py), by the web   *)
(* page or by `casper policy apply` (harness/client.py), and enforced by a *)
(* machine's daemon from its own copy (daemon.go, commands/policy.go).     *)
(*                                                                         *)
(* Here is one machine that several accounts share.  Requests run in       *)
(* threads; sqlite puts the writes of one in a transaction, but what it    *)
(* reads before them is read outside.  Where that can be told apart (the   *)
(* position of a new rule, the rules of a new order, the layer that is     *)
(* attached) the read and the write are two steps.  An update or delete of *)
(* a row that is gone by then does nothing, so those are one.              *)
(***************************************************************************)
EXTENDS PolicyRules, FiniteSetsExt

CONSTANTS
    Users,          \* accounts paired with the machine
    Names,          \* names of layers: numbers, the service sorts by name
    Rules,          \* what a rule may say
    Calls,          \* commands that are decided
    FileName,       \* the layer `casper policy apply` writes, of each user
    File,           \* and the rules in its file, as they are written
    Requests,       \* requests the service works on at the same time
    Cli,            \* the one that carries out the steps of an apply
    Fetches,        \* fetches the daemon makes at the same time
    MaxLayers,      \* bound: layers ever made
    MaxRules,       \* bound: rules ever made
    MaxBegun,       \* bound: requests and applies begun
    Nobody          \* no request, no fetch

LayerIds == 1 .. MaxLayers
Row == [layer : LayerIds, pos : Nat, says : Rules]
Insertion == [do : {"insert"}, layer : LayerIds, pos : Nat, says : Rules]
Attachment == [do : {"attach"}, layer : LayerIds]
Reordering == [do : {"reorder"}, layer : LayerIds, order : Seq(1 .. MaxRules)]
Sent == [id : LayerIds, rules : Seq(Rules)]
Fetching == [user : Users, todo : Seq(LayerIds), got : Seq(Sent), current : BOOLEAN]

ASSUME PolicyAssumption ==
    /\ Names \subseteq Nat /\ FileName \in Names
    /\ File \in Seq(Range(File))
    /\ \A k \in DOMAIN File : RuleFromYaml(File[k]) \in Rules
    /\ Nobody \notin Insertion \union Attachment \union Reordering \union Fetching
    /\ Cli \in Requests
    /\ MaxLayers \in Nat /\ MaxRules \in Nat /\ MaxBegun \in Nat

VARIABLES
    owner,          \* policy_layers.user_id of every layer ever made, by id
    layers,         \* the names of those that are there, by id
    attached,       \* policy_layer_hosts, for this machine
    rules,          \* policy_layer_rules, by id
    made,           \* how many there ever were
    request,        \* what each request has read and is about to write
    apply,          \* the apply that runs or ran last
    begun,          \* how many requests and applies there were
    fetch,          \* the fetches under way
    cache,          \* Handler.policyLayers of each identity
    current,        \* identities whose copy was fetched after the last edit
    raced           \* layers whose order two requests changed at the same time

tableVars == <<owner, layers, attached, rules, made>>
daemonVars == <<fetch, cache, current>>
policyVars == <<tableVars, request, apply, begun, daemonVars, raced>>

Applies(parts, users) ==
    [at : parts, user : users, layer : 0 .. MaxLayers, old : SUBSET (1 .. MaxRules),
     left : Seq(Rules), alone : BOOLEAN]
Applying ==
    Applies({"idle"}, {Nobody}) \union Applies({"creating", "emptying", "filling", "done"}, Users)
NoApply == [at |-> "idle", user |-> Nobody, layer |-> 0, old |-> {}, left |-> <<>>, alone |-> FALSE]

PolicyTypeOK ==
    /\ owner \in Seq(Users) /\ Len(owner) <= MaxLayers
    /\ DOMAIN layers \subseteq DOMAIN owner /\ Range(layers) \subseteq Names
    /\ attached \subseteq DOMAIN owner
    /\ made \in 0 .. MaxRules
    /\ DOMAIN rules \subseteq 1 .. made /\ Range(rules) \subseteq Row
    /\ request \in [Requests -> Insertion \union Attachment \union Reordering \union {Nobody}]
    /\ apply \in Applying
    /\ begun \in 0 .. MaxBegun
    /\ fetch \in [Fetches -> Fetching \union {Nobody}]
    /\ cache \in [Users -> Seq(Sent)]
    /\ current \subseteq Users /\ raced \subseteq LayerIds

PolicyInit ==
    /\ owner = <<>> /\ layers = <<>> /\ attached = {}
    /\ rules = <<>> /\ made = 0
    /\ request = [q \in Requests |-> Nobody]
    /\ apply = NoApply /\ begun = 0
    /\ fetch = [f \in Fetches |-> Nobody]
    /\ cache = [u \in Users |-> <<>>]
    /\ current = {} /\ raced = {}

----------------------------------------------------------------------------
(* What is in the tables *)

Present == DOMAIN layers

\* Inserted: a row with a new id.
With(table, id, row) == [i \in DOMAIN table \union {id} |-> IF i = id THEN row ELSE table[i]]

Named(u, name) == {l \in Present : owner[l] = u /\ layers[l] = name}

RuleIds(l) == {id \in DOMAIN rules : rules[id].layer = l}

\* ORDER BY position; equal ones come as they were made.
Before(a, b) == rules[a].pos < rules[b].pos \/ (rules[a].pos = rules[b].pos /\ a < b)

RulesOf(l) ==
    LET ids == InOrder(RuleIds(l), {p \in RuleIds(l) \X RuleIds(l) : Before(p[1], p[2])})
    IN  [k \in DOMAIN ids |-> rules[ids[k]].says]

NextPosition_Count(l) == Cardinality(RuleIds(l))

\* COALESCE(MAX(position), -1) + 1
NextPosition(l) == Max({0} \union {rules[id].pos + 1 : id \in RuleIds(l)})

\* What the table changed for: no fetch that has begun shows all of it.
Edited ==
    /\ current' = {}
    /\ fetch' = [f \in Fetches |->
            IF fetch[f] = Nobody THEN Nobody ELSE [fetch[f] EXCEPT !.current = FALSE]]
    /\ UNCHANGED cache

\* And whose apply is no longer alone with its layer.
EditedBy(q, l) ==
    /\ Edited
    /\ apply' = [apply EXCEPT !.alone = @ /\ (q = Cli \/ apply.layer # l)]

Web == Requests \ {Cli}

\* A request that q may take up.
Free(q) ==
    /\ request[q] = Nobody
    /\ begun < MaxBegun
    /\ begun' = begun + 1

----------------------------------------------------------------------------
(* Layers *)

CreateLayer(q, u, name) ==
    /\ Free(q)
    /\ Len(owner) < MaxLayers
    /\ Named(u, name) = {}
    /\ owner' = Append(owner, u)
    /\ layers' = With(layers, Len(owner) + 1, name)
    /\ UNCHANGED <<attached, rules, made, request, apply, daemonVars, raced>>

\* UNIQUE (user_id, name) refuses a name that is taken.
RenameLayer(q, l, name) ==
    /\ Free(q)
    /\ Named(owner[l], name) = {}
    /\ layers' = [layers EXCEPT ![l] = name]
    /\ UNCHANGED <<owner, attached, rules, made, request, apply, daemonVars, raced>>

DeleteLayer(q, l) ==
    /\ Free(q)
    /\ attached' = attached \ {l}
    /\ rules' = Restrict(rules, DOMAIN rules \ RuleIds(l))
    /\ layers' = Restrict(layers, Present \ {l})
    /\ EditedBy(q, l)
    /\ UNCHANGED <<owner, made, request, raced>>

\* The layer is the caller's, and there.
CheckAttach(q, l) ==
    /\ Free(q)
    /\ request' = [request EXCEPT ![q] = [do |-> "attach", layer |-> l]]
    /\ UNCHANGED <<tableVars, apply, daemonVars, raced>>

Attach(q) ==
    /\ request[q] # Nobody /\ request[q].do = "attach"
    /\ attached' = attached \union {request[q].layer}
    /\ request' = [request EXCEPT ![q] = Nobody]
    /\ Edited
    /\ UNCHANGED <<owner, layers, rules, made, apply, begun, raced>>

Detach(q, l) ==
    /\ Free(q)
    /\ l \in attached
    /\ attached' = attached \ {l}
    /\ Edited
    /\ UNCHANGED <<owner, layers, rules, made, request, apply, raced>>

----------------------------------------------------------------------------
(* Rules *)

PlaceRule(q, l, says) ==
    request' = [request EXCEPT ![q] =
        [do |-> "insert", layer |-> l, pos |-> NextPosition(l), says |-> says]]

CheckInsert(q, l, says) ==
    /\ Free(q)
    /\ PlaceRule(q, l, says)
    /\ UNCHANGED <<tableVars, apply, daemonVars, raced>>

Overlaps(q, l) ==
    \E other \in Requests \ {q} :
        request[other] # Nobody /\ request[other].do # "attach" /\ request[other].layer = l

\* Another request has read the order of this layer and not yet written.
Race(q, l) == raced' = IF Overlaps(q, l) THEN raced \union {l} ELSE raced

Insert(q) ==
    LET row == request[q] IN
    /\ row # Nobody /\ row.do = "insert"
    /\ made < MaxRules
    /\ made' = made + 1
    /\ rules' = With(rules, made + 1, [layer |-> row.layer, pos |-> row.pos, says |-> row.says])
    /\ request' = [request EXCEPT ![q] = Nobody]
    /\ Race(q, row.layer)
    /\ EditedBy(q, row.layer)
    /\ UNCHANGED <<owner, layers, attached, begun>>

UpdateRule(q, id, says) ==
    /\ Free(q)
    /\ rules' = [rules EXCEPT ![id].says = says]
    /\ EditedBy(q, rules[id].layer)
    /\ UNCHANGED <<owner, layers, attached, made, request, raced>>

DeleteRule(q, id) ==
    /\ Free(q)
    /\ rules' = Restrict(rules, DOMAIN rules \ {id})
    /\ EditedBy(q, rules[id].layer)
    /\ UNCHANGED <<owner, layers, attached, made, request, raced>>

\* The order is one of exactly the rules there are.
CheckReorder(q, l, order) ==
    /\ Free(q)
    /\ request' = [request EXCEPT ![q] = [do |-> "reorder", layer |-> l, order |-> order]]
    /\ UNCHANGED <<tableVars, apply, daemonVars, raced>>

Reorder(q) ==
    LET order == request[q].order IN
    /\ request[q] # Nobody /\ request[q].do = "reorder"
    /\ rules' = [id \in DOMAIN rules |->
            IF id \in Range(order)
            THEN [rules[id] EXCEPT !.pos = (CHOOSE n \in DOMAIN order : order[n] = id) - 1]
            ELSE rules[id]]
    /\ request' = [request EXCEPT ![q] = Nobody]
    /\ Race(q, request[q].layer)
    /\ EditedBy(q, request[q].layer)
    /\ UNCHANGED <<owner, layers, attached, made, begun>>

----------------------------------------------------------------------------
(* casper policy apply: a list, then one request after the other *)

\* The file is read first.
Loaded == [n \in DOMAIN File |-> RuleFromYaml(File[n])]

ApplyTo(u, l, at, old) ==
    apply' = [at |-> at, user |-> u, layer |-> l, old |-> old, left |-> Loaded, alone |-> TRUE]

StartApply_OnTop(u) ==
    /\ apply.at \in {"idle", "done"} /\ begun < MaxBegun
    /\ begun' = begun + 1
    /\ IF Named(u, FileName) = {}
       THEN ApplyTo(u, 0, "creating", {})
       ELSE \E l \in Named(u, FileName) : ApplyTo(u, l, "filling", {})
    /\ UNCHANGED <<tableVars, request, daemonVars, raced>>

StartApply(u) ==
    /\ apply.at \in {"idle", "done"} /\ begun < MaxBegun
    /\ begun' = begun + 1
    /\ IF Named(u, FileName) = {}
       THEN ApplyTo(u, 0, "creating", {})
       ELSE \E l \in Named(u, FileName) : ApplyTo(u, l, "emptying", RuleIds(l))
    /\ UNCHANGED <<tableVars, request, daemonVars, raced>>

\* Refused (409) if the layer was made meanwhile.
ApplyCreates ==
    /\ apply.at = "creating"
    /\ Len(owner) < MaxLayers
    /\ Named(apply.user, FileName) = {}
    /\ owner' = Append(owner, apply.user)
    /\ layers' = With(layers, Len(owner) + 1, FileName)
    /\ apply' = [apply EXCEPT !.at = "filling", !.layer = Len(owner) + 1]
    /\ UNCHANGED <<attached, rules, made, request, begun, daemonVars, raced>>

ApplyDeletes ==
    /\ apply.at = "emptying" /\ apply.old # {}
    /\ LET id == CHOOSE i \in apply.old : \A j \in apply.old : i <= j IN
       /\ id \in RuleIds(apply.layer)
       /\ rules' = Restrict(rules, DOMAIN rules \ {id})
       /\ apply' = [apply EXCEPT !.old = @ \ {id}]
    /\ Edited
    /\ UNCHANGED <<owner, layers, attached, made, request, begun, raced>>

ApplyEmptied ==
    /\ apply.at = "emptying" /\ apply.old = {}
    /\ apply' = [apply EXCEPT !.at = "filling"]
    /\ UNCHANGED <<tableVars, request, begun, daemonVars, raced>>

ApplyAdds ==
    /\ apply.at = "filling" /\ apply.left # <<>>
    /\ request[Cli] = Nobody
    /\ apply.layer \in Present
    /\ PlaceRule(Cli, apply.layer, Head(apply.left))
    /\ apply' = [apply EXCEPT !.left = Tail(@)]
    /\ UNCHANGED <<tableVars, begun, daemonVars, raced>>

ApplyEnds ==
    /\ apply.at = "filling" /\ apply.left = <<>>
    /\ request[Cli] = Nobody
    /\ apply' = [apply EXCEPT !.at = "done"]
    /\ UNCHANGED <<tableVars, request, begun, daemonVars, raced>>

\* A request is refused (404, 409), or the person interrupts it: whatever was
\* done stays.
ApplyStops ==
    /\ apply.at \in {"creating", "emptying", "filling"}
    /\ request[Cli] = Nobody
    /\ apply' = NoApply
    /\ UNCHANGED <<tableVars, request, begun, daemonVars, raced>>

ApplyStep ==
    \/ ApplyCreates \/ ApplyDeletes \/ ApplyEmptied \/ ApplyAdds \/ ApplyEnds \/ ApplyStops

----------------------------------------------------------------------------
(* The daemon's copy *)

\* The layers of that account that are attached to the machine.
FetchedFor(u) == {l \in attached \intersect Present : owner[l] = u}

ByName(u) ==
    {p \in FetchedFor(u) \X FetchedFor(u) :
        layers[p[1]] < layers[p[2]] \/ (layers[p[1]] = layers[p[2]] /\ p[1] < p[2])}

\* After pairing, after resuming and on refresh_policy_layers.
BeginFetch(f, u) ==
    /\ fetch[f] = Nobody
    /\ fetch' = [fetch EXCEPT ![f] =
            [user |-> u, todo |-> InOrder(FetchedFor(u), ByName(u)), got |-> <<>>, current |-> TRUE]]
    /\ UNCHANGED <<tableVars, request, apply, begun, cache, current, raced>>

\* One query for each layer: edits come in between.
ReadLayer(f) ==
    /\ fetch[f] # Nobody /\ fetch[f].todo # <<>>
    /\ LET l == Head(fetch[f].todo) IN
       fetch' = [fetch EXCEPT ![f] =
            [user |-> @.user, todo |-> Tail(@.todo),
             got |-> Append(@.got, [id |-> l, rules |-> RulesOf(l)]), current |-> @.current]]
    /\ UNCHANGED <<tableVars, request, apply, begun, cache, current, raced>>

SetPolicyLayers_Merged(f) ==
    LET u == fetch[f].user
        kept == SelectSeq(cache[u], LAMBDA sent : \A n \in DOMAIN fetch[f].got : fetch[f].got[n].id # sent.id)
    IN  cache' = [cache EXCEPT ![u] = fetch[f].got \o kept]

\* The whole set is replaced, by whichever answer comes last.
SetPolicyLayers(f) == cache' = [cache EXCEPT ![fetch[f].user] = fetch[f].got]

EndFetch(f) ==
    /\ fetch[f] # Nobody /\ fetch[f].todo = <<>>
    /\ SetPolicyLayers(f)
    /\ current' = IF fetch[f].current THEN current \union {fetch[f].user} ELSE current \ {fetch[f].user}
    /\ fetch' = [fetch EXCEPT ![f] = Nobody]
    /\ UNCHANGED <<tableVars, request, apply, begun, raced>>

FetchFails(f) ==
    /\ fetch[f] # Nobody
    /\ fetch' = [fetch EXCEPT ![f] = Nobody]
    /\ UNCHANGED <<tableVars, request, apply, begun, cache, current, raced>>

\* The daemon starts again, with an empty copy.
Restart ==
    /\ cache' = [u \in Users |-> <<>>]
    /\ current' = {}
    /\ fetch' = [f \in Fetches |-> Nobody]
    /\ UNCHANGED <<tableVars, request, apply, begun, raced>>

----------------------------------------------------------------------------
WebStep(q) ==
    \/ \E u \in Users, name \in Names : CreateLayer(q, u, name)
    \/ \E l \in Present :
        \/ \E name \in Names : RenameLayer(q, l, name)
        \/ DeleteLayer(q, l) \/ CheckAttach(q, l) \/ Detach(q, l)
        \/ \E says \in Rules : CheckInsert(q, l, says)
        \/ RuleIds(l) # {} /\ \E order \in SetToSeqs(RuleIds(l)) : CheckReorder(q, l, order)
    \/ \E id \in {i \in DOMAIN rules : rules[i].layer \in Present} :
        DeleteRule(q, id) \/ \E says \in Rules \ {rules[id].says} : UpdateRule(q, id, says)
    \/ Attach(q) \/ Reorder(q)

PolicyNext ==
    \/ \E q \in Web : WebStep(q)
    \/ \E q \in Requests : Insert(q)
    \/ \E u \in Users : StartApply(u)
    \/ ApplyStep
    \/ \E f \in Fetches : (\E u \in Users : BeginFetch(f, u)) \/ ReadLayer(f) \/ EndFetch(f) \/ FetchFails(f)
    \/ Restart

PolicySpec == PolicyInit /\ [][PolicyNext]_policyVars

----------------------------------------------------------------------------
(* Safety *)

\* What /policies/eval would answer for the layers attached to the machine.
EvalPolicy(ids, call) ==
    LET all == SetToSeq(ids) IN
    MatchPolicy([n \in DOMAIN all |-> [id |-> all[n], rules |-> RulesOf(all[n])]], call)

\* Once a fetch begun after the last edit has landed, and no older one after
\* it, the machine decides each command of an account as that account's own
\* layers in the tables say (and as /policies/eval shows, which takes no
\* others), in whatever order the layers are named, read and sent, torn
\* reads, merges and restarts before it notwithstanding; all accounts attach
\* theirs to the same machine, and ids of deleted layers may still be attached.
RefreshedIsInForce ==
    \A u \in current : \A call \in Calls :
        MatchPolicy(cache[u], call) = EvalPolicy({l \in attached \intersect Present : owner[l] = u}, call)

\* The order of a layer's rules, which decides, is never left to chance,
\* unless two requests changed it at the same time.
OrderIsTotal ==
    \A l \in Present \ raced : \A a, b \in RuleIds(l) :
        a # b => rules[a].pos # rules[b].pos

\* apply_policy_layer: "applying the same file twice leaves the layer in the
\* same state both times", the file's, if nobody else edits it meanwhile.
ApplyGivesFile ==
    apply.at = "done" /\ apply.alone => RulesOf(apply.layer) = Loaded
=============================================================================
