----------------------------- MODULE Approvals -----------------------------
(***************************************************************************)
(* Commands that ask: the tool-calling loop of the service                 *)
(* (casper_service/conversations.py), its pending approvals                *)
(* (casper_service/main.py) and the chat of the harness that uses both.    *)
(*                                                                         *)
(* A turn is a value that is handed around: a request gets a copy and      *)
(* returns a copy, and a pause stores one in pending_approvals.  Whoever   *)
(* holds a paused copy may go on with it.  A thread is a request the       *)
(* service works on; which machines are connected is read when it begins,  *)
(* and any of them may be out of reach when it gets there.                 *)
(***************************************************************************)
EXTENDS Naturals, Sequences, FiniteSets

CONSTANTS
    Calls,          \* run_shell_command calls, each proposed at most once
    Hosts,          \* the person's machines
    HostArg,        \* the machine each call names, or AnyHost
    DefaultHost,    \* default_host of the requests, or AnyHost
    AnyHost,        \* no machine named
    Nobody,         \* no call
    Threads,        \* requests the service works on at a time
    Mocks,          \* mock_tier of the mocked conversations
    MaxRequests     \* requests in all

ASSUME ApprovalAssumption ==
    /\ AnyHost \notin Hosts
    /\ HostArg \in [Calls -> Hosts \union {AnyHost}]
    /\ DefaultHost \in Hosts \union {AnyHost}
    /\ Nobody \notin Calls
    /\ Mocks \subseteq {"allow", "ask", "deny"}
    /\ MaxRequests \in Nat
    /\ IsFiniteSet(Threads)

VARIABLES
    tier,           \* what each machine's policy says of the commands
    late,           \* calls the service gave up on and a machine may still get
    rows,           \* every approval created, by id: the paused turn stored
    open,           \* the ids that are in pending_approvals
    told,           \* the ids whose paused turn a client was given a copy of
    thread,         \* the requests being served
    requests,       \* how many requests there were
    chat,           \* the harness's chat: where it is, the approval it asks about
    saved,          \* chat_state.json: the approval of a paused turn, 0 if none
    proposed,       \* every list of calls the model or a client proposed
    runs,           \* how often each call was carried out
    answers         \* the decisions accepted for each call

daemonVars == <<tier, late, runs>>
rowVars == <<rows, open>>
chatVars == <<chat, saved>>
vars == <<daemonVars, rowVars, told, thread, requests, chatVars, proposed, answers>>

----------------------------------------------------------------------------
(* Turns *)

Tiers == {"allow", "ask", "deny"}

\* todo and out are pending_calls and the calls of outputs; asked is
\* awaiting_approval, on the machine named in it.  An agent's turn is the one
\* call of an MCP run_shell_command.
Turn == [origin : {"chat", "agent"}, mock : Mocks \union {"no"}, todo : Seq(Calls), out : Seq(Calls),
         asked : BOOLEAN, on : Hosts \union {AnyHost}]

\* new_turn_from_message and new_turn_from_tool_call.
NewTurn(origin, mock, todo) ==
    [origin |-> origin, mock |-> mock, todo |-> todo, out |-> <<>>, asked |-> FALSE, on |-> AnyHost]

Front(turn) == IF turn.todo = <<>> THEN Nobody ELSE Head(turn.todo)

\* The call in front gets an output, whatever it is.
Answered(turn) ==
    [turn EXCEPT !.todo = Tail(@), !.out = Append(@, Head(turn.todo)), !.asked = FALSE]

\* awaiting_approval is set before the copy is stored; the call stays in front.
Asked_Popped(turn, host) == [turn EXCEPT !.asked = TRUE, !.on = host, !.todo = Tail(@)]

Asked(turn, host) == [turn EXCEPT !.asked = TRUE, !.on = host]

\* _extract_response: the next hop's calls replace the answered ones.
NextHop(turn, calls) == [turn EXCEPT !.todo = calls, !.out = <<>>]

\* The machine a call goes to, none for "no connected machines", "unknown
\* host" and "specify which one".
ResolveHost(arg, configs) ==
    IF arg # AnyHost THEN configs \intersect {arg}
    ELSE IF Cardinality(configs) = 1 THEN configs
    ELSE configs \intersect {DefaultHost}

\* Where the loop goes on once the front call is dealt with.
GoesOn(turn) ==
    IF turn.todo # <<>> THEN "calls" ELSE IF turn.origin = "agent" THEN "reply" ELSE "model"

\* row: the approval being decided or just created; waits: which of the
\* chat's requests this is, "step" or "decide".
Thread == [at : {"idle", "taking", "model", "calls", "resend", "ask", "reply"}, turn : Turn,
           configs : SUBSET Hosts, row : Nat, allow : BOOLEAN, waits : {"no", "step", "decide"}]

Idle == [at |-> "idle", turn |-> NewTurn("chat", "no", <<>>), configs |-> {}, row |-> 0,
         allow |-> FALSE, waits |-> "no"]

Off == [at |-> "off", id |-> 0]
Prompt == [at |-> "you", id |-> 0]
Waiting == [at |-> "waiting", id |-> 0]

TypeOK ==
    /\ tier \in [Hosts -> Tiers]
    /\ late \subseteq [call : Calls, host : Hosts, approved : BOOLEAN]
    /\ rows \in Seq(Turn)
    /\ open \subseteq DOMAIN rows /\ told \subseteq DOMAIN rows
    /\ thread \in [Threads -> Thread]
    /\ requests \in 0 .. MaxRequests
    /\ chat \in [at : {"off", "you", "waiting", "approve?"}, id : Nat]
    /\ saved \in Nat
    /\ proposed \subseteq Seq(Calls)
    /\ runs \in [Calls -> Nat]
    /\ answers \in [Calls -> Seq(BOOLEAN)]

Init ==
    /\ tier \in [Hosts -> Tiers]
    /\ late = {}
    /\ rows = <<>>
    /\ open = {}
    /\ told = {}
    /\ thread = [t \in Threads |-> Idle]
    /\ requests = 0
    /\ chat = Off
    /\ saved = 0
    /\ proposed = {}
    /\ runs = [c \in Calls |-> 0]
    /\ answers = [c \in Calls |-> <<>>]

----------------------------------------------------------------------------
(* The machines *)

ChangePolicy ==
    /\ tier' \in {[tier EXCEPT ![h] = x] : h \in Hosts, x \in Tiers}
    /\ UNCHANGED <<late, runs, rowVars, told, thread, requests, chatVars, proposed, answers>>

\* runRunShellCommand: the policy is matched anew on every call; an "ask"
\* rule lets an approved one pass and nothing else.
WouldRun_Remembering(h, approved) == tier[h] = "allow" \/ approved

WouldRun(h, approved) == tier[h] = "allow" \/ (tier[h] = "ask" /\ approved)

Carried(c) == [runs EXCEPT ![c] = @ + 1]

\* A call the service has given up on arrives at last, or never does.
ArriveLate ==
    /\ \E m \in late :
        /\ late' = late \ {m}
        /\ \/ WouldRun(m.host, m.approved) /\ runs' = Carried(m.call)
           \/ UNCHANGED runs
    /\ UNCHANGED <<tier, rowVars, told, thread, requests, chatVars, proposed, answers>>

----------------------------------------------------------------------------
(* Requests come in *)

Unproposed == {c \in Calls : \A s \in proposed : \A i \in DOMAIN s : s[i] # c}

\* What a hop of the model may propose.
Proposals == {s \in UNION {[1 .. n -> Unproposed] : n \in 1 .. Cardinality(Unproposed)} :
                \A i, j \in DOMAIN s : s[i] = s[j] => i = j}

Begin(t, fields) ==
    /\ thread[t].at = "idle" /\ requests < MaxRequests
    /\ thread' = [thread EXCEPT ![t] = fields]
    /\ requests' = requests + 1

\* POST /conversations/step with a message, from the chat.
Say(t) ==
    /\ chat = Prompt
    /\ \E configs \in SUBSET Hosts, mock \in Mocks \union {"no"} :
        Begin(t, [Idle EXCEPT !.at = "model", !.turn = NewTurn("chat", mock, <<>>), !.configs = configs,
                              !.waits = "step"])
    /\ chat' = Waiting
    /\ UNCHANGED <<daemonVars, rowVars, told, saved, proposed, answers>>

\* POST /conversations/step with a tool call (call-tool), or the agent's MCP
\* run_shell_command, which names its machine and is refused at once if that
\* is not connected.
CallTool(t, c) ==
    /\ c \in Unproposed
    /\ \E configs \in SUBSET Hosts, mock \in Mocks \union {"no"}, origin \in {"chat", "agent"} :
        /\ origin = "agent" => mock = "no" /\ HostArg[c] \in configs
        /\ Begin(t, [Idle EXCEPT !.at = "calls", !.turn = NewTurn(origin, mock, <<c>>), !.configs = configs])
    /\ proposed' = proposed \union {<<c>>}
    /\ UNCHANGED <<daemonVars, rowVars, told, chatVars, answers>>

Accept(c, allow) == answers' = [answers EXCEPT ![c] = Append(@, allow)]

\* run_turn on a paused copy: a denied call is answered, an allowed one is
\* sent again.
Decided(f, turn, allow, configs) ==
    [f EXCEPT !.at = IF allow THEN "resend" ELSE GoesOn(Answered(turn)),
              !.turn = IF allow THEN [turn EXCEPT !.asked = FALSE] ELSE Answered(turn),
              !.configs = configs, !.allow = allow]

OnMock(turn, mock) == [turn EXCEPT !.mock = mock]

\* POST /conversations/step with a paused turn and a decision: the copy a
\* client was given, whatever became of the stored one, mocked or not as the
\* request has it.
StepAgain(t, id, allow) ==
    /\ \E configs \in SUBSET Hosts, mock \in Mocks \union {"no"} :
        Begin(t, Decided(Idle, OnMock(rows[id], mock), allow, configs))
    /\ Accept(Front(rows[id]), allow)
    /\ UNCHANGED <<daemonVars, rowVars, told, chatVars, proposed>>

\* POST .../decide and the Telegram button: the row is read in one
\* transaction ...
Decide(t, id, allow) ==
    /\ id \in open
    /\ Begin(t, [Idle EXCEPT !.at = "taking", !.row = id, !.turn = rows[id], !.allow = allow])
    /\ UNCHANGED <<daemonVars, rowVars, told, chatVars, proposed, answers>>

\* _resume_pending_approval: ... and deleted in another.
TakeRow_All(t) ==
    /\ thread[t].at = "taking"
    /\ open' = {}
    /\ \E configs \in SUBSET Hosts :
        thread' = [thread EXCEPT ![t] = Decided(@, @.turn, @.allow, configs)]
    /\ Accept(Front(thread[t].turn), thread[t].allow)
    /\ UNCHANGED <<daemonVars, rows, told, requests, chatVars, proposed>>

TakeRow(t) ==
    /\ thread[t].at = "taking"
    /\ open' = open \ {thread[t].row}
    /\ \E configs \in SUBSET Hosts :
        thread' = [thread EXCEPT ![t] = Decided(@, @.turn, @.allow, configs)]
    /\ Accept(Front(thread[t].turn), thread[t].allow)
    /\ UNCHANGED <<daemonVars, rows, told, requests, chatVars, proposed>>

----------------------------------------------------------------------------
(* The loop: run_turn and _drain_pending_calls *)

Go(t, at, turn) == thread' = [thread EXCEPT ![t] = [@ EXCEPT !.at = at, !.turn = turn]]

\* The model proposes calls or is done.
CallModel(t) ==
    /\ thread[t].at = "model"
    /\ \/ \E calls \in Proposals :
            /\ Go(t, "calls", NextHop(thread[t].turn, calls))
            /\ proposed' = proposed \union {calls}
       \/ Go(t, "reply", NextHop(thread[t].turn, <<>>)) /\ UNCHANGED proposed
    /\ UNCHANGED <<daemonVars, rowVars, told, requests, chatVars, answers>>

\* _dispatch_shell_command: the machine runs the call, ...
Ran(t) ==
    LET f == thread[t] c == Front(f.turn) IN
    /\ f.turn.mock = "no"
    /\ \E h \in ResolveHost(HostArg[c], f.configs) : WouldRun(h, f.at = "resend")
    /\ runs' = Carried(c)
    /\ Go(t, GoesOn(Answered(f.turn)), Answered(f.turn))
    /\ UNCHANGED late

\* ... or answers that it has to be asked for first, ...
Asks(t) ==
    LET f == thread[t] IN
    /\ f.at = "calls"
    /\ \E h \in ResolveHost(HostArg[Front(f.turn)], f.configs) :
        /\ IF f.turn.mock = "no" THEN tier[h] = "ask" ELSE f.turn.mock = "ask"
        /\ Go(t, "ask", Asked(f.turn, h))
    /\ UNCHANGED <<late, runs>>

\* ... or nothing came of it: no such machine, a mock's canned result, a "deny",
\* an unreachable machine, or one that did not answer within 15 seconds and
\* may still get the call.  (Bound: one such call of a kind at a time.)
CameToNothing_Retried(t) ==
    LET f == thread[t]
        c == Front(f.turn)
        targets == ResolveHost(HostArg[c], f.configs) IN
    /\ f.turn.mock = "ask" /\ f.at = "calls" => targets = {}
    /\ \/ UNCHANGED late
       \/ \E h \in targets :
            LET m == [call |-> c, host |-> h, approved |-> f.at = "resend"] IN
            f.turn.mock = "no" /\ m \notin late /\ late' = late \union {m}
    /\ IF late' # late THEN UNCHANGED thread ELSE Go(t, GoesOn(Answered(f.turn)), Answered(f.turn))
    /\ UNCHANGED runs

CameToNothing(t) ==
    LET f == thread[t]
        c == Front(f.turn)
        targets == ResolveHost(HostArg[c], f.configs) IN
    /\ f.turn.mock = "ask" /\ f.at = "calls" => targets = {}
    /\ \/ UNCHANGED late
       \/ \E h \in targets :
            LET m == [call |-> c, host |-> h, approved |-> f.at = "resend"] IN
            f.turn.mock = "no" /\ m \notin late /\ late' = late \union {m}
    /\ Go(t, GoesOn(Answered(f.turn)), Answered(f.turn))
    /\ UNCHANGED runs

Dispatch(t) ==
    /\ thread[t].at \in {"calls", "resend"}
    /\ Ran(t) \/ Asks(t) \/ CameToNothing(t)
    /\ UNCHANGED <<tier, rowVars, told, requests, chatVars, proposed, answers>>

\* _create_pending_approval_record and create_approval.
CreateRow(t) ==
    /\ thread[t].at = "ask"
    /\ rows' = Append(rows, thread[t].turn)
    /\ open' = open \union {Len(rows')}
    /\ thread' = [thread EXCEPT ![t] = [@ EXCEPT !.at = "reply", !.row = Len(rows')]]
    /\ UNCHANGED <<daemonVars, told, requests, chatVars, proposed, answers>>

\* The chat saves the pause its own message met before it asks, and the turn
\* once that is done.
ChatHears(f) ==
    /\ chat' = IF f.waits = "no" THEN chat
               ELSE IF f.turn.asked THEN [at |-> "approve?", id |-> f.row] ELSE Prompt
    /\ saved' = IF f.waits = "no" \/ (f.turn.asked /\ f.waits = "decide") THEN saved
                ELSE IF f.turn.asked THEN f.row ELSE 0

\* _step_response.
Reply(t) ==
    LET f == thread[t] IN
    /\ f.at = "reply"
    /\ thread' = [thread EXCEPT ![t] = Idle]
    /\ told' = IF f.turn.asked /\ f.turn.origin = "chat" THEN told \union {f.row} ELSE told
    /\ ChatHears(f)
    /\ UNCHANGED <<daemonVars, rowVars, requests, proposed, answers>>

\* The model's API raises: an error 500, and the chat exits.
ModelFails(t) ==
    /\ thread[t].at = "model"
    /\ thread' = [thread EXCEPT ![t] = Idle]
    /\ chat' = IF thread[t].waits = "no" THEN chat ELSE Off
    /\ UNCHANGED <<daemonVars, rowVars, told, requests, saved, proposed, answers>>

----------------------------------------------------------------------------
(* The chat of the harness *)

\* A saved pause is picked up when its approval is still listed (the listing
\* may fail, too); otherwise the chat starts anew.
Launch ==
    /\ chat = Off
    /\ \/ saved \in open /\ chat' = [at |-> "approve?", id |-> saved] /\ UNCHANGED saved
       \/ chat' = Prompt /\ saved' = 0
       \/ chat' = Prompt /\ UNCHANGED saved     \* --new
    /\ UNCHANGED <<daemonVars, rowVars, told, thread, requests, proposed, answers>>

\* _resolve_pending_approval: the decision goes by id; "Unknown pending
\* approval" ends the chat.
AnswerPrompt(t, allow) ==
    /\ chat.at = "approve?"
    /\ IF chat.id \in open
       THEN /\ Begin(t, [Idle EXCEPT !.at = "taking", !.row = chat.id, !.turn = rows[chat.id],
                                     !.allow = allow, !.waits = "decide"])
            /\ chat' = Waiting
       ELSE chat' = Off /\ UNCHANGED <<thread, requests>>
    /\ UNCHANGED <<daemonVars, rowVars, told, saved, proposed, answers>>

\* Ctrl-C or worse; its request goes on without it.
Quit ==
    /\ chat # Off
    /\ chat' = Off
    /\ thread' = [t \in Threads |-> [thread[t] EXCEPT !.waits = "no"]]
    /\ UNCHANGED <<daemonVars, rowVars, told, requests, saved, proposed, answers>>

\* The service restarts: threads are gone, rows are not.
Restart ==
    /\ thread' = [t \in Threads |-> Idle]
    /\ chat' = IF chat = Waiting THEN Off ELSE chat
    /\ UNCHANGED <<daemonVars, rowVars, told, requests, saved, proposed, answers>>

----------------------------------------------------------------------------
Work(t) ==
    TakeRow(t) \/ CallModel(t) \/ ModelFails(t) \/ Dispatch(t) \/ CreateRow(t) \/ Reply(t)

Incoming(t) ==
    \/ Say(t)
    \/ \E c \in Calls : CallTool(t, c)
    \/ \E allow \in BOOLEAN :
        \/ \E id \in told : StepAgain(t, id, allow)
        \/ \E id \in open : Decide(t, id, allow)
        \/ AnswerPrompt(t, allow)

Next ==
    \/ ChangePolicy \/ ArriveLate \/ Launch \/ Quit \/ Restart
    \/ \E t \in Threads : Work(t) \/ Incoming(t)

Spec == Init /\ [][Next]_vars

----------------------------------------------------------------------------
(* Properties *)

\* The model gets one output for each call it proposed, in that order, however
\* often a turn is paused, stored, resumed elsewhere, or resumed twice: in
\* every copy the answered calls and the pending ones make up one proposal,
\* and a paused copy has the call it waits for in front.
TranscriptMatches ==
    \A turn \in {rows[id] : id \in DOMAIN rows} \union {thread[t].turn : t \in Threads} :
        /\ turn.todo # <<>> => turn.out \o turn.todo \in proposed
        /\ turn.asked => turn.todo # <<>>

\* As long as nobody's answer was given twice, a command runs once at most,
\* and one that was denied does not run: not through a late delivery, not
\* through a resume elsewhere, not after a restart.
OneAnswerOneRun ==
    (\A c \in Calls : Len(answers[c]) <= 1) =>
        \A c \in Calls : runs[c] <= 1 /\ (answers[c] = <<FALSE>> => runs[c] = 0)

\* An approval leaves the queue only with an answer: what the chat, the
\* harness and Telegram show stays answerable through restarts and quits.
OnlyAnswersClose ==
    \A id \in DOMAIN rows : id \in open \/ answers[Front(rows[id])] # <<>>

\* An answer may still be used by a thread that is about to send its call
\* again, and by a call sent with it that has not arrived.
Armed(c) == {t \in Threads : thread[t].at = "resend" /\ Front(thread[t].turn) = c}
OnItsWay(c) == {m \in late : m.call = c /\ m.approved}
Permits == [c \in Calls |-> Cardinality(Armed(c)) + Cardinality(OnItsWay(c))]

Promise == INSTANCE Consent WITH policy <- tier, permits <- Permits

\* A command runs only as the policy of its machine has it at that moment, and
\* under "ask" only on an answer to that very command that was not used yet.
KeepsConsent == Promise!ConsentSpec
=============================================================================
