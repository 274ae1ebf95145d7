------------------------------- MODULE Relay -------------------------------
(***************************************************************************)
(* The relay between the Casper service and the agents: the registry of    *)
(* live connections, the request/response multiplexing over one WebSocket  *)
(* (relay/internal/registry, httpproxy, wsconnect), and the agent's end of *)
(* it (agent/internal/tunnel).                                             *)
(*                                                                         *)
(* Goroutines: per HTTP request the proxy handler; per connection the      *)
(* /connect handler, which becomes its read loop, and a write loop; on the *)
(* agent one goroutine per frame.  A step of the model is what one of them *)
(* does between two points where another can interfere (a lock, a channel, *)
(* the socket).  The socket and its buffers are one step: a frame the      *)
(* write loop takes reaches the agent, or is lost.  Since the agent's      *)
(* goroutines finish in any order, its answers under way are a set.        *)
(* A deadline (wire.TimeoutFor) may pass at any moment.                    *)
(***************************************************************************)
EXTENDS Naturals, Sequences, FiniteSets

CONSTANTS
    Keys,           \* routing keys, one agent each
    Conns,          \* connections the agents may make
    Requests,       \* HTTP requests to /agent/{key}/...
    OutCap,         \* capacity of a connection's outbound channel
    NoConn,         \* nothing registered under a key, no connection replaced
    Nothing         \* an empty response channel, an idle read loop

ASSUME RelayAssumption ==
    /\ NoConn \notin Conns
    /\ Nothing \notin [id : Nat, req : Requests]
    /\ Nothing \notin [waiter : Requests, frame : [id : Nat, req : Requests]]
    /\ OutCap \in Nat \ {0}

VARIABLES
    current,        \* registry.conns: the connection of each key
    keyOf,          \* the key a connection came in under
    phase,          \* where a connection's /connect handler is
    replaced,       \* the connection its Register displaced
    closed,         \* closed channels (AgentConn.closed)
    writing,        \* connections whose write loop runs
    outbound,       \* AgentConn.outbound
    nextID,         \* AgentConn.nextID
    pending,        \* AgentConn.pending, as the frames waited for
    matched,        \* what a read loop has taken from pending and not yet handed over
    agentUp,        \* connections the agent still serves
    working,        \* frames the agent's goroutines handle
    answers,        \* answers under way to the relay
    step,           \* where a request's proxy handler is
    via,            \* the connection it was given by Get
    tag,            \* the correlation id Do assigned
    respCh,         \* its response channel (capacity 1)
    carriedOut,     \* how often the agent has taken each request to its server
    reply           \* what the HTTP caller was told

connVars == <<current, keyOf, phase, replaced, closed, writing, outbound, nextID, pending, matched>>
agentVars == <<agentUp, working, answers, carriedOut>>
requestVars == <<step, via, tag, respCh, reply>>
vars == <<connVars, agentVars, requestVars>>

Frame == [id : Nat, req : Requests]
Match == [waiter : Requests, frame : Frame]
Failures == {"agent not connected", "bad request", "gave up", "agent disconnected"}

TypeOK ==
    /\ current \in [Keys -> Conns \union {NoConn}]
    /\ keyOf \in [Conns -> Keys]
    /\ phase \in [Conns -> {"unused", "accepted", "replacing", "serving", "leaving", "gone"}]
    /\ replaced \in [Conns -> Conns \union {NoConn}]
    /\ closed \in SUBSET Conns
    /\ writing \in SUBSET Conns
    /\ outbound \in [Conns -> Seq(Frame)]
    /\ \A c \in Conns : Len(outbound[c]) <= OutCap
    /\ nextID \in [Conns -> Nat]
    /\ pending \in [Conns -> SUBSET Frame]
    /\ matched \in [Conns -> Match \union {Nothing}]
    /\ agentUp \in SUBSET Conns
    /\ working \in [Conns -> SUBSET Frame]
    /\ answers \in [Conns -> SUBSET Frame]
    /\ step \in [Requests -> {"idle", "holding", "sending", "waiting", "done"}]
    /\ via \in [Requests -> Conns \union {NoConn}]
    /\ tag \in [Requests -> Nat]
    /\ respCh \in [Requests -> Frame \union {Nothing}]
    /\ carriedOut \in [Requests -> Nat]
    /\ reply \in [Requests -> {"none", "answer"} \union Failures]

Init ==
    /\ current = [k \in Keys |-> NoConn]
    /\ keyOf \in [Conns -> Keys]
    /\ phase = [c \in Conns |-> "unused"]
    /\ replaced = [c \in Conns |-> NoConn]
    /\ closed = {}
    /\ writing = {}
    /\ outbound = [c \in Conns |-> <<>>]
    /\ nextID = [c \in Conns |-> 0]
    /\ pending = [c \in Conns |-> {}]
    /\ matched = [c \in Conns |-> Nothing]
    /\ agentUp = {}
    /\ working = [c \in Conns |-> {}]
    /\ answers = [c \in Conns |-> {}]
    /\ step = [r \in Requests |-> "idle"]
    /\ via = [r \in Requests |-> NoConn]
    /\ tag = [r \in Requests |-> 0]
    /\ respCh = [r \in Requests |-> Nothing]
    /\ carriedOut = [r \in Requests |-> 0]
    /\ reply = [r \in Requests |-> "none"]

----------------------------------------------------------------------------
(* The /connect handler: Accept, Register, Serve, Unregister *)

\* The agent's reconnect loop dials again only after its last connection
\* ended, as far as the agent knows.
Connect(c) ==
    /\ phase[c] = "unused"
    /\ \A d \in agentUp : keyOf[d] # keyOf[c]
    /\ phase' = [phase EXCEPT ![c] = "accepted"]
    /\ agentUp' = agentUp \union {c}
    /\ UNCHANGED <<current, keyOf, replaced, closed, writing, outbound, nextID, pending, matched,
                   working, answers, carriedOut, requestVars>>

\* Under the registry's lock.
Register(c) ==
    /\ phase[c] = "accepted"
    /\ replaced' = [replaced EXCEPT ![c] = current[keyOf[c]]]
    /\ current' = [current EXCEPT ![keyOf[c]] = c]
    /\ phase' = [phase EXCEPT ![c] = "replacing"]
    /\ UNCHANGED <<keyOf, closed, writing, outbound, nextID, pending, matched, agentVars, requestVars>>

\* After it: old.Close(), then Serve starts both loops.
CloseReplaced(c) ==
    /\ phase[c] = "replacing"
    /\ closed' = closed \union ({replaced[c]} \ {NoConn})
    /\ phase' = [phase EXCEPT ![c] = "serving"]
    /\ writing' = writing \union {c}
    /\ UNCHANGED <<current, keyOf, replaced, outbound, nextID, pending, matched, agentVars, requestVars>>

\* conn.Read fails (the agent left, the network broke, Close was called):
\* readerLoop returns and Serve calls Close.
ReaderFails(c) ==
    /\ phase[c] = "serving"
    /\ matched[c] = Nothing
    /\ phase' = [phase EXCEPT ![c] = "leaving"]
    /\ closed' = closed \union {c}
    /\ UNCHANGED <<current, keyOf, replaced, writing, outbound, nextID, pending, matched, agentVars, requestVars>>

Unregister_Stale(c) ==
    /\ phase[c] = "leaving"
    /\ c \notin writing
    /\ current' = [current EXCEPT ![keyOf[c]] = NoConn]
    /\ phase' = [phase EXCEPT ![c] = "gone"]
    /\ UNCHANGED <<keyOf, replaced, closed, writing, outbound, nextID, pending, matched, agentVars, requestVars>>

\* Serve has waited for the write loop; only the current connection is removed.
Unregister(c) ==
    /\ phase[c] = "leaving"
    /\ c \notin writing
    /\ current' = [current EXCEPT ![keyOf[c]] = IF @ = c THEN NoConn ELSE @]
    /\ phase' = [phase EXCEPT ![c] = "gone"]
    /\ UNCHANGED <<keyOf, replaced, closed, writing, outbound, nextID, pending, matched, agentVars, requestVars>>

----------------------------------------------------------------------------
(* The write loop and the read loop *)

\* Writes to a connection that is closed fail; one the agent has left, or
\* that is breaking, may swallow the frame.
WriterSends(c) ==
    /\ c \in writing /\ outbound[c] # <<>>
    /\ outbound' = [outbound EXCEPT ![c] = Tail(@)]
    /\ IF c \in agentUp /\ c \notin closed
       THEN working' = [working EXCEPT ![c] = @ \union {Head(outbound[c])}]
       ELSE UNCHANGED working
    /\ UNCHANGED <<current, keyOf, phase, replaced, closed, writing, nextID, pending, matched,
                   agentUp, answers, carriedOut, requestVars>>

\* A failed Write ends the write loop, and nothing else.
WriterFails(c) ==
    /\ c \in writing /\ outbound[c] # <<>>
    /\ outbound' = [outbound EXCEPT ![c] = Tail(@)]
    /\ writing' = writing \ {c}
    /\ UNCHANGED <<current, keyOf, phase, replaced, closed, nextID, pending, matched, agentVars, requestVars>>

WriterQuits(c) ==
    /\ c \in writing /\ c \in closed
    /\ writing' = writing \ {c}
    /\ UNCHANGED <<current, keyOf, phase, replaced, closed, outbound, nextID, pending, matched, agentVars, requestVars>>

\* Under the connection's lock: the entry of pending with the frame's id is
\* taken out.  A late answer matches none and is dropped.
ReadAnswer(c, f) ==
    /\ phase[c] = "serving" /\ matched[c] = Nothing
    /\ f \in answers[c]
    /\ answers' = [answers EXCEPT ![c] = @ \ {f}]
    /\ pending' = [pending EXCEPT ![c] = {p \in @ : p.id # f.id}]
    /\ matched' = [matched EXCEPT ![c] =
            IF \E p \in pending[c] : p.id = f.id
            THEN [waiter |-> (CHOOSE p \in pending[c] : p.id = f.id).req, frame |-> f]
            ELSE Nothing]
    /\ UNCHANGED <<current, keyOf, phase, replaced, closed, writing, outbound, nextID,
                   agentUp, working, carriedOut, requestVars>>

\* After the lock: ch <- frame, which waits while the channel is full.
HandOver(c) ==
    /\ matched[c] # Nothing
    /\ respCh[matched[c].waiter] = Nothing
    /\ respCh' = [respCh EXCEPT ![matched[c].waiter] = matched[c].frame]
    /\ matched' = [matched EXCEPT ![c] = Nothing]
    /\ UNCHANGED <<current, keyOf, phase, replaced, closed, writing, outbound, nextID, pending,
                   agentVars, step, via, tag, reply>>

----------------------------------------------------------------------------
(* The agent's end *)

\* connectOnce returns: its context is cancelled and the socket closed.  The
\* goroutines still at work go on (their requests have a context of their own).
AgentDisconnects(c) ==
    /\ c \in agentUp
    /\ agentUp' = agentUp \ {c}
    /\ UNCHANGED <<connVars, working, answers, carriedOut, requestVars>>

\* The daemon stops: what its goroutines were doing is lost.
AgentCrashes(k) ==
    /\ \E c \in Conns : keyOf[c] = k /\ (c \in agentUp \/ working[c] # {})
    /\ agentUp' = {c \in agentUp : keyOf[c] # k}
    /\ working' = [c \in Conns |-> IF keyOf[c] = k THEN {} ELSE working[c]]
    /\ UNCHANGED <<connVars, answers, carriedOut, requestVars>>

\* doLoopback: one attempt, whose outcome (the server's response, or the error
\* of the attempt) is the answer, dropped if the connection has ended.
Loopback(c, f) ==
    /\ f \in working[c]
    /\ working' = [working EXCEPT ![c] = @ \ {f}]
    /\ carriedOut' = [carriedOut EXCEPT ![f.req] = @ + 1]
    /\ answers' = IF c \in agentUp THEN [answers EXCEPT ![c] = @ \union {f}] ELSE answers
    /\ UNCHANGED <<connVars, agentUp, requestVars>>

----------------------------------------------------------------------------
(* The proxy handler *)

Get(r, k) ==
    /\ step[r] = "idle"
    /\ via' = [via EXCEPT ![r] = current[k]]
    /\ IF current[k] = NoConn
       THEN /\ step' = [step EXCEPT ![r] = "done"]
            /\ reply' = [reply EXCEPT ![r] = "agent not connected"]
       ELSE /\ step' = [step EXCEPT ![r] = "holding"]
            /\ UNCHANGED reply
    /\ UNCHANGED <<connVars, agentVars, tag, respCh>>

\* The caller's body cannot be read: the handler returns before Do.
RefuseBody(r) ==
    /\ step[r] = "holding"
    /\ step' = [step EXCEPT ![r] = "done"]
    /\ reply' = [reply EXCEPT ![r] = "bad request"]
    /\ UNCHANGED <<connVars, agentVars, via, tag, respCh>>

FreshID_Reused(c) == Cardinality(pending[c]) + 1

\* The correlation id of the next request on a connection.
FreshID(c) == nextID[c] + 1

\* The body has been read; Do assigns an id and registers the channel.
BeginDo(r) ==
    LET c == via[r] IN
    /\ step[r] = "holding"
    /\ nextID' = [nextID EXCEPT ![c] = @ + 1]
    /\ tag' = [tag EXCEPT ![r] = FreshID(c)]
    /\ pending' = [pending EXCEPT ![c] = @ \union {[id |-> FreshID(c), req |-> r]}]
    /\ step' = [step EXCEPT ![r] = "sending"]
    /\ UNCHANGED <<current, keyOf, phase, replaced, closed, writing, outbound, matched,
                   agentVars, via, respCh, reply>>

\* c.outbound <- frame, which waits while the channel is full.
Enqueue(r) ==
    /\ step[r] = "sending"
    /\ Len(outbound[via[r]]) < OutCap
    /\ outbound' = [outbound EXCEPT ![via[r]] = Append(@, [id |-> tag[r], req |-> r])]
    /\ step' = [step EXCEPT ![r] = "waiting"]
    /\ UNCHANGED <<current, keyOf, phase, replaced, closed, writing, nextID, pending, matched,
                   agentVars, via, tag, respCh, reply>>

TakeAnswer(r) ==
    /\ step[r] = "waiting" /\ respCh[r] # Nothing
    /\ step' = [step EXCEPT ![r] = "done"]
    /\ reply' = [reply EXCEPT ![r] = "answer"]
    /\ UNCHANGED <<connVars, agentVars, via, tag, respCh>>

CleanUp_OnlySent(r) ==
    IF step[r] = "waiting"
    THEN [pending EXCEPT ![via[r]] = {p \in @ : p.id # tag[r]}]
    ELSE pending

\* delete(c.pending, id)
CleanUp(r) == [pending EXCEPT ![via[r]] = {p \in @ : p.id # tag[r]}]

\* The deadline passes, or the HTTP caller goes away.
GiveUp(r) ==
    /\ step[r] \in {"sending", "waiting"}
    /\ pending' = CleanUp(r)
    /\ step' = [step EXCEPT ![r] = "done"]
    /\ reply' = [reply EXCEPT ![r] = "gave up"]
    /\ UNCHANGED <<current, keyOf, phase, replaced, closed, writing, outbound, nextID, matched,
                   agentVars, via, tag, respCh>>

SeeClosed_AsAnswer(r) ==
    /\ step[r] \in {"sending", "waiting"} /\ via[r] \in closed
    /\ pending' = CleanUp(r)
    /\ step' = [step EXCEPT ![r] = "done"]
    /\ reply' = [reply EXCEPT ![r] = "answer"]
    /\ UNCHANGED <<current, keyOf, phase, replaced, closed, writing, outbound, nextID, matched,
                   agentVars, via, tag, respCh>>

SeeClosed_WhileSending(r) ==
    /\ step[r] = "sending" /\ via[r] \in closed
    /\ pending' = CleanUp(r)
    /\ step' = [step EXCEPT ![r] = "done"]
    /\ reply' = [reply EXCEPT ![r] = "agent disconnected"]
    /\ UNCHANGED <<current, keyOf, phase, replaced, closed, writing, outbound, nextID, matched,
                   agentVars, via, tag, respCh>>

\* <-c.closed
SeeClosed(r) ==
    /\ step[r] \in {"sending", "waiting"} /\ via[r] \in closed
    /\ pending' = CleanUp(r)
    /\ step' = [step EXCEPT ![r] = "done"]
    /\ reply' = [reply EXCEPT ![r] = "agent disconnected"]
    /\ UNCHANGED <<current, keyOf, phase, replaced, closed, writing, outbound, nextID, matched,
                   agentVars, via, tag, respCh>>

----------------------------------------------------------------------------
ConnStep(c) ==
    \/ Connect(c) \/ Register(c) \/ CloseReplaced(c) \/ ReaderFails(c) \/ Unregister(c)
    \/ WriterSends(c) \/ WriterFails(c) \/ WriterQuits(c)
    \/ \E f \in answers[c] : ReadAnswer(c, f)
    \/ HandOver(c)
    \/ AgentDisconnects(c)
    \/ \E f \in working[c] : Loopback(c, f)

RequestStep(r) ==
    \/ \E k \in Keys : Get(r, k)
    \/ RefuseBody(r) \/ BeginDo(r) \/ Enqueue(r) \/ TakeAnswer(r) \/ GiveUp(r) \/ SeeClosed(r)

Next ==
    \/ \E c \in Conns : ConnStep(c)
    \/ \E k \in Keys : AgentCrashes(k)
    \/ \E r \in Requests : RequestStep(r)

Spec == Init /\ [][Next]_vars

\* Goroutines that can go on do, and a closed connection is noticed by its
\* loops and callers.  Nothing makes an agent connect, a half-open connection
\* show or take a frame, a body arrive, or an agent answer.
GoroutinesRun ==
    /\ \A c \in Conns :
        /\ WF_vars(Register(c)) /\ WF_vars(CloseReplaced(c)) /\ WF_vars(Unregister(c))
        /\ WF_vars(c \in closed /\ ReaderFails(c))
        /\ WF_vars(c \in closed /\ (WriterSends(c) \/ WriterFails(c) \/ WriterQuits(c)))
        /\ WF_vars(HandOver(c))
    /\ \A r \in Requests : WF_vars(Enqueue(r)) /\ WF_vars(TakeAnswer(r)) /\ WF_vars(SeeClosed(r))

DeadlinesPass == \A r \in Requests : WF_vars(GiveUp(r))

FairSpec == Spec /\ GoroutinesRun

----------------------------------------------------------------------------
(* Safety *)

\* No answer reaches another request's caller: not a late one after a
\* timeout, not one from before a reconnect (ids start at 1 on every
\* connection), although read loops match by id alone.
AnswersMatch ==
    \A r \in Requests : respCh[r] # Nothing => respCh[r].req = r

\* The pending map holds only requests still inside Do: every way out of Do
\* (answer, deadline, closed while sending or waiting) takes its entry out,
\* so a connection that lives for months does not grow.
PendingIsWaitedFor ==
    \A c \in Conns : \A p \in pending[c] :
        step[p.req] \in {"sending", "waiting"} /\ via[p.req] = c /\ tag[p.req] = p.id

\* A connection that serves and is not the registered one is closed, or is
\* about to be by the handler that displaced it: a late Unregister of an old
\* connection never evicts the newer one, which would then serve unseen.
NoConnectionServesUnseen ==
    \A c \in Conns :
        phase[c] = "serving" /\ c \notin closed /\ current[keyOf[c]] # c =>
            \E d \in Conns : phase[d] = "replacing" /\ replaced[d] = c

Promise == INSTANCE RemoteCall WITH
    Requests <- Requests, carriedOut <- carriedOut, reply <- reply

\* The relay and the tunnel together keep what RemoteCall promises: carried
\* out at most once, answered with the agent's own answer, and never carried
\* out after "agent not connected" or an unreadable body.
KeepsPromise == Promise!CallSpec

----------------------------------------------------------------------------
(* Liveness *)

\* Do returns: nobody waits on a connection that is closed, and where
\* deadlines pass nobody waits for ever, whatever became of the connection,
\* the write loop (which may have died silently with the outbound channel
\* full) and the agent.
CallsReturn ==
    \A r \in Requests :
        /\ (step[r] \in {"sending", "waiting"} /\ via[r] \in closed) ~> step[r] = "done"
        /\ DeadlinesPass => (step[r] = "sending" ~> step[r] = "done")
=============================================================================
