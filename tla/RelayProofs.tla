---------------------------- MODULE RelayProofs ----------------------------
(***************************************************************************)
(* Proofs about Relay.  The inductive invariant says where a request's     *)
(* frame can be: a frame always carries the id its request was given on    *)
(* the connection it was given, ids are not reused on a connection, and a  *)
(* frame that is queued or being worked on has not been carried out.       *)
(***************************************************************************)
EXTENDS Relay, SequenceTheorems, TLAPS

\* Where a request is in its life, and what that says of it.
RequestsWellFormed ==
    /\ \A r \in Requests : step[r] \in {"idle", "holding"} => tag[r] = 0
    /\ \A r \in Requests : step[r] \in {"sending", "waiting"} => tag[r] # 0
    /\ \A r \in Requests : step[r] \in {"holding", "sending", "waiting"} => via[r] \in Conns
    /\ \A r \in Requests : tag[r] # 0 => via[r] \in Conns /\ tag[r] <= nextID[via[r]]
    /\ \A r \in Requests : reply[r] = "none" <=> step[r] # "done"
    /\ \A r \in Requests : reply[r] \in {"agent not connected", "bad request"} => tag[r] = 0

\* A connection gives each id to one request.
TagsDiffer ==
    \A r, s \in Requests :
        tag[r] # 0 /\ tag[r] = tag[s] /\ via[r] = via[s] => r = s

\* Frame f, found at connection c, is the frame of its request.
Belongs(c, f) == via[f.req] = c /\ tag[f.req] = f.id /\ f.id # 0

FramesBelong ==
    /\ \A c \in Conns : \A n \in DOMAIN outbound[c] : Belongs(c, outbound[c][n])
    /\ \A c \in Conns : \A f \in pending[c] : Belongs(c, f)
    /\ \A c \in Conns : \A f \in working[c] : Belongs(c, f)
    /\ \A c \in Conns : \A f \in answers[c] : Belongs(c, f)
    /\ \A c \in Conns : matched[c] # Nothing =>
            Belongs(c, matched[c].frame) /\ matched[c].waiter = matched[c].frame.req

\* A frame is in one place, and carried out once it has left the agent.
CarriedOutOnce ==
    /\ \A r \in Requests : carriedOut[r] \in {0, 1}
    /\ \A r \in Requests : step[r] = "sending" => carriedOut[r] = 0
    /\ \A r \in Requests : tag[r] = 0 => carriedOut[r] = 0
    /\ \A c \in Conns : \A m, n \in DOMAIN outbound[c] : outbound[c][m] = outbound[c][n] => m = n
    /\ \A c \in Conns : \A n \in DOMAIN outbound[c] :
            /\ step[outbound[c][n].req] # "sending"
            /\ outbound[c][n] \notin working[c]
            /\ carriedOut[outbound[c][n].req] = 0
    /\ \A c \in Conns : \A f \in working[c] : step[f.req] # "sending" /\ carriedOut[f.req] = 0
    /\ \A c \in Conns : \A f \in answers[c] : carriedOut[f.req] = 1
    /\ \A c \in Conns : matched[c] # Nothing => carriedOut[matched[c].frame.req] = 1

\* A response channel holds the answer of its request.
ChannelsHoldAnswers ==
    \A r \in Requests :
        respCh[r] # Nothing => respCh[r].req = r /\ carriedOut[r] = 1

\* A request still in the pending map has no answer yet.
PendingUnanswered ==
    \A c \in Conns : \A p \in pending[c] :
        /\ step[p.req] \in {"sending", "waiting"}
        /\ respCh[p.req] = Nothing
        /\ matched[c] # Nothing => matched[c].frame.req # p.req

\* A connection that runs unregistered is being closed.
DisplacedIsBeingClosed ==
    \A c \in Conns :
        phase[c] \in {"replacing", "serving"} /\ c \notin closed /\ current[keyOf[c]] # c =>
            \E d \in Conns : phase[d] = "replacing" /\ replaced[d] = c

FrameInv ==
    /\ RequestsWellFormed
    /\ TagsDiffer
    /\ FramesBelong
    /\ CarriedOutOnce
    /\ ChannelsHoldAnswers
    /\ PendingUnanswered

----------------------------------------------------------------------------
(* Type correctness *)

\* The entry of pending a read loop takes.
LEMMA MatchedEntry ==
    ASSUME NEW c \in Conns, NEW f, \E p \in pending[c] : p.id = f.id
    PROVE  LET p == CHOOSE p \in pending[c] : p.id = f.id
           IN  p \in pending[c] /\ p.id = f.id
OBVIOUS

\* Taking the head of a queue, and putting a frame at its end.
LEMMA QueueTail ==
    ASSUME NEW q \in Seq(Frame), q # <<>>
    PROVE  /\ Head(q) \in Frame /\ Tail(q) \in Seq(Frame)
           /\ Head(q) = q[1] /\ 1 \in DOMAIN q
           /\ Len(Tail(q)) <= Len(q)
           /\ \A n \in DOMAIN Tail(q) :
                n \in Nat /\ n + 1 \in DOMAIN q /\ n + 1 # 1 /\ Tail(q)[n] = q[n + 1]
<1>1. /\ Head(q) \in Frame /\ Tail(q) \in Seq(Frame)
      /\ Len(q) \in Nat /\ Len(q) # 0 /\ Len(Tail(q)) = Len(q) - 1
      /\ DOMAIN Tail(q) = 1 .. Len(q) - 1 /\ DOMAIN q = 1 .. Len(q)
  OBVIOUS
<1>2. \A n \in 1 .. Len(q) - 1 : Tail(q)[n] = q[n + 1]
  OBVIOUS
<1>3. QED BY <1>1, <1>2

LEMMA QueueAppend ==
    ASSUME NEW q \in Seq(Frame), NEW f \in Frame
    PROVE  /\ Append(q, f) \in Seq(Frame)
           /\ Len(Append(q, f)) = Len(q) + 1
           /\ \A n \in DOMAIN Append(q, f) :
                \/ n \in DOMAIN q /\ Append(q, f)[n] = q[n]
                \/ n = Len(q) + 1 /\ n \notin DOMAIN q /\ Append(q, f)[n] = f
<1>1. /\ Append(q, f) \in Seq(Frame)
      /\ Len(q) \in Nat
      /\ Len(Append(q, f)) = Len(q) + 1
      /\ DOMAIN Append(q, f) = 1 .. Len(q) + 1 /\ DOMAIN q = 1 .. Len(q)
  OBVIOUS
<1>2. \A n \in 1 .. Len(q) : Append(q, f)[n] = q[n]
  OBVIOUS
<1>3. Append(q, f)[Len(q) + 1] = f
  OBVIOUS
<1>4. \A k \in Nat : \A n \in 1 .. k + 1 : n \in 1 .. k \/ (n = k + 1 /\ n \notin 1 .. k)
  OBVIOUS
<1>5. QED BY <1>1, <1>2, <1>3, <1>4

LEMMA TypeInit == Init => TypeOK
BY RelayAssumption DEF Init, TypeOK

\* A request inside Do has a connection.
LEMMA InsideDo ==
    ASSUME RequestsWellFormed, NEW r \in Requests, step[r] \in {"holding", "sending", "waiting"}
    PROVE  via[r] \in Conns
BY DEF RequestsWellFormed

LEMMA TypeStep == TypeOK /\ RequestsWellFormed /\ [Next]_vars => TypeOK'
<1> SUFFICES ASSUME TypeOK, RequestsWellFormed, [Next]_vars PROVE TypeOK'
  OBVIOUS
<1> USE RelayAssumption
<1>1. ASSUME NEW c \in Conns, Connect(c) PROVE TypeOK'
  BY <1>1 DEF Connect, Frame, Match, TypeOK, vars, connVars, agentVars, requestVars
<1>2. ASSUME NEW c \in Conns, Register(c) PROVE TypeOK'
  BY <1>2 DEF Register, Frame, Match, TypeOK, vars, connVars, agentVars, requestVars
<1>3. ASSUME NEW c \in Conns, CloseReplaced(c) PROVE TypeOK'
  BY <1>3 DEF CloseReplaced, Frame, Match, TypeOK, vars, connVars, agentVars, requestVars
<1>4. ASSUME NEW c \in Conns, ReaderFails(c) PROVE TypeOK'
  BY <1>4 DEF ReaderFails, Frame, Match, TypeOK, vars, connVars, agentVars, requestVars
<1>5. ASSUME NEW c \in Conns, Unregister(c) PROVE TypeOK'
  BY <1>5 DEF Unregister, Frame, Match, TypeOK, vars, connVars, agentVars, requestVars
<1>6. ASSUME NEW c \in Conns, WriterSends(c) PROVE TypeOK'
  <2>1. outbound[c] \in Seq(Frame) /\ outbound[c] # <<>>
    BY <1>6 DEF WriterSends, TypeOK
  <2>2. outbound' \in [Conns -> Seq(Frame)] /\ \A d \in Conns : Len(outbound'[d]) <= OutCap
    BY <1>6, <2>1, QueueTail DEF WriterSends, TypeOK
  <2>3. working' \in [Conns -> SUBSET Frame]
    <3>1. Head(outbound[c]) \in Frame
      BY <2>1, QueueTail
    <3>2. CASE c \in agentUp /\ c \notin closed
      <4>1. working' = [working EXCEPT ![c] = @ \union {Head(outbound[c])}]
        BY <1>6, <3>2 DEF WriterSends
      <4>2. QED BY <3>1, <4>1 DEF TypeOK
    <3>3. CASE ~(c \in agentUp /\ c \notin closed)
      <4>1. working' = working
        BY <1>6, <3>3 DEF WriterSends
      <4>2. QED BY <4>1 DEF TypeOK
    <3>4. QED BY <3>2, <3>3
  <2>4. QED BY <1>6, <2>2, <2>3 DEF WriterSends, TypeOK, vars, connVars, agentVars, requestVars
<1>7. ASSUME NEW c \in Conns, WriterFails(c) PROVE TypeOK'
  <2>1. outbound[c] \in Seq(Frame) /\ outbound[c] # <<>>
    BY <1>7 DEF WriterFails, TypeOK
  <2>2. outbound' \in [Conns -> Seq(Frame)] /\ \A d \in Conns : Len(outbound'[d]) <= OutCap
    BY <1>7, <2>1, QueueTail DEF WriterFails, TypeOK
  <2>3. QED BY <1>7, <2>2 DEF WriterFails, TypeOK, vars, connVars, agentVars, requestVars
<1>8. ASSUME NEW c \in Conns, WriterQuits(c) PROVE TypeOK'
  BY <1>8 DEF WriterQuits, Frame, Match, TypeOK, vars, connVars, agentVars, requestVars
<1>9. ASSUME NEW c \in Conns, HandOver(c) PROVE TypeOK'
  <2>1. matched[c] \in Match
    BY <1>9 DEF HandOver, TypeOK
  <2>2. matched[c].waiter \in Requests /\ matched[c].frame \in Frame
    BY <2>1 DEF Match
  <2>3. QED BY <1>9, <2>2 DEF HandOver, TypeOK, vars, connVars, agentVars, requestVars
<1>10. ASSUME NEW c \in Conns, AgentDisconnects(c) PROVE TypeOK'
  BY <1>10 DEF AgentDisconnects, Frame, Match, TypeOK, vars, connVars, agentVars, requestVars
<1>11. ASSUME NEW c \in Conns, NEW f \in answers[c], ReadAnswer(c, f) PROVE TypeOK'
  <2>1. matched' \in [Conns -> Match \union {Nothing}]
    BY <1>11, MatchedEntry DEF ReadAnswer, TypeOK, Match, Frame
  <2>2. QED BY <1>11, <2>1 DEF ReadAnswer, TypeOK, vars, connVars, agentVars, requestVars
<1>12. ASSUME NEW c \in Conns, NEW f \in working[c], Loopback(c, f) PROVE TypeOK'
  <2>1. f \in Frame /\ f.req \in Requests
    BY DEF TypeOK, Frame
  <2>2. carriedOut' \in [Requests -> Nat]
    BY <1>12, <2>1 DEF Loopback, TypeOK
  <2>3. answers' \in [Conns -> SUBSET Frame] /\ working' \in [Conns -> SUBSET Frame]
    BY <1>12, <2>1 DEF Loopback, TypeOK
  <2>4. QED BY <1>12, <2>2, <2>3 DEF Loopback, TypeOK, vars, connVars, agentVars, requestVars
<1>13. ASSUME NEW k \in Keys, AgentCrashes(k) PROVE TypeOK'
  BY <1>13 DEF AgentCrashes, TypeOK, vars, connVars, agentVars, requestVars
<1>14. ASSUME NEW r \in Requests, NEW k \in Keys, Get(r, k) PROVE TypeOK'
  BY <1>14 DEF Get, Failures, TypeOK, vars, connVars, agentVars, requestVars
<1>15. ASSUME NEW r \in Requests, BeginDo(r) PROVE TypeOK'
  <2>1. via[r] \in Conns /\ FreshID(via[r]) \in Nat
    BY <1>15, InsideDo DEF BeginDo, FreshID, TypeOK
  <2>2. [id |-> FreshID(via[r]), req |-> r] \in Frame
    BY <2>1 DEF Frame
  <2>3. /\ nextID' \in [Conns -> Nat]
        /\ tag' \in [Requests -> Nat]
        /\ pending' \in [Conns -> SUBSET Frame]
    BY <1>15, <2>1, <2>2 DEF BeginDo, TypeOK
  <2>4. QED BY <1>15, <2>3 DEF BeginDo, TypeOK, vars, connVars, agentVars, requestVars
<1>16. ASSUME NEW r \in Requests, Enqueue(r) PROVE TypeOK'
  <2>1. via[r] \in Conns /\ outbound[via[r]] \in Seq(Frame)
    BY <1>16, InsideDo DEF Enqueue, TypeOK
  <2>2. [id |-> tag[r], req |-> r] \in Frame
    BY DEF Frame, TypeOK
  <2>3. outbound' \in [Conns -> Seq(Frame)]
    BY <1>16, <2>1, <2>2, QueueAppend DEF Enqueue, TypeOK
  <2>4. Len(Append(outbound[via[r]], [id |-> tag[r], req |-> r])) <= OutCap
    BY <1>16, <2>1, <2>2, QueueAppend DEF Enqueue
  <2>5. \A d \in Conns : Len(outbound'[d]) <= OutCap
    BY <1>16, <2>1, <2>4 DEF Enqueue, TypeOK
  <2>6. QED BY <1>16, <2>3, <2>5 DEF Enqueue, TypeOK, vars, connVars, agentVars, requestVars
<1>17. ASSUME NEW r \in Requests, TakeAnswer(r) PROVE TypeOK'
  BY <1>17, InsideDo DEF TakeAnswer, FreshID, CleanUp, Frame, Failures, TypeOK, vars, connVars, agentVars, requestVars
<1>18. ASSUME NEW r \in Requests, GiveUp(r) PROVE TypeOK'
  BY <1>18, InsideDo DEF GiveUp, FreshID, CleanUp, Frame, Failures, TypeOK, vars, connVars, agentVars, requestVars
<1>19. ASSUME NEW r \in Requests, SeeClosed(r) PROVE TypeOK'
  BY <1>19, InsideDo DEF SeeClosed, FreshID, CleanUp, Frame, Failures, TypeOK, vars, connVars, agentVars, requestVars
<1>20. ASSUME NEW r \in Requests, RefuseBody(r) PROVE TypeOK'
  BY <1>20 DEF RefuseBody, Failures, TypeOK, vars, connVars, agentVars, requestVars
<1>21. CASE UNCHANGED vars
  BY <1>21 DEF TypeOK, vars, connVars, agentVars, requestVars
<1>22. QED
  BY <1>21, <1>1, <1>2, <1>3, <1>4, <1>5, <1>6, <1>7, <1>8, <1>9, <1>10, <1>11, <1>12, <1>13, <1>14, <1>15, <1>16, <1>17, <1>18, <1>19, <1>20 DEF Next, ConnStep, RequestStep

----------------------------------------------------------------------------
(* Where frames are *)

LEMMA RequestsWellFormedKept ==
    RequestsWellFormed /\ UNCHANGED <<step, via, tag, reply, nextID>> => RequestsWellFormed'
BY DEF RequestsWellFormed

LEMMA TagsDifferKept ==
    TagsDiffer /\ UNCHANGED <<via, tag>> => TagsDiffer'
BY DEF TagsDiffer

LEMMA FramesBelongKept ==
    FramesBelong /\ UNCHANGED <<via, tag, outbound, pending, working, answers, matched>> => FramesBelong'
BY DEF FramesBelong, Belongs

LEMMA CarriedOutOnceKept ==
    CarriedOutOnce /\ UNCHANGED <<step, tag, outbound, working, answers, matched, carriedOut>>
        => CarriedOutOnce'
BY DEF CarriedOutOnce

LEMMA ChannelsHoldAnswersKept ==
    ChannelsHoldAnswers /\ UNCHANGED <<respCh, carriedOut>> => ChannelsHoldAnswers'
BY DEF ChannelsHoldAnswers

LEMMA PendingUnansweredKept ==
    PendingUnanswered /\ UNCHANGED <<step, respCh, pending, matched>> => PendingUnanswered'
BY DEF PendingUnanswered

LEMMA FramesTyped ==
    ASSUME TypeOK, NEW c \in Conns
    PROVE  /\ \A n \in DOMAIN outbound[c] : outbound[c][n] \in Frame /\ outbound[c][n].req \in Requests
           /\ \A f \in pending[c] : f \in Frame /\ f.req \in Requests
           /\ \A f \in working[c] : f \in Frame /\ f.req \in Requests
           /\ \A f \in answers[c] : f \in Frame /\ f.req \in Requests
           /\ matched[c] # Nothing => matched[c].frame \in Frame /\ matched[c].frame.req \in Requests
<1>1. \A n \in DOMAIN outbound[c] : outbound[c][n] \in Frame
  BY DEF TypeOK
<1>2. pending[c] \subseteq Frame /\ working[c] \subseteq Frame /\ answers[c] \subseteq Frame
  BY DEF TypeOK
<1>3. matched[c] # Nothing => matched[c].frame \in Frame
  BY DEF TypeOK, Match
<1>4. QED BY <1>1, <1>2, <1>3 DEF Frame

LEMMA FrameInit == Init => FrameInv
BY RelayAssumption DEF Init, FrameInv, RequestsWellFormed, TagsDiffer, FramesBelong,
   CarriedOutOnce, ChannelsHoldAnswers, PendingUnanswered

LEMMA FrameUnchanged ==
    FrameInv /\ UNCHANGED <<requestVars, outbound, nextID, pending, matched, working, answers, carriedOut>>
        => FrameInv'
BY RequestsWellFormedKept, TagsDifferKept, FramesBelongKept, CarriedOutOnceKept,
   ChannelsHoldAnswersKept, PendingUnansweredKept DEF FrameInv, requestVars

\* A frame leaves the head of a queue.
LEMMA QueueShrinks ==
    ASSUME TypeOK, FramesBelong, CarriedOutOnce, NEW c \in Conns,
           outbound[c] # <<>>, outbound' = [outbound EXCEPT ![c] = Tail(@)]
    PROVE  /\ Head(outbound[c]) \in Frame
           /\ Head(outbound[c]) = outbound[c][1] /\ 1 \in DOMAIN outbound[c]
           /\ \A d \in Conns : \A n \in DOMAIN outbound'[d] :
                /\ outbound'[d][n] # Head(outbound[c]) \/ d # c
                /\ \E m \in DOMAIN outbound[d] : outbound'[d][n] = outbound[d][m]
           /\ \A d \in Conns : \A m, n \in DOMAIN outbound'[d] :
                outbound'[d][m] = outbound'[d][n] => m = n
<1>1. outbound[c] \in Seq(Frame) /\ DOMAIN outbound = Conns
  BY DEF TypeOK
<1>2. outbound'[c] = Tail(outbound[c]) /\ \A d \in Conns : d # c => outbound'[d] = outbound[d]
  BY <1>1
<1>3. /\ Head(outbound[c]) \in Frame
      /\ Head(outbound[c]) = outbound[c][1] /\ 1 \in DOMAIN outbound[c]
      /\ \A n \in DOMAIN Tail(outbound[c]) :
            /\ n \in Nat /\ n + 1 \in DOMAIN outbound[c] /\ n + 1 # 1
            /\ Tail(outbound[c])[n] = outbound[c][n + 1]
  BY <1>1, QueueTail
<1>4. \A m, n \in DOMAIN outbound[c] : outbound[c][m] = outbound[c][n] => m = n
  BY DEF CarriedOutOnce
<1>5. \A m, n \in DOMAIN Tail(outbound[c]) :
        Tail(outbound[c])[m] = Tail(outbound[c])[n] => m = n
  <2> SUFFICES ASSUME NEW m \in DOMAIN Tail(outbound[c]), NEW n \in DOMAIN Tail(outbound[c]),
                      Tail(outbound[c])[m] = Tail(outbound[c])[n]
               PROVE  m = n
    OBVIOUS
  <2>1. m + 1 = n + 1 /\ m \in Nat /\ n \in Nat
    BY <1>3, <1>4
  <2>2. QED BY <2>1
<1>6. \A n \in DOMAIN Tail(outbound[c]) : Tail(outbound[c])[n] # Head(outbound[c])
  BY <1>3, <1>4
<1>7. \A d \in Conns : \A n \in DOMAIN outbound'[d] :
        /\ outbound'[d][n] # Head(outbound[c]) \/ d # c
        /\ \E m \in DOMAIN outbound[d] : outbound'[d][n] = outbound[d][m]
  <2> SUFFICES ASSUME NEW d \in Conns, NEW n \in DOMAIN outbound'[d]
               PROVE  /\ outbound'[d][n] # Head(outbound[c]) \/ d # c
                      /\ \E m \in DOMAIN outbound[d] : outbound'[d][n] = outbound[d][m]
    OBVIOUS
  <2>1. CASE d = c
    <3>1. n \in DOMAIN Tail(outbound[c]) /\ outbound'[d][n] = Tail(outbound[c])[n]
      BY <2>1, <1>2
    <3>2. n + 1 \in DOMAIN outbound[d] /\ outbound'[d][n] = outbound[d][n + 1]
      BY <2>1, <3>1, <1>3
    <3>3. QED BY <3>1, <3>2, <1>6
  <2>2. CASE d # c
    BY <2>2, <1>2
  <2>3. QED BY <2>1, <2>2
<1>8. \A d \in Conns : \A m, n \in DOMAIN outbound'[d] : outbound'[d][m] = outbound'[d][n] => m = n
  BY <1>2, <1>5 DEF CarriedOutOnce
<1>9. QED
  BY <1>3, <1>7, <1>8

LEMMA WriterSendsStep ==
    ASSUME TypeOK, FrameInv, NEW c \in Conns, WriterSends(c)
    PROVE  FrameInv'
<1> DEFINE h == Head(outbound[c])
<1>1. outbound[c] # <<>> /\ outbound' = [outbound EXCEPT ![c] = Tail(@)]
  BY DEF WriterSends
<1>2. /\ h \in Frame
      /\ h = outbound[c][1] /\ 1 \in DOMAIN outbound[c]
      /\ \A d \in Conns : \A n \in DOMAIN outbound'[d] :
            /\ outbound'[d][n] # h \/ d # c
            /\ \E m \in DOMAIN outbound[d] : outbound'[d][n] = outbound[d][m]
      /\ \A d \in Conns : \A m, n \in DOMAIN outbound'[d] :
            outbound'[d][m] = outbound'[d][n] => m = n
  BY <1>1, QueueShrinks DEF FrameInv
<1>3. \A d \in Conns : \A f \in working'[d] : f \in working[d] \/ (d = c /\ f = h)
  BY DEF WriterSends, TypeOK
<1>4. UNCHANGED <<step, via, tag, reply, nextID, pending, answers, matched, respCh, carriedOut>>
  BY DEF WriterSends, requestVars
<1>5. FramesBelong'
  BY <1>2, <1>3, <1>4 DEF FramesBelong, FrameInv, Belongs
<1>6. CarriedOutOnce'
  BY <1>2, <1>3, <1>4 DEF CarriedOutOnce, FrameInv
<1>7. QED
  BY <1>4, <1>5, <1>6, RequestsWellFormedKept, TagsDifferKept, ChannelsHoldAnswersKept,
     PendingUnansweredKept DEF FrameInv

LEMMA WriterFailsStep ==
    ASSUME TypeOK, FrameInv, NEW c \in Conns, WriterFails(c)
    PROVE  FrameInv'
<1>1. outbound[c] # <<>> /\ outbound' = [outbound EXCEPT ![c] = Tail(@)]
  BY DEF WriterFails
<1>2. /\ \A d \in Conns : \A n \in DOMAIN outbound'[d] :
            /\ outbound'[d][n] # Head(outbound[c]) \/ d # c
            /\ \E m \in DOMAIN outbound[d] : outbound'[d][n] = outbound[d][m]
      /\ \A d \in Conns : \A m, n \in DOMAIN outbound'[d] :
            outbound'[d][m] = outbound'[d][n] => m = n
  BY <1>1, QueueShrinks DEF FrameInv
<1>4. UNCHANGED <<step, via, tag, reply, nextID, pending, working, answers, matched, respCh, carriedOut>>
  BY DEF WriterFails, requestVars, agentVars
<1>5. FramesBelong'
  BY <1>2, <1>4 DEF FramesBelong, FrameInv, Belongs
<1>6. CarriedOutOnce'
  BY <1>2, <1>4 DEF CarriedOutOnce, FrameInv
<1>7. QED
  BY <1>4, <1>5, <1>6, RequestsWellFormedKept, TagsDifferKept, ChannelsHoldAnswersKept,
     PendingUnansweredKept DEF FrameInv

LEMMA HandOverStep ==
    ASSUME TypeOK, FrameInv, NEW c \in Conns, HandOver(c)
    PROVE  FrameInv'
<1> DEFINE r == matched[c].waiter
<1>1. /\ matched[c] # Nothing /\ matched[c] \in Match
      /\ r \in Requests /\ matched[c].frame \in Frame
      /\ Belongs(c, matched[c].frame) /\ r = matched[c].frame.req
      /\ carriedOut[r] = 1
  BY DEF HandOver, TypeOK, FrameInv, FramesBelong, CarriedOutOnce, Match
<1>2. /\ respCh'[r] = matched[c].frame
      /\ \A s \in Requests : s # r => respCh'[s] = respCh[s]
      /\ matched'[c] = Nothing
      /\ \A d \in Conns : d # c => matched'[d] = matched[d]
  BY <1>1 DEF HandOver, TypeOK
<1>3. UNCHANGED <<step, via, tag, reply, nextID, outbound, pending, working, answers, carriedOut>>
  BY DEF HandOver, agentVars
<1>4. FramesBelong'
  BY <1>2, <1>3 DEF FramesBelong, FrameInv, Belongs
<1>5. CarriedOutOnce'
  BY <1>2, <1>3 DEF CarriedOutOnce, FrameInv
<1>6. ChannelsHoldAnswers'
  BY <1>1, <1>2, <1>3 DEF ChannelsHoldAnswers, FrameInv
<1>7. PendingUnanswered'
  <2>1. ASSUME NEW d \in Conns, NEW p \in pending[d] PROVE p.req # r
    <3>1. CASE d = c
      BY <1>1, <2>1, <3>1 DEF PendingUnanswered, FrameInv
    <3>2. CASE d # c
      BY <1>1, <2>1, <3>2 DEF FramesBelong, FrameInv, Belongs
    <3>3. QED BY <3>1, <3>2
  <2>2. \A d \in Conns : \A p \in pending[d] : p.req \in Requests
    BY DEF TypeOK, Frame
  <2>3. QED BY <1>2, <1>3, <2>1, <2>2 DEF PendingUnanswered, FrameInv
<1>8. QED
  BY <1>3, <1>4, <1>5, <1>6, <1>7, RequestsWellFormedKept, TagsDifferKept DEF FrameInv


LEMMA ReadAnswerStep ==
    ASSUME TypeOK, FrameInv, NEW c \in Conns, NEW f \in answers[c], ReadAnswer(c, f)
    PROVE  FrameInv'
<1> DEFINE p == CHOOSE q \in pending[c] : q.id = f.id
<1>1. /\ f \in Frame /\ f.req \in Requests
      /\ Belongs(c, f) /\ carriedOut[f.req] = 1
  BY DEF TypeOK, Frame, FrameInv, FramesBelong, CarriedOutOnce
<1>2. UNCHANGED <<step, via, tag, reply, nextID, outbound, working, respCh, carriedOut>>
  BY DEF ReadAnswer, requestVars
<1>3. /\ \A d \in Conns : answers'[d] \subseteq answers[d] /\ pending'[d] \subseteq pending[d]
      /\ \A d \in Conns : d # c => matched'[d] = matched[d]
      /\ \A q \in pending'[c] : q.id # f.id
  BY DEF ReadAnswer, TypeOK
<1>4. matched'[c] # Nothing =>
        /\ matched'[c].frame = f
        /\ matched'[c].waiter = f.req
  <2>1. CASE \E q \in pending[c] : q.id = f.id
    <3>1. p \in pending[c] /\ p.id = f.id
      BY <2>1, MatchedEntry
    <3>2. matched'[c] = [waiter |-> p.req, frame |-> f]
      BY <2>1 DEF ReadAnswer, TypeOK
    <3>3. Belongs(c, p) /\ p.req \in Requests
      BY <3>1 DEF FrameInv, FramesBelong, TypeOK, Frame
    <3>4. p.req = f.req
      BY <1>1, <3>1, <3>3 DEF Belongs, FrameInv, TagsDiffer
    <3>5. QED BY <3>2, <3>4
  <2>2. CASE ~\E q \in pending[c] : q.id = f.id
    BY <2>2 DEF ReadAnswer, TypeOK
  <2>3. QED BY <2>1, <2>2
<1>5. FramesBelong'
  BY <1>1, <1>2, <1>3, <1>4 DEF FramesBelong, FrameInv, Belongs
<1>6. CarriedOutOnce'
  BY <1>1, <1>2, <1>3, <1>4 DEF CarriedOutOnce, FrameInv
<1>7. PendingUnanswered'
  <2>1. ASSUME NEW q \in pending'[c], matched'[c] # Nothing PROVE matched'[c].frame.req # q.req
    <3>1. q \in pending[c] /\ q.id # f.id
      BY <1>3
    <3>2. Belongs(c, q)
      BY <3>1 DEF FrameInv, FramesBelong
    <3>3. QED BY <1>1, <1>4, <2>1, <3>1, <3>2 DEF Belongs
  <2>2. QED BY <1>2, <1>3, <2>1 DEF PendingUnanswered, FrameInv
<1>8. QED
  BY <1>2, <1>5, <1>6, <1>7, RequestsWellFormedKept, TagsDifferKept, ChannelsHoldAnswersKept DEF FrameInv

LEMMA LoopbackStep ==
    ASSUME TypeOK, FrameInv, NEW c \in Conns, NEW f \in working[c], Loopback(c, f)
    PROVE  FrameInv'
<1>1. /\ f \in Frame /\ f.req \in Requests
      /\ Belongs(c, f) /\ carriedOut[f.req] = 0 /\ step[f.req] # "sending" /\ tag[f.req] # 0
  BY DEF TypeOK, Frame, FrameInv, FramesBelong, CarriedOutOnce, Belongs
<1>2. UNCHANGED <<step, via, tag, reply, nextID, outbound, pending, matched, respCh>>
  BY DEF Loopback, requestVars, connVars
<1>3. /\ \A d \in Conns : d # c => working'[d] = working[d]
      /\ working'[c] = working[c] \ {f}
      /\ \A d \in Conns : \A g \in answers'[d] : g \in answers[d] \/ (d = c /\ g = f)
      /\ carriedOut'[f.req] = 1
      /\ \A s \in Requests : s # f.req => carriedOut'[s] = carriedOut[s]
  BY <1>1 DEF Loopback, TypeOK
<1>4. ASSUME NEW d \in Conns, NEW g \in Frame, Belongs(d, g), g.req = f.req
      PROVE  d = c /\ g = f
  BY <1>1, <1>4 DEF Belongs, Frame
<1>5. FramesBelong'
  BY <1>1, <1>2, <1>3 DEF FramesBelong, FrameInv, Belongs
<1>6. CarriedOutOnce'
  <2>1. ASSUME NEW d \in Conns, NEW n \in DOMAIN outbound[d]
        PROVE  /\ outbound[d][n] \in Frame /\ outbound[d][n].req \in Requests
               /\ outbound[d][n].req # f.req
    <3>1. outbound[d][n] \in Frame /\ Belongs(d, outbound[d][n]) /\ outbound[d][n] \notin working[d]
      BY DEF FrameInv, FramesBelong, CarriedOutOnce, TypeOK
    <3>2. QED BY <1>4, <3>1 DEF Frame
  <2>2. ASSUME NEW d \in Conns, NEW g \in working'[d]
        PROVE  g \in working[d] /\ g.req \in Requests /\ g.req # f.req
    <3>0. g \in working[d]
      BY <1>3
    <3>1. g \in Frame /\ Belongs(d, g)
      BY <3>0 DEF FrameInv, FramesBelong, TypeOK
    <3>2. QED BY <1>3, <1>4, <3>0, <3>1 DEF Frame
  <2>3. ASSUME NEW d \in Conns, NEW g \in answers'[d]
        PROVE  g.req \in Requests /\ carriedOut'[g.req] = 1
    <3>1. CASE g \in answers[d]
      <4>1. g.req \in Requests /\ carriedOut[g.req] = 1
        BY <3>1 DEF FrameInv, CarriedOutOnce, TypeOK, Frame
      <4>2. QED BY <1>3, <4>1
    <3>2. CASE g = f
      BY <1>1, <1>3, <3>2
    <3>3. QED BY <1>3, <3>1, <3>2
  <2>4. ASSUME NEW d \in Conns, matched[d] # Nothing
        PROVE  carriedOut'[matched[d].frame.req] = 1
    <3>1. matched[d].frame.req \in Requests /\ carriedOut[matched[d].frame.req] = 1
      BY <2>4 DEF FrameInv, CarriedOutOnce, TypeOK, Match, Frame
    <3>2. QED BY <1>3, <3>1
  <2>5. /\ \A r \in Requests : carriedOut'[r] \in {0, 1}
        /\ \A r \in Requests : step[r] = "sending" => carriedOut'[r] = 0
        /\ \A r \in Requests : tag[r] = 0 => carriedOut'[r] = 0
    BY <1>1, <1>3 DEF FrameInv, CarriedOutOnce
  <2>6. \A d \in Conns : \A n \in DOMAIN outbound[d] :
            /\ step[outbound[d][n].req] # "sending"
            /\ outbound[d][n] \notin working'[d]
            /\ carriedOut'[outbound[d][n].req] = 0
    BY <1>3, <2>1, <2>2 DEF FrameInv, CarriedOutOnce
  <2>7. \A d \in Conns : \A g \in working'[d] : step[g.req] # "sending" /\ carriedOut'[g.req] = 0
    BY <1>3, <2>2 DEF FrameInv, CarriedOutOnce
  <2>8. QED BY <1>2, <2>3, <2>4, <2>5, <2>6, <2>7 DEF CarriedOutOnce, FrameInv
<1>7. ChannelsHoldAnswers'
  BY <1>2, <1>3 DEF ChannelsHoldAnswers, FrameInv
<1>8. QED
  BY <1>2, <1>5, <1>6, <1>7, RequestsWellFormedKept, TagsDifferKept, PendingUnansweredKept DEF FrameInv

LEMMA AgentCrashesStep ==
    ASSUME TypeOK, FrameInv, NEW k \in Keys, AgentCrashes(k)
    PROVE  FrameInv'
<1>1. UNCHANGED <<step, via, tag, reply, nextID, outbound, pending, answers, matched, respCh, carriedOut>>
  BY DEF AgentCrashes, connVars, requestVars
<1>2. \A c \in Conns : working'[c] \subseteq working[c]
  BY DEF AgentCrashes
<1>3. FramesBelong'
  BY <1>1, <1>2 DEF FramesBelong, FrameInv, Belongs
<1>4. CarriedOutOnce'
  BY <1>1, <1>2 DEF CarriedOutOnce, FrameInv
<1>5. QED
  BY <1>1, <1>3, <1>4, RequestsWellFormedKept, TagsDifferKept, ChannelsHoldAnswersKept,
     PendingUnansweredKept DEF FrameInv


LEMMA GetStep ==
    ASSUME TypeOK, FrameInv, NEW r \in Requests, NEW k \in Keys, Get(r, k)
    PROVE  FrameInv'
<1>1. /\ step[r] = "idle" /\ tag[r] = 0 /\ reply[r] = "none"
      /\ current[k] \in Conns \union {NoConn}
  BY DEF Get, FrameInv, RequestsWellFormed, TypeOK
<1>2. UNCHANGED <<tag, nextID, outbound, pending, working, answers, matched, respCh, carriedOut>>
  BY DEF Get, connVars, agentVars
<1>3. /\ \A s \in Requests : s # r => step'[s] = step[s] /\ via'[s] = via[s] /\ reply'[s] = reply[s]
      /\ \/ step'[r] = "holding" /\ via'[r] \in Conns /\ reply'[r] = "none"
         \/ step'[r] = "done" /\ reply'[r] = "agent not connected"
  BY <1>1 DEF Get, TypeOK
<1>4. RequestsWellFormed'
  BY <1>1, <1>2, <1>3 DEF RequestsWellFormed, FrameInv
<1>5. TagsDiffer'
  BY <1>1, <1>2, <1>3 DEF TagsDiffer, FrameInv
<1>6. ASSUME NEW c \in Conns, NEW f \in Frame, Belongs(c, f)
      PROVE  f.req \in Requests /\ f.req # r /\ Belongs(c, f)'
  BY <1>1, <1>2, <1>3, <1>6 DEF Belongs, Frame
<1>7. \A c \in Conns :
        /\ \A n \in DOMAIN outbound[c] : outbound[c][n] \in Frame
        /\ pending[c] \subseteq Frame /\ working[c] \subseteq Frame /\ answers[c] \subseteq Frame
        /\ matched[c] # Nothing => matched[c].frame \in Frame
  BY DEF TypeOK, Match
<1>8. FramesBelong'
  BY <1>2, <1>6, <1>7 DEF FramesBelong, FrameInv
<1>9. CarriedOutOnce'
  <2>1. \A s \in Requests : step'[s] = "sending" => step[s] = "sending"
    BY <1>3
  <2>2. \A c \in Conns : \A n \in DOMAIN outbound[c] : outbound[c][n].req \in Requests
    BY <1>7 DEF Frame
  <2>3. \A c \in Conns : \A f \in working[c] : f.req \in Requests
    BY <1>7 DEF Frame
  <2>4. QED BY <1>2, <2>1, <2>2, <2>3 DEF CarriedOutOnce, FrameInv
<1>10. PendingUnanswered'
  <2>1. \A c \in Conns : \A p \in pending[c] : p.req \in Requests /\ p.req # r
    BY <1>6, <1>7 DEF FrameInv, FramesBelong
  <2>2. QED BY <1>2, <1>3, <2>1 DEF PendingUnanswered, FrameInv
<1>11. QED
  BY <1>2, <1>4, <1>5, <1>8, <1>9, <1>10, ChannelsHoldAnswersKept DEF FrameInv

LEMMA BeginDoStep ==
    ASSUME TypeOK, FrameInv, NEW r \in Requests, BeginDo(r)
    PROVE  FrameInv'
<1> DEFINE c == via[r]
           t == FreshID(c)
           f == [id |-> t, req |-> r]
<1>1. /\ c \in Conns /\ step[r] = "holding" /\ tag[r] = 0 /\ carriedOut[r] = 0
      /\ nextID[c] \in Nat /\ t \in Nat /\ t # 0 /\ t = nextID[c] + 1
      /\ respCh[r] = Nothing
  <2>1. step[r] = "holding" /\ c \in Conns /\ tag[r] = 0 /\ carriedOut[r] = 0
    BY DEF BeginDo, FrameInv, RequestsWellFormed, CarriedOutOnce
  <2>2. nextID[c] \in Nat
    BY <2>1 DEF TypeOK
  <2>3. respCh[r] = Nothing
    BY <2>1 DEF ChannelsHoldAnswers, FrameInv
  <2>4. QED BY <2>1, <2>2, <2>3 DEF FreshID
<1>2. UNCHANGED <<via, reply, outbound, working, answers, matched, respCh, carriedOut>>
  BY DEF BeginDo, agentVars
<1>3. /\ \A s \in Requests : s # r => step'[s] = step[s] /\ tag'[s] = tag[s]
      /\ step'[r] = "sending" /\ tag'[r] = t
      /\ nextID'[c] = t
      /\ \A d \in Conns : d # c => nextID'[d] = nextID[d] /\ pending'[d] = pending[d]
      /\ pending'[c] = pending[c] \union {f}
  BY <1>1 DEF BeginDo, TypeOK
<1>4. \A s \in Requests : tag[s] # 0 => tag[s] \in Nat /\ via[s] \in Conns /\ tag[s] <= nextID[via[s]]
  BY DEF FrameInv, RequestsWellFormed, TypeOK
<1>5. RequestsWellFormed'
  <2>1. \A s \in Requests : tag'[s] # 0 => via[s] \in Conns /\ tag'[s] <= nextID'[via[s]]
    <3> SUFFICES ASSUME NEW s \in Requests, tag'[s] # 0
                 PROVE  via[s] \in Conns /\ tag'[s] <= nextID'[via[s]]
      OBVIOUS
    <3>1. CASE s = r
      BY <3>1, <1>1, <1>3
    <3>2. CASE s # r /\ via[s] = c
      BY <3>2, <1>1, <1>3, <1>4
    <3>3. CASE s # r /\ via[s] # c
      BY <3>3, <1>3, <1>4
    <3>4. QED BY <3>1, <3>2, <3>3
  <2>2. QED BY <1>1, <1>2, <1>3, <2>1 DEF RequestsWellFormed, FrameInv
<1>6. TagsDiffer'
  <2>1. \A s \in Requests : s # r /\ tag[s] # 0 /\ via[s] = c => tag[s] # t
    BY <1>1, <1>4
  <2>2. QED BY <1>2, <1>3, <2>1 DEF TagsDiffer, FrameInv
<1>7. ASSUME NEW d \in Conns, NEW g \in Frame, Belongs(d, g)
      PROVE  g.req \in Requests /\ g.req # r /\ Belongs(d, g)'
  BY <1>1, <1>2, <1>3, <1>7 DEF Belongs, Frame
<1>8. \A d \in Conns :
        /\ \A n \in DOMAIN outbound[d] : outbound[d][n] \in Frame
        /\ pending[d] \subseteq Frame /\ working[d] \subseteq Frame /\ answers[d] \subseteq Frame
        /\ matched[d] # Nothing => matched[d].frame \in Frame
  BY DEF TypeOK, Match
<1>9. FramesBelong'
  <2>1. \A d \in Conns : \A g \in pending'[d] : via'[g.req] = d /\ tag'[g.req] = g.id /\ g.id # 0
    <3> SUFFICES ASSUME NEW d \in Conns, NEW g \in pending'[d]
                 PROVE  via'[g.req] = d /\ tag'[g.req] = g.id /\ g.id # 0
      OBVIOUS
    <3>1. CASE g \in pending[d]
      BY <3>1, <1>7, <1>8 DEF FramesBelong, FrameInv, Belongs
    <3>2. CASE d = c /\ g = f
      BY <3>2, <1>1, <1>2, <1>3
    <3>3. QED BY <3>1, <3>2, <1>3
  <2>2. QED BY <1>2, <1>7, <1>8, <2>1 DEF FramesBelong, FrameInv, Belongs
<1>10. CarriedOutOnce'
  <2>1. \A d \in Conns : \A n \in DOMAIN outbound[d] :
          outbound[d][n].req \in Requests /\ outbound[d][n].req # r
    BY <1>7, <1>8 DEF FramesBelong, FrameInv
  <2>2. \A d \in Conns : \A g \in working[d] : g.req \in Requests /\ g.req # r
    BY <1>7, <1>8 DEF FramesBelong, FrameInv
  <2>3. QED BY <1>1, <1>2, <1>3, <2>1, <2>2 DEF CarriedOutOnce, FrameInv
<1>11. PendingUnanswered'
  <2>1. \A d \in Conns : \A g \in pending[d] : g.req \in Requests /\ g.req # r
    BY <1>7, <1>8 DEF FramesBelong, FrameInv
  <2>2. \A d \in Conns : matched[d] # Nothing => matched[d].frame.req # r
    BY <1>7, <1>8 DEF FramesBelong, FrameInv
  <2>3. QED BY <1>1, <1>2, <1>3, <2>1, <2>2 DEF PendingUnanswered, FrameInv
<1>12. QED
  BY <1>2, <1>5, <1>6, <1>9, <1>10, <1>11, ChannelsHoldAnswersKept DEF FrameInv

LEMMA EnqueueStep ==
    ASSUME TypeOK, FrameInv, NEW r \in Requests, Enqueue(r)
    PROVE  FrameInv'
<1> DEFINE c == via[r]
           f == [id |-> tag[r], req |-> r]
<1>1. /\ c \in Conns /\ step[r] = "sending" /\ tag[r] # 0 /\ carriedOut[r] = 0
      /\ outbound[c] \in Seq(Frame) /\ f \in Frame /\ f.id = tag[r] /\ f.req = r
  BY DEF Enqueue, FrameInv, RequestsWellFormed, CarriedOutOnce, TypeOK, Frame
<1>2. UNCHANGED <<via, tag, nextID, pending, reply, working, answers, matched, respCh, carriedOut>>
  BY DEF Enqueue, agentVars
<1>3. /\ \A s \in Requests : s # r => step'[s] = step[s]
      /\ step'[r] = "waiting"
      /\ outbound'[c] = Append(outbound[c], f)
      /\ \A d \in Conns : d # c => outbound'[d] = outbound[d]
  BY <1>1 DEF Enqueue, TypeOK
<1>4. Belongs(c, f)
  BY <1>1 DEF Belongs
<1>5. \A d \in Conns : \A n \in DOMAIN outbound'[d] :
        \/ n \in DOMAIN outbound[d] /\ outbound'[d][n] = outbound[d][n]
        \/ d = c /\ n = Len(outbound[c]) + 1 /\ outbound'[d][n] = f
  <2> SUFFICES ASSUME NEW d \in Conns, NEW n \in DOMAIN outbound'[d]
               PROVE  \/ n \in DOMAIN outbound[d] /\ outbound'[d][n] = outbound[d][n]
                      \/ d = c /\ n = Len(outbound[c]) + 1 /\ outbound'[d][n] = f
    OBVIOUS
  <2>1. CASE d = c
    BY <2>1, <1>1, <1>3, QueueAppend
  <2>2. CASE d # c
    BY <2>2, <1>3
  <2>3. QED BY <2>1, <2>2
<1>6. ASSUME NEW d \in Conns, NEW n \in DOMAIN outbound[d]
      PROVE  /\ outbound[d][n] \in Frame /\ outbound[d][n].req \in Requests
             /\ outbound[d][n] # f /\ outbound[d][n].req # r
  <2>1. outbound[d][n] \in Frame /\ step[outbound[d][n].req] # "sending"
    BY DEF FrameInv, CarriedOutOnce, TypeOK
  <2>2. QED BY <1>1, <2>1 DEF Frame
<1>7. ASSUME NEW d \in Conns, NEW g \in working[d]
      PROVE  g.req \in Requests /\ g # f /\ g.req # r
  <2>1. g \in Frame /\ step[g.req] # "sending"
    BY DEF FrameInv, CarriedOutOnce, TypeOK
  <2>2. QED BY <1>1, <2>1 DEF Frame
<1>8. RequestsWellFormed'
  BY <1>1, <1>2, <1>3 DEF RequestsWellFormed, FrameInv
<1>9. FramesBelong'
  BY <1>2, <1>4, <1>5 DEF FramesBelong, FrameInv, Belongs
<1>10. CarriedOutOnce'
  <2>1. \A d \in Conns : \A m, n \in DOMAIN outbound'[d] : outbound'[d][m] = outbound'[d][n] => m = n
    BY <1>5, <1>6 DEF CarriedOutOnce, FrameInv
  <2>2. \A d \in Conns : \A n \in DOMAIN outbound'[d] :
            /\ step'[outbound'[d][n].req] # "sending"
            /\ outbound'[d][n] \notin working[d]
            /\ carriedOut[outbound'[d][n].req] = 0
    <3> SUFFICES ASSUME NEW d \in Conns, NEW n \in DOMAIN outbound'[d]
                 PROVE  /\ step'[outbound'[d][n].req] # "sending"
                        /\ outbound'[d][n] \notin working[d]
                        /\ carriedOut[outbound'[d][n].req] = 0
      OBVIOUS
    <3>1. CASE n \in DOMAIN outbound[d] /\ outbound'[d][n] = outbound[d][n]
      BY <3>1, <1>3, <1>6 DEF CarriedOutOnce, FrameInv
    <3>2. CASE d = c /\ outbound'[d][n] = f
      BY <3>2, <1>1, <1>3, <1>7
    <3>3. QED BY <3>1, <3>2, <1>5
  <2>3. \A d \in Conns : \A g \in working[d] : step'[g.req] # "sending"
    BY <1>3, <1>7 DEF CarriedOutOnce, FrameInv
  <2>4. QED BY <1>2, <1>3, <2>1, <2>2, <2>3 DEF CarriedOutOnce, FrameInv
<1>11. PendingUnanswered'
  <2>1. \A d \in Conns : \A p \in pending[d] : p.req \in Requests
    BY DEF TypeOK, Frame
  <2>2. QED BY <1>2, <1>3, <2>1 DEF PendingUnanswered, FrameInv
<1>12. QED
  BY <1>2, <1>8, <1>9, <1>10, <1>11, TagsDifferKept, ChannelsHoldAnswersKept DEF FrameInv

\* What the ways out of Do leave of each part of the invariant.
LEMMA FramesBelongShrunk ==
    FramesBelong /\ UNCHANGED <<via, tag, outbound, working, answers, matched>>
        /\ (\A c \in Conns : pending'[c] \subseteq pending[c])
        => FramesBelong'
<1> SUFFICES ASSUME FramesBelong, UNCHANGED <<via, tag, outbound, working, answers, matched>>,
                    \A c \in Conns : pending'[c] \subseteq pending[c]
             PROVE  FramesBelong'
  OBVIOUS
<1>1. \A c \in Conns : \A p \in pending'[c] : via'[p.req] = c /\ tag'[p.req] = p.id /\ p.id # 0
  BY DEF FramesBelong, Belongs
<1>2. /\ \A c \in Conns : \A n \in DOMAIN outbound[c] : Belongs(c, outbound[c][n])'
      /\ \A c \in Conns : \A f \in working[c] : Belongs(c, f)'
      /\ \A c \in Conns : \A f \in answers[c] : Belongs(c, f)'
  BY DEF FramesBelong, Belongs
<1>3. \A c \in Conns : (matched[c] # Nothing)' =>
            Belongs(c, matched[c].frame)' /\ (matched[c].waiter = matched[c].frame.req)'
  BY DEF FramesBelong, Belongs
<1>4. QED BY <1>1, <1>2, <1>3 DEF FramesBelong, Belongs

LEMMA CarriedOutOnceShrunk ==
    ASSUME TypeOK, CarriedOutOnce, UNCHANGED <<tag, outbound, working, answers, matched, carriedOut>>,
           \A s \in Requests : step'[s] = "sending" => step[s] = "sending"
    PROVE  CarriedOutOnce'
<1>1. \A c \in Conns : \A n \in DOMAIN outbound[c] : outbound[c][n].req \in Requests
  BY FramesTyped
<1>2. \A c \in Conns : \A f \in working[c] : f.req \in Requests
  BY FramesTyped
<1>3. \A c \in Conns : \A n \in DOMAIN outbound[c] : step'[outbound[c][n].req] # "sending"
  BY <1>1 DEF CarriedOutOnce
<1>4. \A c \in Conns : \A f \in working[c] : step'[f.req] # "sending"
  BY <1>2 DEF CarriedOutOnce
<1>5. QED BY <1>3, <1>4 DEF CarriedOutOnce

\* The ways out of the handler once it holds a connection.
LEMMA FinishStep ==
    ASSUME TypeOK, FrameInv, NEW r \in Requests, step[r] \in {"holding", "sending", "waiting"},
           UNCHANGED <<via, tag, nextID, outbound, working, answers, matched, respCh, carriedOut>>,
           \A c \in Conns : pending'[c] \subseteq pending[c],
           \A c \in Conns : \A p \in pending'[c] : p.req # r,
           \A s \in Requests : s # r => step'[s] = step[s] /\ reply'[s] = reply[s],
           step'[r] = "done",
           \/ reply'[r] \in {"answer", "gave up", "agent disconnected"}
           \/ reply'[r] = "bad request" /\ step[r] = "holding"
    PROVE  FrameInv'
<1>1. /\ \A s \in Requests : s # r => step'[s] = step[s] /\ reply'[s] = reply[s]
      /\ step'[r] = "done"
      /\ \/ reply'[r] \in {"answer", "gave up", "agent disconnected"}
         \/ reply'[r] = "bad request" /\ step[r] = "holding"
  OBVIOUS
<1>2. RequestsWellFormed'
  BY <1>1 DEF RequestsWellFormed, FrameInv
<1>3. FramesBelong'
  BY FramesBelongShrunk DEF FrameInv
<1>4. CarriedOutOnce'
  <2>1. \A s \in Requests : step'[s] = "sending" => step[s] = "sending"
    BY <1>1
  <2>2. QED BY <2>1, CarriedOutOnceShrunk DEF FrameInv
<1>5. PendingUnanswered'
  <2> SUFFICES ASSUME NEW c \in Conns, NEW p \in pending'[c]
               PROVE  /\ step'[p.req] \in {"sending", "waiting"}
                      /\ respCh'[p.req] = Nothing
                      /\ matched'[c] # Nothing => matched'[c].frame.req # p.req
    BY DEF PendingUnanswered
  <2>1. p \in pending[c] /\ p.req # r
    OBVIOUS
  <2>2. p.req \in Requests
    BY <2>1, FramesTyped
  <2>3. /\ step[p.req] \in {"sending", "waiting"}
        /\ respCh[p.req] = Nothing
        /\ matched[c] # Nothing => matched[c].frame.req # p.req
    BY <2>1 DEF FrameInv, PendingUnanswered
  <2>4. step'[p.req] = step[p.req]
    BY <1>1, <2>1, <2>2
  <2>5. QED BY <2>3, <2>4
<1>6. QED
  BY <1>2, <1>3, <1>4, <1>5, TagsDifferKept, ChannelsHoldAnswersKept DEF FrameInv

\* Cleaning up takes out the request's own entry.
LEMMA CleanUpTakesOwn ==
    ASSUME TypeOK, FrameInv, NEW r \in Requests, step[r] \in {"sending", "waiting"},
           pending' = CleanUp(r)
    PROVE  /\ \A c \in Conns : pending'[c] \subseteq pending[c]
           /\ \A c \in Conns : \A p \in pending'[c] : p.req # r
<1>1. via[r] \in Conns
  BY DEF FrameInv, RequestsWellFormed
<1>2. /\ \A c \in Conns : c # via[r] => pending'[c] = pending[c]
      /\ pending'[via[r]] = {p \in pending[via[r]] : p.id # tag[r]}
  BY <1>1 DEF CleanUp, TypeOK
<1>3. \A c \in Conns : \A p \in pending[c] : Belongs(c, p)
  BY DEF FrameInv, FramesBelong
<1>4. QED BY <1>2, <1>3 DEF Belongs

LEMMA FrameStep ==
    TypeOK /\ FrameInv /\ [Next]_vars => FrameInv'
<1> SUFFICES ASSUME TypeOK, FrameInv, [Next]_vars PROVE FrameInv'
  OBVIOUS
<1>1. ASSUME NEW r \in Requests, TakeAnswer(r) PROVE FrameInv'
  <2>1. respCh[r] # Nothing /\ step[r] = "waiting"
    BY <1>1 DEF TakeAnswer
  <2>2. \A c \in Conns : \A p \in pending[c] : p.req # r
    BY <2>1 DEF FrameInv, PendingUnanswered
  <2>3. UNCHANGED <<pending, via, tag, nextID, outbound, working, answers, matched, respCh, carriedOut>>
    BY <1>1 DEF TakeAnswer, connVars, agentVars
  <2>4. /\ \A s \in Requests : s # r => step'[s] = step[s] /\ reply'[s] = reply[s]
        /\ step'[r] = "done" /\ reply'[r] = "answer"
    BY <1>1 DEF TakeAnswer, TypeOK
  <2>5. QED BY <2>1, <2>2, <2>3, <2>4, FinishStep
<1>2. ASSUME NEW r \in Requests, GiveUp(r) PROVE FrameInv'
  <2>1. /\ step[r] \in {"sending", "waiting"} /\ pending' = CleanUp(r)
        /\ UNCHANGED <<via, tag, nextID, outbound, working, answers, matched, respCh, carriedOut>>
    BY <1>2 DEF GiveUp, agentVars
  <2>2. /\ \A s \in Requests : s # r => step'[s] = step[s] /\ reply'[s] = reply[s]
        /\ step'[r] = "done" /\ reply'[r] = "gave up"
    BY <1>2 DEF GiveUp, TypeOK
  <2>3. QED BY <2>1, <2>2, CleanUpTakesOwn, FinishStep
<1>3. ASSUME NEW r \in Requests, SeeClosed(r) PROVE FrameInv'
  <2>1. /\ step[r] \in {"sending", "waiting"} /\ pending' = CleanUp(r)
        /\ UNCHANGED <<via, tag, nextID, outbound, working, answers, matched, respCh, carriedOut>>
    BY <1>3 DEF SeeClosed, agentVars
  <2>2. /\ \A s \in Requests : s # r => step'[s] = step[s] /\ reply'[s] = reply[s]
        /\ step'[r] = "done" /\ reply'[r] = "agent disconnected"
    BY <1>3 DEF SeeClosed, TypeOK
  <2>3. QED BY <2>1, <2>2, CleanUpTakesOwn, FinishStep
<1>4. ASSUME NEW c \in Conns, Connect(c) PROVE FrameInv'
  BY <1>4, FrameUnchanged DEF Connect, connVars, agentVars
<1>5. ASSUME NEW c \in Conns, Register(c) PROVE FrameInv'
  BY <1>5, FrameUnchanged DEF Register, connVars, agentVars
<1>6. ASSUME NEW c \in Conns, CloseReplaced(c) PROVE FrameInv'
  BY <1>6, FrameUnchanged DEF CloseReplaced, connVars, agentVars
<1>7. ASSUME NEW c \in Conns, ReaderFails(c) PROVE FrameInv'
  BY <1>7, FrameUnchanged DEF ReaderFails, connVars, agentVars
<1>8. ASSUME NEW c \in Conns, Unregister(c) PROVE FrameInv'
  BY <1>8, FrameUnchanged DEF Unregister, connVars, agentVars
<1>9. ASSUME NEW c \in Conns, WriterQuits(c) PROVE FrameInv'
  BY <1>9, FrameUnchanged DEF WriterQuits, connVars, agentVars
<1>10. ASSUME NEW c \in Conns, AgentDisconnects(c) PROVE FrameInv'
  BY <1>10, FrameUnchanged DEF AgentDisconnects, connVars, agentVars
<1>11. ASSUME NEW r \in Requests, RefuseBody(r) PROVE FrameInv'
  <2>1. step[r] = "holding"
    BY <1>11 DEF RefuseBody
  <2>2. \A c \in Conns : \A p \in pending[c] : p.req # r
    BY <2>1 DEF FrameInv, PendingUnanswered
  <2>3. UNCHANGED <<pending, via, tag, nextID, outbound, working, answers, matched, respCh, carriedOut>>
    BY <1>11 DEF RefuseBody, connVars, agentVars
  <2>4. /\ \A s \in Requests : s # r => step'[s] = step[s] /\ reply'[s] = reply[s]
        /\ step'[r] = "done" /\ reply'[r] = "bad request"
    BY <1>11 DEF RefuseBody, TypeOK
  <2>5. QED BY <2>1, <2>2, <2>3, <2>4, FinishStep
<1>12. CASE UNCHANGED vars
  BY <1>12, FrameUnchanged DEF vars, connVars, agentVars
<1>13. QED
  BY <1>1, <1>2, <1>3, <1>4, <1>5, <1>6, <1>7, <1>8, <1>9, <1>10, <1>11, <1>12,
     WriterSendsStep, WriterFailsStep, HandOverStep, ReadAnswerStep, LoopbackStep,
     AgentCrashesStep, GetStep, BeginDoStep, EnqueueStep
     DEF Next, ConnStep, RequestStep

----------------------------------------------------------------------------
(* Which connections serve *)

LEMMA DisplacedInit == Init => DisplacedIsBeingClosed
BY DEF Init, DisplacedIsBeingClosed

LEMMA DisplacedKept ==
    DisplacedIsBeingClosed /\ UNCHANGED <<current, keyOf, phase, replaced, closed>>
        => DisplacedIsBeingClosed'
BY DEF DisplacedIsBeingClosed

LEMMA RegisterDisplaces ==
    ASSUME TypeOK, DisplacedIsBeingClosed, NEW c \in Conns, Register(c)
    PROVE  DisplacedIsBeingClosed'
<1> SUFFICES ASSUME NEW x \in Conns, phase'[x] \in {"replacing", "serving"},
                    x \notin closed, current'[keyOf[x]] # x
             PROVE  \E d \in Conns : phase'[d] = "replacing" /\ replaced'[d] = x
  BY DEF Register, DisplacedIsBeingClosed
<1>1. /\ phase[c] = "accepted" /\ phase'[c] = "replacing"
      /\ replaced'[c] = current[keyOf[c]]
      /\ \A d \in Conns : d # c => phase'[d] = phase[d] /\ replaced'[d] = replaced[d]
      /\ current'[keyOf[c]] = c
      /\ \A k \in Keys : k # keyOf[c] => current'[k] = current[k]
  BY DEF Register, TypeOK
<1>2. x # c
  BY <1>1
<1>3. CASE current[keyOf[x]] = x
  <2>1. keyOf[x] = keyOf[c]
    BY <1>1, <1>3 DEF TypeOK
  <2>2. QED BY <1>1, <1>3, <2>1
<1>4. CASE current[keyOf[x]] # x
  <2>1. PICK d \in Conns : phase[d] = "replacing" /\ replaced[d] = x
    BY <1>1, <1>2, <1>4 DEF DisplacedIsBeingClosed
  <2>2. QED BY <1>1, <2>1
<1>5. QED BY <1>3, <1>4

LEMMA UnregisterDisplaces ==
    ASSUME TypeOK, DisplacedIsBeingClosed, NEW c \in Conns, Unregister(c)
    PROVE  DisplacedIsBeingClosed'
<1> SUFFICES ASSUME NEW x \in Conns, phase'[x] \in {"replacing", "serving"},
                    x \notin closed, current'[keyOf[x]] # x
             PROVE  \E d \in Conns : phase'[d] = "replacing" /\ replaced'[d] = x
  BY DEF Unregister, DisplacedIsBeingClosed
<1>1. /\ phase[c] = "leaving" /\ phase'[c] = "gone" /\ replaced' = replaced
      /\ \A d \in Conns : d # c => phase'[d] = phase[d]
      /\ \A k \in Keys : current'[k] = current[k] \/ current[k] = c
  BY DEF Unregister, TypeOK
<1>2. x # c /\ phase[x] \in {"replacing", "serving"}
  BY <1>1
<1>3. current[keyOf[x]] # x
  BY <1>1, <1>2 DEF TypeOK
<1>4. PICK d \in Conns : phase[d] = "replacing" /\ replaced[d] = x
  BY <1>2, <1>3 DEF DisplacedIsBeingClosed
<1>5. QED BY <1>1, <1>4

LEMMA DisplacedStep ==
    TypeOK /\ DisplacedIsBeingClosed /\ [Next]_vars => DisplacedIsBeingClosed'
<1> SUFFICES ASSUME TypeOK, DisplacedIsBeingClosed, [Next]_vars PROVE DisplacedIsBeingClosed'
  OBVIOUS
<1>1. ASSUME NEW c \in Conns, Connect(c) PROVE DisplacedIsBeingClosed'
  BY <1>1 DEF Connect, DisplacedIsBeingClosed, TypeOK
<1>2. ASSUME NEW c \in Conns, CloseReplaced(c) PROVE DisplacedIsBeingClosed'
  <2> SUFFICES ASSUME NEW x \in Conns, phase'[x] \in {"replacing", "serving"},
                      x \notin closed', current[keyOf[x]] # x
               PROVE  \E d \in Conns : phase'[d] = "replacing" /\ replaced[d] = x
    BY <1>2 DEF CloseReplaced, DisplacedIsBeingClosed
  <2>1. /\ phase[c] = "replacing"
        /\ \A d \in Conns : d # c => phase'[d] = phase[d]
        /\ closed' = closed \union ({replaced[c]} \ {NoConn})
    BY <1>2 DEF CloseReplaced, TypeOK
  <2>2. PICK d \in Conns : phase[d] = "replacing" /\ replaced[d] = x
    BY <2>1 DEF DisplacedIsBeingClosed
  <2>3. d # c
    BY <2>1, <2>2, RelayAssumption
  <2>4. QED BY <2>1, <2>2, <2>3
<1>3. ASSUME NEW c \in Conns, ReaderFails(c) PROVE DisplacedIsBeingClosed'
  BY <1>3 DEF ReaderFails, DisplacedIsBeingClosed, TypeOK
<1>4. ASSUME NEW c \in Conns, WriterSends(c) \/ WriterFails(c) \/ WriterQuits(c)
      PROVE  DisplacedIsBeingClosed'
  BY <1>4, DisplacedKept DEF WriterSends, WriterFails, WriterQuits
<1>5. ASSUME NEW c \in Conns, NEW f, ReadAnswer(c, f) \/ Loopback(c, f)
      PROVE  DisplacedIsBeingClosed'
  BY <1>5, DisplacedKept DEF ReadAnswer, Loopback, connVars
<1>6. ASSUME NEW c \in Conns, HandOver(c) \/ AgentDisconnects(c) PROVE DisplacedIsBeingClosed'
  BY <1>6, DisplacedKept DEF HandOver, AgentDisconnects, connVars
<1>7. ASSUME NEW k \in Keys, AgentCrashes(k) PROVE DisplacedIsBeingClosed'
  BY <1>7, DisplacedKept DEF AgentCrashes, connVars
<1>8. ASSUME NEW r \in Requests, RequestStep(r) PROVE DisplacedIsBeingClosed'
  BY <1>8, DisplacedKept
  DEF RequestStep, Get, RefuseBody, BeginDo, Enqueue, TakeAnswer, GiveUp, SeeClosed, connVars
<1>9. CASE UNCHANGED vars
  BY <1>9, DisplacedKept DEF vars, connVars
<1>10. QED
  BY <1>1, <1>2, <1>3, <1>4, <1>5, <1>6, <1>7, <1>8, <1>9, RegisterDisplaces, UnregisterDisplaces
  DEF Next, ConnStep

----------------------------------------------------------------------------
(* The theorems *)

LEMMA RelayInvariant == Spec => [](TypeOK /\ FrameInv /\ DisplacedIsBeingClosed)
<1>1. Init => TypeOK /\ FrameInv /\ DisplacedIsBeingClosed
  BY TypeInit, FrameInit, DisplacedInit
<1>2. TypeOK /\ FrameInv /\ DisplacedIsBeingClosed /\ [Next]_vars
        => (TypeOK /\ FrameInv /\ DisplacedIsBeingClosed)'
  <2>1. FrameInv => RequestsWellFormed
    BY DEF FrameInv
  <2>2. QED BY <2>1, TypeStep, FrameStep, DisplacedStep
<1>3. QED BY <1>1, <1>2, PTL DEF Spec

\* The state of the relay and of the agents' tunnels is always well formed,
\* the capacity of the outbound channels included.
THEOREM RelayTypeCorrect == Spec => []TypeOK
BY RelayInvariant, PTL

\* No answer reaches another request's caller.
THEOREM AnswersReachTheirCallers == Spec => []AnswersMatch
<1>1. FrameInv => AnswersMatch
  BY DEF FrameInv, ChannelsHoldAnswers, AnswersMatch
<1>2. QED BY <1>1, RelayInvariant, PTL

\* The pending map holds only requests still inside Do.
THEOREM PendingDoesNotLeak == Spec => []PendingIsWaitedFor
<1>1. FrameInv => PendingIsWaitedFor
  BY DEF FrameInv, FramesBelong, Belongs, PendingUnanswered, PendingIsWaitedFor
<1>2. QED BY <1>1, RelayInvariant, PTL

\* A connection that serves is registered, closed, or about to be closed by
\* the handler that displaced it.
THEOREM ServingConnectionsAreSeen == Spec => []NoConnectionServesUnseen
<1>1. DisplacedIsBeingClosed => NoConnectionServesUnseen
  BY DEF DisplacedIsBeingClosed, NoConnectionServesUnseen
<1>2. QED BY <1>1, RelayInvariant, PTL

----------------------------------------------------------------------------
(* Refinement *)

LEMMA CallsStart == Init => Promise!CallInit
BY DEF Init, Promise!CallInit

LEMMA CallsStep ==
    ASSUME TypeOK, FrameInv, [Next]_vars
    PROVE  [Promise!CallNext]_(Promise!callVars)
<1> USE DEF Promise!callVars
<1>1. ASSUME NEW c \in Conns, NEW f \in working[c], Loopback(c, f) PROVE Promise!CallNext
  <2>1. f.req \in Requests
    BY FramesTyped
  <2>2. carriedOut[f.req] = 0
    BY DEF FrameInv, CarriedOutOnce
  <2>3. tag[f.req] # 0
    BY DEF FrameInv, FramesBelong, Belongs
  <2>4. reply[f.req] \notin {"agent not connected", "bad request"}
    BY <2>1, <2>3 DEF FrameInv, RequestsWellFormed
  <2>5. carriedOut' = [carriedOut EXCEPT ![f.req] = carriedOut[f.req] + 1]
    BY <1>1 DEF Loopback
  <2>6. carriedOut' = [carriedOut EXCEPT ![f.req] = 1]
    BY <2>2, <2>5
  <2>7. reply' = reply
    BY <1>1 DEF Loopback, requestVars
  <2>8. QED BY <2>1, <2>2, <2>4, <2>6, <2>7 
        DEF Promise!CallNext, Promise!CarryOut, Promise!NeverSent
<1>2. ASSUME NEW r \in Requests, TakeAnswer(r) PROVE Promise!CallNext
  <2>1. reply[r] = "none" /\ carriedOut[r] = 1
    BY <1>2 DEF TakeAnswer, FrameInv, RequestsWellFormed, ChannelsHoldAnswers
  <2>2. reply' = [reply EXCEPT ![r] = "answer"] /\ carriedOut' = carriedOut
    BY <1>2 DEF TakeAnswer, agentVars
  <2>3. QED BY <2>1, <2>2 DEF Promise!CallNext, Promise!Answer
<1>3. ASSUME NEW r \in Requests, NEW k \in Keys, Get(r, k)
      PROVE  Promise!CallNext \/ UNCHANGED Promise!callVars
  <2>1. reply[r] = "none" /\ carriedOut[r] = 0
    BY <1>3 DEF Get, FrameInv, RequestsWellFormed, CarriedOutOnce
  <2>2. carriedOut' = carriedOut
    BY <1>3 DEF Get, agentVars
  <2>3. CASE current[k] = NoConn
    <3>1. reply' = [reply EXCEPT ![r] = "agent not connected"]
      BY <1>3, <2>3 DEF Get
    <3>2. QED BY <2>1, <2>2, <3>1 DEF Promise!CallNext, Promise!Fail, Promise!Failures, Promise!NeverSent
  <2>4. CASE current[k] # NoConn
    BY <1>3, <2>2, <2>4 DEF Get
  <2>5. QED BY <2>3, <2>4
<1>4. ASSUME NEW r \in Requests, GiveUp(r) PROVE Promise!CallNext
  <2>1. reply[r] = "none"
    BY <1>4 DEF GiveUp, FrameInv, RequestsWellFormed
  <2>2. reply' = [reply EXCEPT ![r] = "gave up"] /\ carriedOut' = carriedOut
    BY <1>4 DEF GiveUp, agentVars
  <2>3. QED BY <2>1, <2>2 DEF Promise!CallNext, Promise!Fail, Promise!Failures, Promise!NeverSent
<1>5. ASSUME NEW r \in Requests, SeeClosed(r) PROVE Promise!CallNext
  <2>1. reply[r] = "none"
    BY <1>5 DEF SeeClosed, FrameInv, RequestsWellFormed
  <2>2. reply' = [reply EXCEPT ![r] = "agent disconnected"] /\ carriedOut' = carriedOut
    BY <1>5 DEF SeeClosed, agentVars
  <2>3. QED BY <2>1, <2>2 DEF Promise!CallNext, Promise!Fail, Promise!Failures, Promise!NeverSent
<1>6. ASSUME NEW r \in Requests, BeginDo(r) \/ Enqueue(r) PROVE UNCHANGED Promise!callVars
  BY <1>6 DEF BeginDo, Enqueue, agentVars
<1>7. ASSUME NEW c \in Conns,
             Connect(c) \/ Register(c) \/ CloseReplaced(c) \/ ReaderFails(c) \/ Unregister(c)
      PROVE  UNCHANGED Promise!callVars
  BY <1>7 DEF Connect, Register, CloseReplaced, ReaderFails, Unregister, agentVars, requestVars
<1>8. ASSUME NEW c \in Conns,
             \/ WriterSends(c) \/ WriterFails(c) \/ WriterQuits(c)
             \/ \E f \in answers[c] : ReadAnswer(c, f)
             \/ HandOver(c)
             \/ AgentDisconnects(c)
      PROVE  UNCHANGED Promise!callVars
  BY <1>8 DEF WriterSends, WriterFails, WriterQuits, ReadAnswer, HandOver, AgentDisconnects,
     agentVars, requestVars
<1>9. ASSUME NEW k \in Keys, AgentCrashes(k) PROVE UNCHANGED Promise!callVars
  BY <1>9 DEF AgentCrashes, requestVars
<1>10. ASSUME NEW r \in Requests, RefuseBody(r) PROVE Promise!CallNext
  <2>1. reply[r] = "none" /\ carriedOut[r] = 0
    BY <1>10 DEF RefuseBody, FrameInv, RequestsWellFormed, CarriedOutOnce
  <2>2. reply' = [reply EXCEPT ![r] = "bad request"] /\ carriedOut' = carriedOut
    BY <1>10 DEF RefuseBody, agentVars
  <2>3. QED BY <2>1, <2>2 DEF Promise!CallNext, Promise!Fail, Promise!Failures, Promise!NeverSent
<1>11. CASE UNCHANGED vars
  BY <1>11 DEF vars, agentVars, requestVars
<1>12. QED
  BY <1>1, <1>2, <1>3, <1>4, <1>5, <1>6, <1>7, <1>8, <1>9, <1>10, <1>11 DEF Next, ConnStep, RequestStep

\* The relay and the tunnel implement the promise: every step of theirs is a
\* step of RemoteCall or leaves what the callers see alone.
THEOREM RelayKeepsPromise == Spec => KeepsPromise
<1>1. TypeOK /\ FrameInv /\ [Next]_vars => [Promise!CallNext]_(Promise!callVars)
  BY CallsStep
<1>2. QED
  BY <1>1, CallsStart, RelayInvariant, PTL DEF Spec, KeepsPromise, Promise!CallSpec
=============================================================================
