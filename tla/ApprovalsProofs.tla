--------------------------- MODULE ApprovalsProofs ---------------------------
(***************************************************************************)
(* What of Approvals holds for any calls, machines and requests at a time. *)
(*                                                                         *)
(* The invariant that carries it is about every copy of a turn: its        *)
(* answered and pending calls make up one list that was proposed, and it   *)
(* has a call in front wherever one is waited for, stored or sent.  That   *)
(* Approvals implements Consent is then a matter of counting the answers   *)
(* that may still be used: threads about to send a call again, and calls   *)
(* sent with an answer that have not arrived.  That an answer is good for  *)
(* one run follows from where a call can be: one thread, one unanswered    *)
(* approval or one message at a time carries it (OnceInv).                 *)
(***************************************************************************)
EXTENDS Approvals, FiniteSetTheorems, SequenceTheorems, TLAPS

\* A copy of a turn, given the lists that were proposed.
Sound(turn, lists) ==
    /\ turn \in Turn
    /\ turn.todo # <<>> => turn.out \o turn.todo \in lists
    /\ turn.asked => turn.todo # <<>>

\* One that is stored.
Paused(turn, lists) == Sound(turn, lists) /\ turn.todo # <<>>

\* A thread, given the approvals and the lists.
Fine(f, stored, lists) ==
    /\ f \in Thread
    /\ Sound(f.turn, lists)
    /\ f.at \in {"taking", "calls", "resend", "ask"} => f.turn.todo # <<>>
    /\ f.at = "model" => ~f.turn.asked
    /\ f.at = "taking" => f.row \in DOMAIN stored /\ f.turn = stored[f.row]
    /\ f.at = "reply" /\ f.turn.asked => f.row \in DOMAIN stored

\* Everything else.
Rest ==
    /\ tier \in [Hosts -> Tiers]
    /\ late \subseteq [call : Calls, host : Hosts, approved : BOOLEAN] /\ IsFiniteSet(late)
    /\ rows \in Seq(Turn)
    /\ open \subseteq DOMAIN rows /\ told \subseteq DOMAIN rows
    /\ requests \in 0 .. MaxRequests
    /\ chat \in [at : {"off", "you", "waiting", "approve?"}, id : Nat]
    /\ saved \in Nat
    /\ proposed \subseteq Seq(Calls)
    /\ runs \in [Calls -> Nat]
    /\ answers \in [Calls -> Seq(BOOLEAN)]

ThreadsFine == thread \in [Threads -> Thread] /\ \A t \in Threads : Fine(thread[t], rows, proposed)

RowsPaused == \A id \in DOMAIN rows : Paused(rows[id], proposed)

Inv == Rest /\ ThreadsFine /\ RowsPaused /\ OnlyAnswersClose

----------------------------------------------------------------------------
(* Turns *)

\* The next output takes the call from the front.
LEMMA Shift ==
    ASSUME NEW S, NEW s \in Seq(S), NEW q \in Seq(S), q # <<>>
    PROVE  Append(s, Head(q)) \o Tail(q) = s \o q
<1>1. /\ Head(q) \in S /\ Tail(q) \in Seq(S)
      /\ Len(Tail(q)) = Len(q) - 1
      /\ \A i \in 1 .. Len(Tail(q)) : Tail(q)[i] = q[i + 1]
  BY HeadTailProperties
<1>2. Append(s, Head(q)) \in Seq(S) /\ Len(Append(s, Head(q))) = Len(s) + 1
  BY <1>1
<1>3. Append(s, Head(q)) \o Tail(q) \in Seq(S) /\ s \o q \in Seq(S)
  BY <1>1, <1>2
<1>4. Len(Append(s, Head(q)) \o Tail(q)) = Len(s \o q)
  BY <1>1, <1>2
<1>5. ASSUME NEW i \in 1 .. Len(s \o q)
      PROVE  (Append(s, Head(q)) \o Tail(q))[i] = (s \o q)[i]
  <2>1. CASE i <= Len(s)
    BY <1>1, <1>2, <2>1
  <2>2. CASE i = Len(s) + 1
    BY <1>1, <1>2, <2>2
  <2>3. CASE i > Len(s) + 1
    BY <1>1, <1>2, <2>3
  <2> QED BY <2>1, <2>2, <2>3
<1> QED BY <1>3, <1>4, <1>5, SeqEqual

LEMMA AnsweredIsSound ==
    ASSUME NEW lists, NEW turn, Paused(turn, lists)
    PROVE  Sound(Answered(turn), lists) /\ ~Answered(turn).asked
<1>1. turn \in Turn /\ turn.todo \in Seq(Calls) /\ turn.out \in Seq(Calls) /\ turn.todo # <<>>
  BY DEF Paused, Sound, Turn
<1>2. Head(turn.todo) \in Calls /\ Tail(turn.todo) \in Seq(Calls)
  BY <1>1
<1>3. Append(turn.out, Head(turn.todo)) \in Seq(Calls)
  BY <1>1, <1>2
<1>4. Answered(turn) \in Turn
  BY <1>1, <1>2, <1>3 DEF Answered, Turn
<1>5. /\ Answered(turn).todo = Tail(turn.todo)
      /\ Answered(turn).out = Append(turn.out, Head(turn.todo))
      /\ Answered(turn).asked = FALSE
  BY <1>1 DEF Answered, Turn
<1>6. Answered(turn).out \o Answered(turn).todo = turn.out \o turn.todo
  BY <1>1, <1>5, Shift
<1> QED BY <1>1, <1>4, <1>5, <1>6 DEF Paused, Sound

LEMMA NewTurnIsSound ==
    ASSUME NEW lists, NEW origin \in {"chat", "agent"}, NEW mock \in Mocks \union {"no"},
           NEW todo \in Seq(Calls), todo = <<>> \/ todo \in lists
    PROVE  /\ Sound(NewTurn(origin, mock, todo), lists)
           /\ NewTurn(origin, mock, todo).todo = todo
           /\ ~NewTurn(origin, mock, todo).asked
           /\ NewTurn(origin, mock, todo).origin = origin
<1>1. NewTurn(origin, mock, todo) \in Turn
  BY DEF NewTurn, Turn
<1>2. <<>> \o todo = todo
  OBVIOUS
<1> QED BY <1>1, <1>2 DEF NewTurn, Sound

LEMMA NextHopIsSound ==
    ASSUME NEW lists, NEW turn, Sound(turn, lists), ~turn.asked,
           NEW calls \in Seq(Calls), calls = <<>> \/ calls \in lists
    PROVE  /\ Sound(NextHop(turn, calls), lists) /\ NextHop(turn, calls).todo = calls
           /\ ~NextHop(turn, calls).asked
<1>1. turn \in Turn
  BY DEF Sound
<1>2. /\ NextHop(turn, calls).todo = calls /\ NextHop(turn, calls).out = <<>>
      /\ NextHop(turn, calls).asked = turn.asked
  BY <1>1 DEF NextHop, Turn
<1>3. <<>> \in Seq(Calls) /\ <<>> \o calls = calls
  OBVIOUS
<1>4. NextHop(turn, calls) \in Turn
  BY <1>1, <1>3 DEF NextHop, Turn
<1> QED BY <1>2, <1>3, <1>4 DEF Sound

LEMMA AskedIsPaused ==
    ASSUME NEW lists, NEW turn, Paused(turn, lists), NEW h \in Hosts
    PROVE  Paused(Asked(turn, h), lists)
<1>1. turn \in Turn
  BY DEF Paused, Sound
<1>2. /\ Asked(turn, h) \in Turn /\ Asked(turn, h).todo = turn.todo
      /\ Asked(turn, h).out = turn.out
  BY <1>1 DEF Asked, Turn
<1> QED BY <1>2 DEF Paused, Sound

\* A list proposed is one of calls.
LEMMA ProposalsAreLists == ASSUME NEW s \in Proposals PROVE s \in Seq(Calls) /\ s # <<>>
<1>1. PICK n \in 1 .. Cardinality(Unproposed) : s \in [1 .. n -> Unproposed]
  BY DEF Proposals
<1>2. n \in Nat /\ n >= 1
  BY <1>1
<1>3. s \in [1 .. n -> Calls]
  BY <1>1 DEF Unproposed
<1>4. s \in Seq(Calls)
  BY <1>2, <1>3
<1>5. DOMAIN s = 1 .. n
  BY <1>1
<1> QED BY <1>2, <1>4, <1>5, LenProperties, EmptySeq

----------------------------------------------------------------------------
(* Threads *)

\* Approvals are kept as they are, and so are lists that were proposed.
LEMMA SoundStays ==
    ASSUME NEW lists, NEW more, lists \subseteq more, NEW turn, Sound(turn, lists)
    PROVE  Sound(turn, more)
BY DEF Sound

LEMMA FineStays ==
    ASSUME NEW lists, NEW more, lists \subseteq more,
           NEW stored, NEW longer,
           \A id \in DOMAIN stored : id \in DOMAIN longer /\ longer[id] = stored[id],
           NEW f, Fine(f, stored, lists)
    PROVE  Fine(f, longer, more)
BY SoundStays DEF Fine

\* A step of one thread.
LEMMA OneThreadMoves ==
    ASSUME ThreadsFine, proposed \subseteq proposed',
           \A id \in DOMAIN rows : id \in DOMAIN rows' /\ rows'[id] = rows[id],
           NEW t \in Threads, NEW new, thread' = [thread EXCEPT ![t] = new],
           Fine(new, rows', proposed')
    PROVE  ThreadsFine'
<1>1. thread' \in [Threads -> Thread]
  BY DEF ThreadsFine, Fine
<1>2. ASSUME NEW u \in Threads PROVE Fine(thread'[u], rows', proposed')
  <2>1. Fine(thread[u], rows', proposed')
    BY FineStays DEF ThreadsFine
  <2>2. thread'[u] = IF u = t THEN new ELSE thread[u]
    BY DEF ThreadsFine
  <2> QED BY <2>1, <2>2
<1> QED BY <1>1, <1>2 DEF ThreadsFine

\* A thread that has nothing left in front replies or asks the model; one that
\* has goes on with it.
LEMMA GoesOnFine ==
    ASSUME NEW f \in Thread, NEW turn, NEW stored, NEW lists, Sound(turn, lists), ~turn.asked
    PROVE  Fine([f EXCEPT !.at = GoesOn(turn), !.turn = turn], stored, lists)
<1>1. turn \in Turn
  BY DEF Sound
<1>2. GoesOn(turn) \in {"calls", "reply", "model"} /\ (GoesOn(turn) = "calls" => turn.todo # <<>>)
  BY DEF GoesOn
<1> DEFINE new == [f EXCEPT !.at = GoesOn(turn), !.turn = turn]
<1>3. new \in Thread /\ new.at = GoesOn(turn) /\ new.turn = turn
  BY <1>1, <1>2 DEF Thread
<1> HIDE DEF new
<1>4. Fine(new, stored, lists)
  BY <1>2, <1>3 DEF Fine
<1> QED BY <1>4 DEF new

\* A decision on a paused turn.
LEMMA DecidedFine ==
    ASSUME NEW f \in Thread, NEW turn, NEW stored, NEW lists, Paused(turn, lists),
           NEW allow \in BOOLEAN, NEW configs \in SUBSET Hosts
    PROVE  Fine(Decided(f, turn, allow, configs), stored, lists)
<1> DEFINE new == Decided(f, turn, allow, configs)
           on == IF allow THEN [turn EXCEPT !.asked = FALSE] ELSE Answered(turn)
<1>1. turn \in Turn /\ turn.todo # <<>>
  BY DEF Paused, Sound
<1>2. Sound(on, lists) /\ ~on.asked /\ (allow => on.todo = turn.todo)
  <2>1. CASE allow
    <3>1. /\ [turn EXCEPT !.asked = FALSE] \in Turn
          /\ [turn EXCEPT !.asked = FALSE].todo = turn.todo
          /\ [turn EXCEPT !.asked = FALSE].out = turn.out
          /\ [turn EXCEPT !.asked = FALSE].asked = FALSE
      BY <1>1 DEF Turn
    <3> QED BY <2>1, <3>1 DEF Paused, Sound
  <2>2. CASE ~allow
    BY <2>2, AnsweredIsSound
  <2> QED BY <2>1, <2>2
<1>3. /\ new \in Thread /\ new.turn = on
      /\ new.at = IF allow THEN "resend" ELSE GoesOn(on)
  <2>1. GoesOn(on) \in {"calls", "reply", "model"}
    BY DEF GoesOn
  <2>2. on \in Turn
    BY <1>2 DEF Sound
  <2>3. CASE allow
    BY <2>2, <2>3 DEF Decided, Thread
  <2>4. CASE ~allow
    BY <2>1, <2>2, <2>4 DEF Decided, Thread
  <2> QED BY <2>3, <2>4
<1> HIDE DEF new
<1>4. GoesOn(on) = "calls" => on.todo # <<>>
  BY DEF GoesOn
<1>5. GoesOn(on) \in {"calls", "reply", "model"}
  BY DEF GoesOn
<1> HIDE DEF on
<1>6. Fine(new, stored, lists)
  BY <1>1, <1>2, <1>3, <1>4, <1>5 DEF Fine
<1> QED BY <1>6 DEF new

LEMMA IdleFine == ASSUME NEW stored, NEW lists PROVE Idle \in Thread /\ Fine(Idle, stored, lists)
<1>1. Idle.turn = NewTurn("chat", "no", <<>>) /\ Idle.at = "idle"
  BY DEF Idle
<1>0. <<>> \in Seq(Calls)
  OBVIOUS
<1>2. Sound(Idle.turn, lists) /\ ~Idle.turn.asked
  <2>1. PICK mock \in Mocks \union {"no"}, todo \in Seq(Calls) : mock = "no" /\ todo = <<>>
    BY <1>0
  <2>2. Sound(NewTurn("chat", mock, todo), lists) /\ ~NewTurn("chat", mock, todo).asked
    BY <2>1, NewTurnIsSound
  <2> QED BY <1>1, <2>1, <2>2
<1>3. Idle \in Thread
  BY <1>2 DEF Idle, Thread, Sound
<1> QED BY <1>1, <1>2, <1>3 DEF Fine

LEMMA FrontIsCall ==
    ASSUME NEW turn \in Turn, turn.todo # <<>>
    PROVE  Front(turn) = Head(turn.todo) /\ Front(turn) \in Calls
BY DEF Front, Turn

\* A paused copy stays one whether the next request has it mocked or not.
LEMMA StaysPaused ==
    ASSUME NEW lists, NEW turn, Paused(turn, lists), NEW mock \in Mocks \union {"no"}
    PROVE  /\ Paused(OnMock(turn, mock), lists)
           /\ OnMock(turn, mock).todo = turn.todo
           /\ Front(OnMock(turn, mock)) = Front(turn)
<1>1. turn \in Turn
  BY DEF Paused, Sound
<1>2. /\ OnMock(turn, mock) \in Turn
      /\ OnMock(turn, mock).todo = turn.todo
      /\ OnMock(turn, mock).out = turn.out
      /\ OnMock(turn, mock).asked = turn.asked
  BY <1>1 DEF OnMock, Turn
<1> QED BY <1>2 DEF Paused, Sound, Front

\* What a thread at work has in front.
LEMMA InFront ==
    ASSUME ThreadsFine, NEW t \in Threads, thread[t].at \in {"taking", "calls", "resend", "ask"}
    PROVE  /\ thread[t] \in Thread /\ Paused(thread[t].turn, proposed)
           /\ Front(thread[t].turn) \in Calls
<1>1. Fine(thread[t], rows, proposed)
  BY DEF ThreadsFine
<1>2. thread[t] \in Thread /\ thread[t].turn \in Turn /\ thread[t].turn.todo # <<>>
  BY <1>1 DEF Fine, Sound
<1> QED BY <1>1, <1>2, FrontIsCall DEF Fine, Paused

LEMMA HostsResolved ==
    ASSUME NEW arg, NEW configs \in SUBSET Hosts
    PROVE  ResolveHost(arg, configs) \subseteq Hosts
BY DEF ResolveHost

----------------------------------------------------------------------------
(* Every step keeps the invariant *)

LEMMA InitInv == Init => Inv
<1> SUFFICES ASSUME Init PROVE Inv
  OBVIOUS
<1>1. rows = <<>> /\ rows \in Seq(Turn) /\ DOMAIN rows = {}
  BY DEF Init
<1>2. IsFiniteSet(late)
  BY FS_EmptySet DEF Init
<1>3. answers \in [Calls -> Seq(BOOLEAN)]
  BY DEF Init
<1>4. Rest
  BY <1>1, <1>2, <1>3, ApprovalAssumption DEF Init, Rest, Off
<1>5. ThreadsFine
  BY IdleFine DEF Init, ThreadsFine
<1> QED BY <1>1, <1>4, <1>5 DEF Inv, RowsPaused, OnlyAnswersClose

\* Where no approval is made, taken or answered.
LEMMA RowsUntouched ==
    ASSUME Inv, UNCHANGED <<rows, open, answers>>, proposed \subseteq proposed', Rest', ThreadsFine'
    PROVE  Inv'
<1>1. RowsPaused'
  BY SoundStays DEF Inv, RowsPaused, Paused
<1>2. OnlyAnswersClose'
  BY DEF Inv, OnlyAnswersClose
<1> QED BY <1>1, <1>2 DEF Inv

\* An answer to the approval that goes.
LEMMA AnswerCloses ==
    ASSUME Inv, UNCHANGED <<rows, proposed>>, NEW c \in Calls, NEW allow \in BOOLEAN, Accept(c, allow),
           \A id \in DOMAIN rows : id \in open \ open' => Front(rows[id]) = c,
           Rest', ThreadsFine'
    PROVE  Inv'
<1>1. RowsPaused'
  BY DEF Inv, RowsPaused
<1>2. \A d \in Calls : answers[d] \in Seq(BOOLEAN)
  BY DEF Inv, Rest
<1>3. \A d \in Calls : answers'[d] = IF d = c THEN Append(answers[c], allow) ELSE answers[d]
  BY DEF Inv, Rest, Accept
<1>4. Append(answers[c], allow) # <<>>
  BY <1>2
<1>5. ASSUME NEW id \in DOMAIN rows PROVE id \in open' \/ answers'[Front(rows[id])] # <<>>
  <2>1. Front(rows[id]) \in Calls
    BY FrontIsCall DEF Inv, RowsPaused, Paused, Sound
  <2>2. id \in open \/ answers[Front(rows[id])] # <<>>
    BY DEF Inv, OnlyAnswersClose
  <2> QED BY <1>3, <1>4, <2>1, <2>2
<1>6. OnlyAnswersClose'
  BY <1>5 DEF OnlyAnswersClose
<1> QED BY <1>1, <1>6 DEF Inv

\* An answer is counted.
LEMMA AcceptTyped ==
    ASSUME Rest, NEW c \in Calls, NEW allow \in BOOLEAN, Accept(c, allow)
    PROVE  answers' \in [Calls -> Seq(BOOLEAN)]
<1>1. Append(answers[c], allow) \in Seq(BOOLEAN)
  BY DEF Rest
<1> QED BY <1>1 DEF Accept, Rest

LEMMA MachinesKeepInv == ASSUME Inv, ChangePolicy \/ ArriveLate PROVE Inv'
<1> USE DEF daemonVars, rowVars, chatVars
<1>1. CASE ChangePolicy
  <2>1. tier' \in [Hosts -> Tiers]
    <3>1. PICK h \in Hosts, x \in Tiers : tier' = [tier EXCEPT ![h] = x]
      BY <1>1 DEF ChangePolicy
    <3> QED BY <3>1 DEF Inv, Rest
  <2>2. Rest' /\ ThreadsFine'
    BY <1>1, <2>1 DEF ChangePolicy, Inv, Rest, ThreadsFine
  <2> QED BY <1>1, <2>2, RowsUntouched DEF ChangePolicy
<1>2. CASE ArriveLate
  <2>1. PICK m \in late : late' = late \ {m} /\ (runs' = Carried(m.call) \/ UNCHANGED runs)
    BY <1>2 DEF ArriveLate
  <2>2. m.call \in Calls
    BY DEF Inv, Rest
  <2>3. runs' \in [Calls -> Nat]
    BY <2>1, <2>2 DEF Carried, Inv, Rest
  <2>4. IsFiniteSet(late')
    BY <2>1, FS_RemoveElement DEF Inv, Rest
  <2>5. Rest' /\ ThreadsFine'
    BY <1>2, <2>1, <2>3, <2>4 DEF ArriveLate, Inv, Rest, ThreadsFine
  <2> QED BY <1>2, <2>5, RowsUntouched DEF ArriveLate
<1> QED BY <1>1, <1>2

LEMMA ChatKeepsInv == ASSUME Inv, Launch \/ Quit \/ Restart PROVE Inv'
<1> USE DEF daemonVars, rowVars, chatVars
<1>1. CASE Launch
  <2>1. chat' \in [at : {"off", "you", "waiting", "approve?"}, id : Nat] /\ saved' \in Nat
    BY <1>1 DEF Launch, Prompt, Inv, Rest
  <2>2. Rest' /\ ThreadsFine'
    BY <1>1, <2>1 DEF Launch, Inv, Rest, ThreadsFine
  <2> QED BY <1>1, <2>2, RowsUntouched DEF Launch
<1>2. CASE Quit
  <2>1. ASSUME NEW t \in Threads PROVE Fine([thread[t] EXCEPT !.waits = "no"], rows, proposed)
    <3> DEFINE new == [thread[t] EXCEPT !.waits = "no"]
    <3>1. Fine(thread[t], rows, proposed) /\ thread[t] \in Thread
      BY DEF Inv, ThreadsFine
    <3>2. /\ new \in Thread /\ new.at = thread[t].at
          /\ new.turn = thread[t].turn /\ new.row = thread[t].row
      BY <3>1 DEF Thread
    <3> HIDE DEF new
    <3>3. Fine(new, rows, proposed)
      BY <3>1, <3>2 DEF Fine
    <3> QED BY <3>3 DEF new
  <2>2. ThreadsFine'
    BY <1>2, <2>1 DEF Quit, ThreadsFine, Fine
  <2>3. Rest'
    BY <1>2 DEF Quit, Off, Inv, Rest
  <2> QED BY <1>2, <2>2, <2>3, RowsUntouched DEF Quit
<1>3. CASE Restart
  <2>1. ThreadsFine'
    BY <1>3, IdleFine DEF Restart, ThreadsFine
  <2>2. chat' \in [at : {"off", "you", "waiting", "approve?"}, id : Nat]
    BY <1>3 DEF Restart, Off, Inv, Rest
  <2>3. Rest'
    BY <1>3, <2>2 DEF Restart, Inv, Rest
  <2> QED BY <1>3, <2>1, <2>3, RowsUntouched DEF Restart
<1> QED BY <1>1, <1>2, <1>3

\* A thread goes on with a turn.
LEMMA GoFine ==
    ASSUME Inv, NEW t \in Threads, NEW at \in {"model", "calls", "ask", "reply"}, NEW turn,
           proposed \subseteq proposed', UNCHANGED rows,
           Sound(turn, proposed'), at \in {"calls", "ask"} => turn.todo # <<>>,
           at \in {"model", "reply"} => ~turn.asked,
           Go(t, at, turn)
    PROVE  ThreadsFine'
<1> DEFINE new == [thread[t] EXCEPT !.at = at, !.turn = turn]
<1>1. thread' = [thread EXCEPT ![t] = new]
  BY DEF Go
<1>2. thread[t] \in Thread /\ turn \in Turn
  BY DEF Inv, ThreadsFine, Sound
<1>3. new \in Thread /\ new.at = at /\ new.turn = turn
  BY <1>2 DEF Thread
<1> HIDE DEF new
<1>4. Fine(new, rows', proposed')
  BY <1>3 DEF Fine
<1> QED BY <1>1, <1>4, OneThreadMoves DEF Inv

LEMMA GoesOnWith ==
    ASSUME Inv, NEW t \in Threads, thread[t].at \in {"calls", "resend"}, UNCHANGED <<rows, proposed>>,
           Go(t, GoesOn(Answered(thread[t].turn)), Answered(thread[t].turn))
    PROVE  ThreadsFine'
<1> DEFINE turn == Answered(thread[t].turn)
<1>1. Sound(turn, proposed) /\ ~turn.asked
  BY InFront, AnsweredIsSound DEF Inv
<1>2. GoesOn(turn) \in {"model", "calls", "reply"} /\ (GoesOn(turn) = "calls" => turn.todo # <<>>)
  BY DEF GoesOn
<1> QED BY <1>1, <1>2, GoFine

LEMMA DispatchKeepsInv == ASSUME Inv, NEW t \in Threads, Dispatch(t) PROVE Inv'
<1> USE DEF daemonVars, rowVars, chatVars
<1> DEFINE f == thread[t]
           c == Front(f.turn)
<1>0. f \in Thread /\ Paused(f.turn, proposed) /\ c \in Calls /\ f.configs \subseteq Hosts
  BY InFront DEF Dispatch, Inv, Thread
<1>1. CASE Ran(t)
  <2>1. ThreadsFine'
    BY <1>1, GoesOnWith DEF Dispatch, Ran
  <2>2. runs' \in [Calls -> Nat]
    BY <1>0, <1>1 DEF Ran, Carried, Inv, Rest
  <2>3. Rest'
    BY <1>1, <2>2 DEF Dispatch, Ran, Inv, Rest
  <2> QED BY <2>1, <2>3, RowsUntouched DEF Dispatch
<1>2. CASE Asks(t)
  <2>1. PICK h \in ResolveHost(HostArg[c], f.configs) : Go(t, "ask", Asked(f.turn, h))
    BY <1>2 DEF Asks
  <2>2. h \in Hosts
    BY <1>0, <2>1, HostsResolved
  <2>3. Paused(Asked(f.turn, h), proposed)
    BY <1>0, <2>2, AskedIsPaused
  <2>4. ThreadsFine'
    BY <2>1, <2>3, GoFine DEF Paused, Dispatch
  <2>5. Rest'
    BY <1>2 DEF Dispatch, Asks, Inv, Rest
  <2> QED BY <2>4, <2>5, RowsUntouched DEF Dispatch
<1>3. CASE CameToNothing(t)
  <2>1. ThreadsFine'
    BY <1>3, GoesOnWith DEF Dispatch, CameToNothing
  <2>2. /\ late' \subseteq [call : Calls, host : Hosts, approved : BOOLEAN]
        /\ IsFiniteSet(late')
    <3>1. CASE UNCHANGED late
      BY <3>1 DEF Inv, Rest
    <3>2. CASE ~UNCHANGED late
      <4>1. PICK h \in ResolveHost(HostArg[c], f.configs) :
                late' = late \union {[call |-> c, host |-> h, approved |-> f.at = "resend"]}
        BY <1>3, <3>2 DEF CameToNothing
      <4>2. h \in Hosts
        BY <1>0, <4>1, HostsResolved
      <4> DEFINE m == [call |-> c, host |-> h, approved |-> f.at = "resend"]
      <4>3. m \in [call : Calls, host : Hosts, approved : BOOLEAN]
        BY <1>0, <4>2
      <4> HIDE DEF m
      <4>4. IsFiniteSet(late \union {m})
        BY FS_AddElement DEF Inv, Rest
      <4>5. late' = late \union {m}
        BY <4>1 DEF m
      <4> QED BY <4>3, <4>4, <4>5 DEF Inv, Rest
    <3> QED BY <3>1, <3>2
  <2>3. Rest'
    BY <1>3, <2>2 DEF Dispatch, CameToNothing, Inv, Rest
  <2> QED BY <2>1, <2>3, RowsUntouched DEF Dispatch
<1> QED BY <1>1, <1>2, <1>3 DEF Dispatch

LEMMA CreateRowKeepsInv == ASSUME Inv, NEW t \in Threads, CreateRow(t) PROVE Inv'
<1> USE DEF daemonVars, rowVars, chatVars
<1> DEFINE turn == thread[t].turn
           new == [thread[t] EXCEPT !.at = "reply", !.row = Len(rows')]
<1>1. thread[t] \in Thread /\ Paused(turn, proposed) /\ turn \in Turn
  BY InFront DEF CreateRow, Inv, Paused, Sound
<1>2. rows \in Seq(Turn) /\ rows' = Append(rows, turn)
  BY DEF CreateRow, Inv, Rest
<1>3. /\ rows' \in Seq(Turn) /\ Len(rows') = Len(rows) + 1 /\ Len(rows) \in Nat
      /\ DOMAIN rows = 1 .. Len(rows) /\ DOMAIN rows' = 1 .. Len(rows')
      /\ rows'[Len(rows')] = turn
      /\ \A id \in DOMAIN rows : rows'[id] = rows[id]
  BY <1>1, <1>2
<1>4. \A id \in DOMAIN rows' : id \in DOMAIN rows \/ id = Len(rows')
  BY <1>3
<1>5. new \in Thread /\ new.at = "reply" /\ new.turn = turn /\ new.row \in DOMAIN rows'
  <2>1. PICK n \in Nat : n = Len(rows')
    BY <1>3
  <2>2. n \in DOMAIN rows'
    BY <1>3, <2>1
  <2>3. LET new1 == [thread[t] EXCEPT !.at = "reply", !.row = n] IN
        new1 \in Thread /\ new1.at = "reply" /\ new1.turn = turn /\ new1.row = n
    BY <1>1 DEF Thread
  <2> QED BY <2>1, <2>2, <2>3
<1>6. thread' = [thread EXCEPT ![t] = new]
  BY DEF CreateRow
<1> HIDE DEF new
<1>7. ThreadsFine'
  <2>1. Fine(new, rows', proposed)
    BY <1>1, <1>5 DEF Fine, Paused
  <2>2. \A id \in DOMAIN rows : id \in DOMAIN rows' /\ rows'[id] = rows[id]
    BY <1>3
  <2>3. proposed' = proposed
    BY DEF CreateRow
  <2> QED BY <1>6, <2>1, <2>2, <2>3, OneThreadMoves DEF Inv
<1>8. RowsPaused'
  BY <1>1, <1>3, <1>4 DEF CreateRow, Inv, RowsPaused
<1>9. OnlyAnswersClose'
  <2>1. open' = open \union {Len(rows')} /\ answers' = answers
    BY DEF CreateRow
  <2> QED BY <1>3, <1>4, <2>1 DEF Inv, OnlyAnswersClose
<1>10. Rest'
  BY <1>3 DEF CreateRow, Inv, Rest
<1> QED BY <1>7, <1>8, <1>9, <1>10 DEF Inv

LEMMA WorkKeepsInv == ASSUME Inv, NEW t \in Threads, Work(t) PROVE Inv'
<1> USE DEF daemonVars, rowVars, chatVars
<1> DEFINE f == thread[t]
<1>0. f \in Thread /\ Fine(f, rows, proposed)
  BY DEF Inv, ThreadsFine
<1>1. CASE TakeRow(t)
  <2>1. Paused(f.turn, proposed) /\ Front(f.turn) \in Calls /\ f.allow \in BOOLEAN
    BY <1>1, InFront DEF TakeRow, Inv, Thread
  <2>2. PICK configs \in SUBSET Hosts : thread' = [thread EXCEPT ![t] = Decided(f, f.turn, f.allow, configs)]
    BY <1>1 DEF TakeRow
  <2>3. Fine(Decided(f, f.turn, f.allow, configs), rows, proposed)
    BY <1>0, <2>1, DecidedFine
  <2>4. ThreadsFine'
    BY <1>1, <2>2, <2>3, OneThreadMoves DEF TakeRow, Inv
  <2>5. Accept(Front(f.turn), f.allow)
    BY <1>1 DEF TakeRow
  <2>6. answers' \in [Calls -> Seq(BOOLEAN)]
    BY <2>1, <2>5, AcceptTyped DEF Inv
  <2>7. Rest'
    BY <1>1, <2>6 DEF TakeRow, Inv, Rest
  <2>8. \A id \in DOMAIN rows : id \in open \ open' => Front(rows[id]) = Front(f.turn)
    BY <1>0, <1>1 DEF TakeRow, Fine
  <2> QED BY <1>1, <2>1, <2>4, <2>5, <2>7, <2>8, AnswerCloses DEF TakeRow
<1>2. CASE CallModel(t)
  <2>1. Sound(f.turn, proposed) /\ ~f.turn.asked
    BY <1>0, <1>2 DEF CallModel, Fine
  <2>2. ASSUME NEW calls \in Proposals, Go(t, "calls", NextHop(f.turn, calls)), proposed' = proposed \union {calls}
        PROVE  ThreadsFine' /\ proposed' \subseteq Seq(Calls)
    <3>1. calls \in Seq(Calls) /\ calls # <<>>
      BY ProposalsAreLists
    <3>2. Sound(f.turn, proposed')
      BY <2>1, <2>2, SoundStays
    <3>3. Sound(NextHop(f.turn, calls), proposed') /\ NextHop(f.turn, calls).todo = calls
      BY <2>1, <2>2, <3>1, <3>2, NextHopIsSound
    <3> QED BY <1>2, <2>2, <3>1, <3>3, GoFine DEF CallModel, Inv, Rest
  <2>3. ASSUME Go(t, "reply", NextHop(f.turn, <<>>)), UNCHANGED proposed
        PROVE  ThreadsFine' /\ proposed' \subseteq Seq(Calls)
    <3>1. <<>> \in Seq(Calls)
      OBVIOUS
    <3>2. Sound(NextHop(f.turn, <<>>), proposed) /\ ~NextHop(f.turn, <<>>).asked
      BY <2>1, <3>1, NextHopIsSound
    <3> QED BY <1>2, <2>3, <3>2, GoFine DEF CallModel, Inv, Rest
  <2>4. ThreadsFine' /\ proposed' \subseteq Seq(Calls) /\ proposed \subseteq proposed'
    BY <1>2, <2>2, <2>3 DEF CallModel
  <2>5. Rest'
    BY <1>2, <2>4 DEF CallModel, Inv, Rest
  <2> QED BY <1>2, <2>4, <2>5, RowsUntouched DEF CallModel
<1>3. CASE ModelFails(t)
  <2>1. ThreadsFine'
    BY <1>3, IdleFine, OneThreadMoves DEF ModelFails, Inv
  <2>2. chat' \in [at : {"off", "you", "waiting", "approve?"}, id : Nat]
    BY <1>3 DEF ModelFails, Off, Inv, Rest
  <2>3. Rest'
    BY <1>3, <2>2 DEF ModelFails, Inv, Rest
  <2> QED BY <1>3, <2>1, <2>3, RowsUntouched DEF ModelFails
<1>4. CASE Reply(t)
  <2>1. ThreadsFine'
    BY <1>4, IdleFine, OneThreadMoves DEF Reply, Inv
  <2>2. f.row \in Nat /\ (f.turn.asked => f.row \in DOMAIN rows)
    BY <1>0, <1>4 DEF Reply, Fine, Thread
  <2>3. told' \subseteq DOMAIN rows
    BY <1>4, <2>2 DEF Reply, ChatHears, Inv, Rest
  <2>4. chat' \in [at : {"off", "you", "waiting", "approve?"}, id : Nat] /\ saved' \in Nat
    BY <1>4, <2>2 DEF Reply, ChatHears, Prompt, Inv, Rest
  <2>5. Rest'
    BY <1>4, <2>3, <2>4 DEF Reply, ChatHears, Inv, Rest
  <2> QED BY <1>4, <2>1, <2>5, RowsUntouched DEF Reply
<1> QED BY <1>1, <1>2, <1>3, <1>4, DispatchKeepsInv, CreateRowKeepsInv DEF Work

----------------------------------------------------------------------------
(* Requests *)

LEMMA BeginCounts ==
    ASSUME Rest, NEW t \in Threads, NEW new, Begin(t, new)
    PROVE  requests' \in 0 .. MaxRequests /\ thread' = [thread EXCEPT ![t] = new]
BY ApprovalAssumption DEF Begin, Rest

LEMMA IncomingKeepsInv == ASSUME Inv, NEW t \in Threads, Incoming(t) PROVE Inv'
<1> USE DEF daemonVars, rowVars, chatVars
<1>0. Rest
  BY DEF Inv
<1>1. CASE Say(t)
  <2>1. PICK configs \in SUBSET Hosts, mock \in Mocks \union {"no"} :
            Begin(t, [Idle EXCEPT !.at = "model", !.turn = NewTurn("chat", mock, <<>>), !.configs = configs,
                                  !.waits = "step"])
    BY <1>1 DEF Say
  <2> DEFINE turn == NewTurn("chat", mock, <<>>)
             new == [Idle EXCEPT !.at = "model", !.turn = turn, !.configs = configs, !.waits = "step"]
  <2>2. Sound(turn, proposed) /\ ~turn.asked
    <3>1. <<>> \in Seq(Calls)
      OBVIOUS
    <3> QED BY <3>1, NewTurnIsSound
  <2>3. Idle \in Thread /\ turn \in Turn
    BY <2>2, IdleFine DEF Sound
  <2>4. new \in Thread /\ new.at = "model" /\ new.turn = turn
    BY <2>3 DEF Thread
  <2>5. requests' \in 0 .. MaxRequests /\ thread' = [thread EXCEPT ![t] = new]
    BY <1>0, <2>1, BeginCounts
  <2> HIDE DEF new
  <2>6. Fine(new, rows, proposed)
    BY <2>2, <2>4 DEF Fine
  <2>7. ThreadsFine'
    BY <1>1, <2>5, <2>6, OneThreadMoves DEF Say, Inv
  <2>8. Rest'
    BY <1>1, <2>5 DEF Say, Waiting, Inv, Rest
  <2> QED BY <1>1, <2>7, <2>8, RowsUntouched DEF Say
<1>2. ASSUME NEW c \in Calls, CallTool(t, c) PROVE Inv'
  <2>1. PICK configs \in SUBSET Hosts, mock \in Mocks \union {"no"}, origin \in {"chat", "agent"} :
            Begin(t, [Idle EXCEPT !.at = "calls", !.turn = NewTurn(origin, mock, <<c>>), !.configs = configs])
    BY <1>2 DEF CallTool
  <2> DEFINE turn == NewTurn(origin, mock, <<c>>)
             new == [Idle EXCEPT !.at = "calls", !.turn = turn, !.configs = configs]
  <2>2. <<c>> \in Seq(Calls) /\ <<c>> # <<>> /\ <<c>> \in proposed'
    BY <1>2 DEF CallTool
  <2>3. Sound(turn, proposed') /\ ~turn.asked /\ turn.todo = <<c>>
    <3> HIDE DEF turn
    <3>1. PICK todo, lists : todo \in Seq(Calls) /\ todo = <<c>> /\ lists = proposed' /\ todo \in lists
      BY <2>2
    <3>2. todo \in Seq(Calls) /\ todo \in lists
      BY <3>1
    <3>3. Sound(NewTurn(origin, mock, todo), lists) /\ ~NewTurn(origin, mock, todo).asked
      <4>1. CASE origin = "chat"
        BY <3>2, <4>1, NewTurnIsSound
      <4>2. CASE origin = "agent"
        BY <3>2, <4>2, NewTurnIsSound
      <4> QED BY <4>1, <4>2
    <3>4. NewTurn(origin, mock, todo).todo = todo
      BY DEF NewTurn
    <3> QED BY <3>1, <3>3, <3>4 DEF turn
  <2>4. Idle \in Thread /\ turn \in Turn
    BY <2>3, IdleFine DEF Sound
  <2>5. new \in Thread /\ new.at = "calls" /\ new.turn = turn
    BY <2>4 DEF Thread
  <2>6. requests' \in 0 .. MaxRequests /\ thread' = [thread EXCEPT ![t] = new]
    BY <1>0, <2>1, BeginCounts
  <2> HIDE DEF new
  <2>7. Fine(new, rows, proposed')
    BY <2>2, <2>3, <2>5 DEF Fine
  <2>8. ThreadsFine'
    BY <1>2, <2>6, <2>7, OneThreadMoves DEF CallTool, Inv
  <2>9. proposed' \subseteq Seq(Calls)
    BY <1>2, <2>2 DEF CallTool, Inv, Rest
  <2>10. Rest'
    BY <1>2, <2>6, <2>9 DEF CallTool, Inv, Rest
  <2> QED BY <1>2, <2>8, <2>10, RowsUntouched DEF CallTool
<1>3. ASSUME NEW allow \in BOOLEAN, NEW id \in told, StepAgain(t, id, allow) PROVE Inv'
  <2>1. id \in DOMAIN rows /\ Paused(rows[id], proposed)
    BY DEF Inv, Rest, RowsPaused
  <2>2. Front(rows[id]) \in Calls
    BY <2>1, FrontIsCall DEF Paused, Sound
  <2>3. PICK configs \in SUBSET Hosts, mock \in Mocks \union {"no"} :
            Begin(t, Decided(Idle, OnMock(rows[id], mock), allow, configs))
    BY <1>3 DEF StepAgain
  <2> DEFINE new == Decided(Idle, OnMock(rows[id], mock), allow, configs)
  <2>4. requests' \in 0 .. MaxRequests /\ thread' = [thread EXCEPT ![t] = new]
    BY <1>0, <2>3, BeginCounts
  <2>5. Fine(new, rows, proposed)
    BY <2>1, StaysPaused, IdleFine, DecidedFine
  <2> HIDE DEF new
  <2>6. ThreadsFine'
    BY <1>3, <2>4, <2>5, OneThreadMoves DEF StepAgain, Inv
  <2>7. Accept(Front(rows[id]), allow)
    BY <1>3 DEF StepAgain
  <2>8. answers' \in [Calls -> Seq(BOOLEAN)]
    BY <1>0, <2>2, <2>7, AcceptTyped
  <2>9. Rest'
    BY <1>3, <2>4, <2>8 DEF StepAgain, Inv, Rest
  <2> QED BY <1>3, <2>2, <2>6, <2>7, <2>9, AnswerCloses DEF StepAgain
<1>4. ASSUME NEW allow \in BOOLEAN, NEW id \in open, NEW waits \in {"no", "decide"},
             Begin(t, [Idle EXCEPT !.at = "taking", !.row = id, !.turn = rows[id], !.allow = allow, !.waits = waits]),
             UNCHANGED <<rows, proposed>>
      PROVE  ThreadsFine' /\ requests' \in 0 .. MaxRequests
  <2> DEFINE new == [Idle EXCEPT !.at = "taking", !.row = id, !.turn = rows[id], !.allow = allow, !.waits = waits]
  <2>1. id \in DOMAIN rows /\ Paused(rows[id], proposed) /\ rows[id] \in Turn
    BY DEF Inv, Rest, RowsPaused, Paused, Sound
  <2>2. id \in Nat
    BY <1>0, <2>1 DEF Rest
  <2>3. new \in Thread /\ new.at = "taking" /\ new.row = id /\ new.turn = rows[id]
    BY <2>1, <2>2, IdleFine DEF Thread
  <2>4. requests' \in 0 .. MaxRequests /\ thread' = [thread EXCEPT ![t] = new]
    BY <1>0, <1>4, BeginCounts
  <2> HIDE DEF new
  <2>5. Fine(new, rows, proposed)
    BY <2>1, <2>3 DEF Fine, Paused
  <2> QED BY <1>4, <2>4, <2>5, OneThreadMoves DEF Inv
<1>5. ASSUME NEW allow \in BOOLEAN, NEW id \in open, Decide(t, id, allow) PROVE Inv'
  <2>1. [Idle EXCEPT !.at = "taking", !.row = id, !.turn = rows[id], !.allow = allow]
        = [Idle EXCEPT !.at = "taking", !.row = id, !.turn = rows[id], !.allow = allow, !.waits = "no"]
    <3>1. Idle.waits = "no" /\ Idle \in Thread
      BY IdleFine DEF Idle
    <3> QED BY <3>1 DEF Thread
  <2>2. ThreadsFine' /\ requests' \in 0 .. MaxRequests
    BY <1>4, <1>5, <2>1 DEF Decide
  <2>3. Rest'
    BY <1>5, <2>2 DEF Decide, Inv, Rest
  <2> QED BY <1>5, <2>2, <2>3, RowsUntouched DEF Decide
<1>6. ASSUME NEW allow \in BOOLEAN, AnswerPrompt(t, allow) PROVE Inv'
  <2>1. CASE chat.id \in open
    <3>1. ThreadsFine' /\ requests' \in 0 .. MaxRequests
      BY <1>4, <1>6, <2>1 DEF AnswerPrompt
    <3>2. Rest'
      BY <1>6, <2>1, <3>1 DEF AnswerPrompt, Waiting, Inv, Rest
    <3> QED BY <1>6, <3>1, <3>2, RowsUntouched DEF AnswerPrompt
  <2>2. CASE chat.id \notin open
    <3>1. Rest' /\ ThreadsFine'
      BY <1>6, <2>2 DEF AnswerPrompt, Off, Inv, Rest, ThreadsFine
    <3> QED BY <1>6, <3>1, RowsUntouched DEF AnswerPrompt
  <2> QED BY <2>1, <2>2
<1> QED BY <1>1, <1>2, <1>3, <1>5, <1>6 DEF Incoming

LEMMA InvKept == Inv /\ [Next]_vars => Inv'
<1> SUFFICES ASSUME Inv, [Next]_vars PROVE Inv'
  OBVIOUS
<1>1. CASE UNCHANGED vars
  BY <1>1 DEF vars, daemonVars, rowVars, chatVars, Inv, Rest, ThreadsFine, RowsPaused, OnlyAnswersClose
<1> QED BY <1>1, MachinesKeepInv, ChatKeepsInv, WorkKeepsInv, IncomingKeepsInv DEF Next


----------------------------------------------------------------------------
(* What holds of every state *)

LEMMA InvAlways == Spec => []Inv
BY InitInv, InvKept, PTL DEF Spec

\* The variables keep their types.
THEOREM TypeCorrect == Spec => []TypeOK
<1>1. Inv => TypeOK
  BY DEF Inv, Rest, ThreadsFine, TypeOK
<1> QED BY <1>1, InvAlways, PTL

\* In every copy of a turn the answered and the pending calls make up one list
\* that was proposed, however often it was paused, stored and resumed.
THEOREM TranscriptsMatch == Spec => []TranscriptMatches
<1>1. Inv => TranscriptMatches
  <2> SUFFICES ASSUME Inv PROVE TranscriptMatches
    OBVIOUS
  <2>1. \A id \in DOMAIN rows : Sound(rows[id], proposed)
    BY DEF Inv, RowsPaused, Paused
  <2>2. \A t \in Threads : Sound(thread[t].turn, proposed)
    BY DEF Inv, ThreadsFine, Fine
  <2> QED BY <2>1, <2>2 DEF TranscriptMatches, Sound
<1> QED BY <1>1, InvAlways, PTL

\* An approval leaves the queue with an answer only.
THEOREM AnswersClose == Spec => []OnlyAnswersClose
<1>1. Inv => OnlyAnswersClose
  BY DEF Inv
<1> QED BY <1>1, InvAlways, PTL

----------------------------------------------------------------------------
(* Answers that may still be used *)

ArmedIn(th, c) == {t \in Threads : th[t].at = "resend" /\ Front(th[t].turn) = c}
OnItsWayIn(l, c) == {m \in l : m.call = c /\ m.approved}
Usable(th, l, c) == Cardinality(ArmedIn(th, c)) + Cardinality(OnItsWayIn(l, c))

LEMMA PermitsAre ==
    /\ Permits = [c \in Calls |-> Usable(thread, late, c)]
    /\ Permits' = [c \in Calls |-> Usable(thread', late', c)]
BY DEF Permits, Usable, Armed, ArmedIn, OnItsWay, OnItsWayIn

LEMMA UsableCounts ==
    ASSUME NEW th, NEW l, IsFiniteSet(l), NEW c
    PROVE  /\ IsFiniteSet(ArmedIn(th, c)) /\ Cardinality(ArmedIn(th, c)) \in Nat
           /\ IsFiniteSet(OnItsWayIn(l, c)) /\ Cardinality(OnItsWayIn(l, c)) \in Nat
           /\ Usable(th, l, c) \in Nat
<1>1. ArmedIn(th, c) \in SUBSET Threads /\ OnItsWayIn(l, c) \in SUBSET l
  BY DEF ArmedIn, OnItsWayIn
<1>2. IsFiniteSet(ArmedIn(th, c)) /\ IsFiniteSet(OnItsWayIn(l, c))
  BY <1>1, FS_Subset, ApprovalAssumption
<1>3. Cardinality(ArmedIn(th, c)) \in Nat /\ Cardinality(OnItsWayIn(l, c)) \in Nat
  BY <1>2, FS_CardinalityType
<1> QED BY <1>2, <1>3 DEF Usable

\* None more.
LEMMA UsableShrinks ==
    ASSUME NEW th, NEW l, IsFiniteSet(l), NEW th2, NEW l2, IsFiniteSet(l2), NEW c,
           ArmedIn(th2, c) \subseteq ArmedIn(th, c), OnItsWayIn(l2, c) \subseteq OnItsWayIn(l, c)
    PROVE  Usable(th2, l2, c) <= Usable(th, l, c)
<1>1. /\ Cardinality(ArmedIn(th2, c)) <= Cardinality(ArmedIn(th, c))
      /\ Cardinality(OnItsWayIn(l2, c)) <= Cardinality(OnItsWayIn(l, c))
  BY UsableCounts, FS_Subset
<1>2. /\ Cardinality(ArmedIn(th2, c)) \in Nat /\ Cardinality(ArmedIn(th, c)) \in Nat
      /\ Cardinality(OnItsWayIn(l2, c)) \in Nat /\ Cardinality(OnItsWayIn(l, c)) \in Nat
  BY UsableCounts
<1> QED BY <1>1, <1>2 DEF Usable

\* An answer is given.
LEMMA UsableGains ==
    ASSUME NEW th, NEW l, IsFiniteSet(l), NEW th2, NEW c, NEW t,
           ArmedIn(th2, c) = ArmedIn(th, c) \union {t}, t \notin ArmedIn(th, c)
    PROVE  Usable(th2, l, c) = Usable(th, l, c) + 1
<1>1. Cardinality(ArmedIn(th2, c)) = Cardinality(ArmedIn(th, c)) + 1
  BY UsableCounts, FS_AddElement
<1>2. Cardinality(ArmedIn(th, c)) \in Nat /\ Cardinality(OnItsWayIn(l, c)) \in Nat
  BY UsableCounts
<1> QED BY <1>1, <1>2 DEF Usable

\* A thread uses its answer.
LEMMA UsableSpent ==
    ASSUME NEW th, NEW l, IsFiniteSet(l), NEW th2, NEW c, NEW t,
           ArmedIn(th2, c) = ArmedIn(th, c) \ {t}, t \in ArmedIn(th, c)
    PROVE  Usable(th2, l, c) = Usable(th, l, c) - 1
<1>1. Cardinality(ArmedIn(th2, c)) = Cardinality(ArmedIn(th, c)) - 1
  BY UsableCounts, FS_RemoveElement
<1>2. Cardinality(ArmedIn(th, c)) \in Nat /\ Cardinality(OnItsWayIn(l, c)) \in Nat
  BY UsableCounts
<1> QED BY <1>1, <1>2 DEF Usable

\* A call that was on its way with one arrives.
LEMMA UsableArrives ==
    ASSUME NEW th, NEW l, IsFiniteSet(l), NEW l2, NEW c, NEW m,
           OnItsWayIn(l2, c) = OnItsWayIn(l, c) \ {m}, m \in OnItsWayIn(l, c)
    PROVE  Usable(th, l2, c) = Usable(th, l, c) - 1
<1>1. Cardinality(OnItsWayIn(l2, c)) = Cardinality(OnItsWayIn(l, c)) - 1
  BY UsableCounts, FS_RemoveElement
<1>2. Cardinality(ArmedIn(th, c)) \in Nat /\ Cardinality(OnItsWayIn(l, c)) \in Nat
  BY UsableCounts
<1> QED BY <1>1, <1>2 DEF Usable

\* A thread gives up on a call it sent with one.
LEMMA UsableHandedOver ==
    ASSUME NEW th, NEW l, IsFiniteSet(l), NEW th2, NEW l2, NEW c, NEW t, NEW m,
           ArmedIn(th2, c) = ArmedIn(th, c) \ {t}, t \in ArmedIn(th, c),
           OnItsWayIn(l2, c) = OnItsWayIn(l, c) \union {m}
    PROVE  Usable(th2, l2, c) <= Usable(th, l, c)
<1>1. Cardinality(ArmedIn(th2, c)) = Cardinality(ArmedIn(th, c)) - 1
  BY UsableCounts, FS_RemoveElement
<1>2. Cardinality(OnItsWayIn(l2, c)) \in {Cardinality(OnItsWayIn(l, c)), Cardinality(OnItsWayIn(l, c)) + 1}
  BY UsableCounts, FS_AddElement
<1>3. Cardinality(ArmedIn(th, c)) \in Nat /\ Cardinality(OnItsWayIn(l, c)) \in Nat
  BY UsableCounts
<1> QED BY <1>1, <1>2, <1>3 DEF Usable

\* One thread turns to something else.
OnlyTurns(th, th2, t) == \A u \in Threads : u # t => th2[u] = th[u]

LEMMA TurnsTo ==
    ASSUME Inv, NEW t \in Threads, NEW new, thread' = [thread EXCEPT ![t] = new]
    PROVE  OnlyTurns(thread, thread', t) /\ thread'[t] = new
BY DEF Inv, ThreadsFine, OnlyTurns

LEMMA ArmedAfter ==
    ASSUME NEW th, NEW th2, NEW t \in Threads, NEW c, OnlyTurns(th, th2, t)
    PROVE  ArmedIn(th2, c) = IF t \in ArmedIn(th2, c) THEN ArmedIn(th, c) \union {t} ELSE ArmedIn(th, c) \ {t}
BY DEF ArmedIn, OnlyTurns

\* A decision sends the call again or leaves it.
LEMMA DecidedArms ==
    ASSUME NEW f \in Thread, NEW turn, NEW lists, Paused(turn, lists),
           NEW allow \in BOOLEAN, NEW configs \in SUBSET Hosts
    PROVE  LET new == Decided(f, turn, allow, configs) IN
           /\ new.at = "resend" <=> allow
           /\ allow => Front(new.turn) = Front(turn)
<1> DEFINE new == Decided(f, turn, allow, configs)
<1>1. turn \in Turn /\ Answered(turn) \in Turn
  BY AnsweredIsSound DEF Paused, Sound
<1>2. CASE allow
  <2>1. [turn EXCEPT !.asked = FALSE] \in Turn /\ [turn EXCEPT !.asked = FALSE].todo = turn.todo
    BY <1>1 DEF Turn
  <2>2. new.at = "resend" /\ new.turn = [turn EXCEPT !.asked = FALSE]
    BY <1>2, <2>1 DEF Decided, Thread
  <2> HIDE DEF new
  <2>3. Front(new.turn) = Front(turn)
    BY <2>1, <2>2 DEF Front
  <2> QED BY <1>2, <2>2, <2>3 DEF new
<1>3. CASE ~allow
  <2>1. GoesOn(Answered(turn)) \in {"calls", "reply", "model"}
    BY DEF GoesOn
  <2>2. new.at = GoesOn(Answered(turn))
    BY <1>1, <1>3, <2>1 DEF Decided, Thread
  <2> QED BY <1>3, <2>1, <2>2
<1> QED BY <1>2, <1>3

----------------------------------------------------------------------------
(* Every step is one of Consent's *)

LEMMA UsableTyped ==
    ASSUME Rest, Rest', NEW c
    PROVE  Usable(thread, late, c) \in Nat /\ Usable(thread', late', c) \in Nat
BY UsableCounts DEF Rest

LEMMA Lapses ==
    ASSUME Rest, Rest', UNCHANGED <<tier, runs>>,
           \A c \in Calls : Usable(thread', late', c) <= Usable(thread, late, c)
    PROVE  Promise!ConsentNext
<1>1. \A c \in Calls : Usable(thread', late', c) \in Nat
  BY UsableTyped
<1>2. Promise!Lapse
  BY <1>1, PermitsAre DEF Promise!Lapse
<1> QED BY <1>2 DEF Promise!ConsentNext

LEMMA GivesAnswer ==
    ASSUME Rest, Rest', UNCHANGED <<tier, runs>>, NEW c \in Calls,
           \A d \in Calls : Usable(thread', late', d) =
               IF d = c THEN Usable(thread, late, c) + 1 ELSE Usable(thread, late, d)
    PROVE  Promise!ConsentNext
<1>1. Promise!Allow(c)
  BY PermitsAre DEF Promise!Allow
<1> QED BY <1>1 DEF Promise!ConsentNext

\* A call runs on a machine; "with" says whether an answer went along.
LEMMA RunsOnce ==
    ASSUME Rest, Rest', UNCHANGED tier, NEW c \in Calls, NEW h \in Hosts, runs' = Carried(c),
           \/ tier[h] = "allow" /\ Usable(thread', late', c) = Usable(thread, late, c)
           \/ tier[h] \in {"allow", "ask"} /\ Usable(thread', late', c) = Usable(thread, late, c) - 1,
           \A d \in Calls \ {c} : Usable(thread', late', d) = Usable(thread, late, d)
    PROVE  Promise!ConsentNext
<1>1. \A d \in Calls : Usable(thread', late', d) \in Nat
  BY UsableTyped
<1>2. Permits' \in [Calls -> Nat] /\ (\A d \in Calls \ {c} : Permits'[d] = Permits[d])
  BY <1>1, PermitsAre
<1>3. \/ tier[h] = "allow" /\ Permits'[c] \in {Permits[c], Permits[c] - 1}
      \/ tier[h] = "ask" /\ Permits'[c] = Permits[c] - 1
  BY PermitsAre
<1>4. Promise!Run(c, h)
  BY <1>2, <1>3 DEF Promise!Run, Carried
<1> QED BY <1>4 DEF Promise!ConsentNext

\* A thread turns to something that is no sending again.
LEMMA LeavesOff ==
    ASSUME Inv, Inv', UNCHANGED <<tier, runs, late>>, NEW t \in Threads, NEW new,
           thread' = [thread EXCEPT ![t] = new], new.at # "resend"
    PROVE  Promise!ConsentNext
<1>1. thread \in [Threads -> Thread] /\ Rest /\ Rest'
  BY DEF Inv, ThreadsFine
<1>2. ASSUME NEW c \in Calls PROVE Usable(thread', late', c) <= Usable(thread, late, c)
  <2>1. ArmedIn(thread', c) \subseteq ArmedIn(thread, c)
    <3>1. ArmedIn(thread', c) = ArmedIn(thread, c) \ {t}
      <4>1. OnlyTurns(thread, thread', t) /\ thread'[t] = new
        BY TurnsTo
      <4>2. t \notin ArmedIn(thread', c)
        BY <4>1 DEF ArmedIn
      <4> QED BY <4>1, <4>2, ArmedAfter
    <3> QED BY <3>1
  <2>2. IsFiniteSet(late) /\ late' = late
    BY <1>1 DEF Rest
  <2> QED BY <2>1, <2>2, UsableShrinks
<1> QED BY <1>1, <1>2, Lapses

\* A paused turn is decided.
LEMMA Decides ==
    ASSUME Inv, Inv', UNCHANGED <<tier, runs, late>>, NEW t \in Threads, thread[t].at # "resend",
           NEW turn, Paused(turn, proposed), NEW allow \in BOOLEAN, NEW configs \in SUBSET Hosts,
           NEW f \in Thread,
           thread' = [thread EXCEPT ![t] = Decided(f, turn, allow, configs)]
    PROVE  Promise!ConsentNext
<1> DEFINE new == Decided(f, turn, allow, configs)
           c == Front(turn)
<1>1. thread \in [Threads -> Thread] /\ Rest /\ Rest' /\ c \in Calls
  BY FrontIsCall DEF Inv, ThreadsFine, Paused, Sound
<1>4. (new.at = "resend" <=> allow) /\ (allow => Front(new.turn) = c)
  BY DecidedArms
<1> HIDE DEF new, c
<1>5. thread' = [thread EXCEPT ![t] = new] /\ OnlyTurns(thread, thread', t) /\ thread'[t] = new
  BY TurnsTo DEF new
<1>2. CASE ~allow
  BY <1>2, <1>4, <1>5, LeavesOff
<1>3. CASE allow
  <2>4. ASSUME NEW d \in Calls
        PROVE  Usable(thread', late', d) =
                   IF d = c THEN Usable(thread, late, c) + 1 ELSE Usable(thread, late, d)
    <3>1. t \notin ArmedIn(thread, d) /\ IsFiniteSet(late) /\ late' = late
      BY <1>1 DEF ArmedIn, Rest
    <3>2. CASE d = c
      <4>0. t \in ArmedIn(thread', c)
        BY <1>3, <1>4, <1>5 DEF ArmedIn
      <4>1. ArmedIn(thread', c) = ArmedIn(thread, c) \union {t}
        BY <1>5, <4>0, ArmedAfter
      <4>2. t \notin ArmedIn(thread, c) /\ IsFiniteSet(late)
        BY <3>1, <3>2
      <4>3. Usable(thread', late, c) = Usable(thread, late, c) + 1
        BY <4>1, <4>2, UsableGains
      <4> QED BY <3>1, <3>2, <4>3
    <3>3. CASE d # c
      <4>0. t \notin ArmedIn(thread', d)
        BY <1>3, <1>4, <1>5, <3>3 DEF ArmedIn
      <4>1. ArmedIn(thread', d) = ArmedIn(thread, d) \ {t}
        BY <1>5, <4>0, ArmedAfter
      <4>2. ArmedIn(thread', d) = ArmedIn(thread, d)
        BY <3>1, <4>1
      <4> QED BY <3>1, <3>3, <4>2 DEF Usable
    <3> QED BY <3>2, <3>3
  <2> QED BY <1>1, <2>4, GivesAnswer
<1> QED BY <1>2, <1>3

LEMMA IdleFields ==
    /\ Idle.at = "idle" /\ Idle \in Thread
BY IdleFine DEF Idle

\* Nothing happens to the answers.
LEMMA AnswersStay ==
    ASSUME Inv, Inv', UNCHANGED <<tier, runs, late>>,
           \A c \in Calls : ArmedIn(thread', c) \subseteq ArmedIn(thread, c)
    PROVE  Promise!ConsentNext
<1>1. Rest /\ Rest' /\ IsFiniteSet(late) /\ late' = late
  BY DEF Inv, Rest
<1>2. ASSUME NEW c \in Calls PROVE Usable(thread', late', c) <= Usable(thread, late, c)
  BY <1>1, UsableShrinks
<1> QED BY <1>1, <1>2, Lapses

LEMMA OthersConsent ==
    ASSUME Inv, Inv', ChangePolicy \/ ArriveLate \/ Launch \/ Quit \/ Restart \/ UNCHANGED vars
    PROVE  Promise!ConsentNext \/ UNCHANGED Promise!consentVars
<1> USE DEF daemonVars, rowVars, chatVars
<1>1. CASE ChangePolicy
  <2>1. tier' \in [Hosts -> Tiers] /\ UNCHANGED <<thread, late, runs>>
    BY <1>1 DEF ChangePolicy, Inv, Rest
  <2>2. Permits' = Permits
    BY <2>1, PermitsAre
  <2>3. Promise!ChangePolicy
    BY <2>1, <2>2 DEF Promise!ChangePolicy, Promise!Tiers, Tiers
  <2> QED BY <2>3 DEF Promise!ConsentNext
<1>2. CASE ArriveLate
  <2>1. PICK m \in late :
            /\ late' = late \ {m}
            /\ \/ WouldRun(m.host, m.approved) /\ runs' = Carried(m.call)
               \/ UNCHANGED runs
    BY <1>2 DEF ArriveLate
  <2>2. m.call \in Calls /\ m.host \in Hosts /\ m.approved \in BOOLEAN
    BY DEF Inv, Rest
  <2>3. Rest /\ Rest' /\ IsFiniteSet(late) /\ IsFiniteSet(late') /\ thread' = thread /\ tier' = tier
    BY <1>2 DEF ArriveLate, Inv, Rest
  <2>4. CASE UNCHANGED runs
    <3>1. ASSUME NEW c \in Calls PROVE Usable(thread', late', c) <= Usable(thread, late, c)
      <4>1. OnItsWayIn(late', c) \subseteq OnItsWayIn(late, c)
        BY <2>1 DEF OnItsWayIn
      <4> QED BY <2>3, <4>1, UsableShrinks
    <3> QED BY <2>3, <2>4, <3>1, Lapses
  <2>5. CASE WouldRun(m.host, m.approved) /\ runs' = Carried(m.call)
    <3>1. ASSUME NEW d \in Calls, d # m.call \/ ~m.approved
          PROVE  Usable(thread', late', d) = Usable(thread, late, d)
      <4>1. OnItsWayIn(late', d) = OnItsWayIn(late, d)
        BY <2>1, <3>1 DEF OnItsWayIn
      <4> QED BY <2>3, <4>1 DEF Usable
    <3>2. CASE m.approved
      <4>1. OnItsWayIn(late', m.call) = OnItsWayIn(late, m.call) \ {m} /\ m \in OnItsWayIn(late, m.call)
        BY <2>1, <3>2 DEF OnItsWayIn
      <4>2. Usable(thread, late', m.call) = Usable(thread, late, m.call) - 1
        BY <2>3, <4>1, UsableArrives
      <4>3. tier[m.host] \in {"allow", "ask"}
        BY <2>5 DEF WouldRun
      <4> QED BY <2>2, <2>3, <2>5, <3>1, <4>2, <4>3, RunsOnce
    <3>3. CASE ~m.approved
      <4>1. tier[m.host] = "allow"
        BY <2>5, <3>3 DEF WouldRun
      <4> QED BY <2>2, <2>3, <2>5, <3>1, <3>3, <4>1, RunsOnce
    <3> QED BY <3>2, <3>3
  <2> QED BY <2>1, <2>4, <2>5
<1>3. CASE Launch \/ UNCHANGED vars
  <2>1. UNCHANGED <<tier, runs, late, thread>>
    BY <1>3 DEF Launch, vars
  <2> QED BY <2>1, AnswersStay
<1>4. CASE Quit
  <2>1. UNCHANGED <<tier, runs, late>>
    BY <1>4 DEF Quit
  <2>2. ASSUME NEW t \in Threads PROVE thread'[t].at = thread[t].at /\ thread'[t].turn = thread[t].turn
    <3>1. thread'[t] = [thread[t] EXCEPT !.waits = "no"] /\ thread[t] \in Thread
      BY <1>4 DEF Quit, Inv, ThreadsFine
    <3> QED BY <3>1 DEF Thread
  <2>3. \A c \in Calls : ArmedIn(thread', c) \subseteq ArmedIn(thread, c)
    BY <2>2 DEF ArmedIn
  <2> QED BY <2>1, <2>3, AnswersStay
<1>5. CASE Restart
  <2>1. UNCHANGED <<tier, runs, late>>
    BY <1>5 DEF Restart
  <2>2. \A t \in Threads : thread'[t].at = "idle"
    BY <1>5, IdleFields DEF Restart
  <2>3. \A c \in Calls : ArmedIn(thread', c) \subseteq ArmedIn(thread, c)
    BY <2>2 DEF ArmedIn
  <2> QED BY <2>1, <2>3, AnswersStay
<1> QED BY <1>1, <1>2, <1>3, <1>4, <1>5

\* A thread goes on, sending nothing again.
LEMMA GoesOff ==
    ASSUME Inv, Inv', UNCHANGED <<tier, runs, late>>, NEW t \in Threads,
           NEW at \in {"model", "calls", "ask", "reply"}, NEW turn, Go(t, at, turn)
    PROVE  Promise!ConsentNext
<1> DEFINE new == [thread[t] EXCEPT !.at = at, !.turn = turn]
<1>1. thread[t] \in Thread
  BY DEF Inv, ThreadsFine
<1>2. new.at # "resend" /\ thread' = [thread EXCEPT ![t] = new]
  BY <1>1 DEF Thread, Go
<1> HIDE DEF new
<1> QED BY <1>2, LeavesOff

LEMMA DispatchConsents ==
    ASSUME Inv, Inv', NEW t \in Threads, Dispatch(t)
    PROVE  Promise!ConsentNext
<1> USE DEF daemonVars, rowVars, chatVars
<1> DEFINE f == thread[t]
           c == Front(f.turn)
           turn == Answered(f.turn)
<1>0. /\ f \in Thread /\ Paused(f.turn, proposed) /\ c \in Calls /\ f.configs \subseteq Hosts
      /\ Rest /\ Rest' /\ IsFiniteSet(late) /\ IsFiniteSet(late')
      /\ f.at \in {"calls", "resend"} /\ tier' = tier
  BY InFront DEF Dispatch, Inv, Rest, Thread
<1>1. GoesOn(turn) \in {"model", "calls", "ask", "reply"}
  BY DEF GoesOn
<1>2. ASSUME Go(t, GoesOn(turn), turn)
      PROVE  OnlyTurns(thread, thread', t) /\ \A d : t \notin ArmedIn(thread', d)
  <2> DEFINE new == [f EXCEPT !.at = GoesOn(turn), !.turn = turn]
  <2>1. new.at # "resend" /\ thread' = [thread EXCEPT ![t] = new]
    BY <1>0, <1>1, <1>2 DEF Thread, Go
  <2> HIDE DEF new
  <2>2. OnlyTurns(thread, thread', t) /\ thread'[t] = new
    BY <2>1, TurnsTo
  <2> QED BY <2>1, <2>2 DEF ArmedIn
<1>3. \A d : t \in ArmedIn(thread, d) <=> f.at = "resend" /\ d = c
  BY DEF ArmedIn
<1> HIDE DEF turn
<1>4. CASE Asks(t)
  <2>1. PICK h : Go(t, "ask", Asked(f.turn, h))
    BY <1>4 DEF Asks
  <2>2. UNCHANGED <<tier, runs, late>>
    BY <1>4 DEF Dispatch, Asks
  <2> QED BY <2>1, <2>2, GoesOff
<1>5. CASE Ran(t)
  <2>1. PICK h \in ResolveHost(HostArg[c], f.configs) : WouldRun(h, f.at = "resend")
    BY <1>5 DEF Ran
  <2>2. h \in Hosts /\ runs' = Carried(c) /\ late' = late /\ Go(t, GoesOn(turn), turn)
    BY <1>0, <1>5, <2>1, HostsResolved DEF Ran, turn
  <2>3. ASSUME NEW d \in Calls, d # c \/ f.at # "resend"
        PROVE  Usable(thread', late', d) = Usable(thread, late, d)
    <3>1. ArmedIn(thread', d) = ArmedIn(thread, d) \ {t}
      BY <1>2, <2>2, ArmedAfter
    <3>2. t \notin ArmedIn(thread, d)
      BY <1>3, <2>3
    <3>3. ArmedIn(thread', d) = ArmedIn(thread, d)
      BY <3>1, <3>2
    <3> QED BY <2>2, <3>3 DEF Usable
  <2>4. CASE f.at = "resend"
    <3>1. ArmedIn(thread', c) = ArmedIn(thread, c) \ {t}
      BY <1>2, <2>2, ArmedAfter
    <3>2. t \in ArmedIn(thread, c)
      BY <1>3, <2>4
    <3>3. Usable(thread', late, c) = Usable(thread, late, c) - 1
      BY <1>0, <3>1, <3>2, UsableSpent
    <3>4. tier[h] \in {"allow", "ask"}
      BY <2>1 DEF WouldRun
    <3> HIDE DEF c
    <3> QED BY <1>0, <2>2, <2>3, <3>3, <3>4, RunsOnce
  <2>5. CASE f.at # "resend"
    <3>1. tier[h] = "allow"
      BY <2>1, <2>5 DEF WouldRun
    <3>2. Usable(thread', late', c) = Usable(thread, late, c)
      BY <1>0, <2>3, <2>5
    <3> HIDE DEF c
    <3> QED BY <1>0, <2>2, <2>3, <2>5, <3>1, <3>2, RunsOnce
  <2> QED BY <2>4, <2>5
<1>6. CASE CameToNothing(t)
  <2>1. Go(t, GoesOn(turn), turn) /\ runs' = runs
    BY <1>6 DEF CameToNothing, turn
  <2>2. CASE UNCHANGED late
    BY <1>0, <1>1, <2>1, <2>2, GoesOff
  <2>3. CASE ~UNCHANGED late
    <3>1. PICK h : late' = late \union {[call |-> c, host |-> h, approved |-> f.at = "resend"]}
      BY <1>6, <2>3 DEF CameToNothing
    <3> DEFINE m == [call |-> c, host |-> h, approved |-> f.at = "resend"]
    <3>2. m.call = c /\ (m.approved <=> f.at = "resend")
      OBVIOUS
    <3> HIDE DEF m
    <3>3. late' = late \union {m}
      BY <3>1 DEF m
    <3>4. ASSUME NEW d \in Calls PROVE Usable(thread', late', d) <= Usable(thread, late, d)
      <4>1. ArmedIn(thread', d) = ArmedIn(thread, d) \ {t}
        BY <1>2, <2>1, ArmedAfter
      <4>2. CASE f.at = "resend" /\ d = c
        <5>1. OnItsWayIn(late', d) = OnItsWayIn(late, d) \union {m}
          BY <3>2, <3>3, <4>2 DEF OnItsWayIn
        <5>2. t \in ArmedIn(thread, d)
          BY <1>3, <4>2
        <5> QED BY <1>0, <4>1, <5>1, <5>2, UsableHandedOver
      <4>3. CASE ~(f.at = "resend" /\ d = c)
        <5>1. OnItsWayIn(late', d) = OnItsWayIn(late, d)
          BY <3>2, <3>3, <4>3 DEF OnItsWayIn
        <5>2. ArmedIn(thread', d) \subseteq ArmedIn(thread, d)
          BY <4>1
        <5> QED BY <1>0, <5>1, <5>2, UsableShrinks
      <4> QED BY <4>2, <4>3
    <3> QED BY <1>0, <2>1, <3>4, Lapses
  <2> QED BY <2>2, <2>3
<1> QED BY <1>4, <1>5, <1>6 DEF Dispatch

LEMMA WorkConsents ==
    ASSUME Inv, Inv', NEW t \in Threads, Work(t)
    PROVE  Promise!ConsentNext
<1> USE DEF daemonVars, rowVars, chatVars
<1> DEFINE f == thread[t]
<1>0. f \in Thread
  BY DEF Inv, ThreadsFine
<1>1. CASE TakeRow(t)
  <2>1. PICK configs \in SUBSET Hosts : thread' = [thread EXCEPT ![t] = Decided(f, f.turn, f.allow, configs)]
    BY <1>1 DEF TakeRow
  <2>2. Paused(f.turn, proposed) /\ f.allow \in BOOLEAN /\ f.at # "resend"
    BY <1>0, <1>1, InFront DEF TakeRow, Inv, Thread
  <2>3. UNCHANGED <<tier, runs, late>>
    BY <1>1 DEF TakeRow
  <2> QED BY <1>0, <2>1, <2>2, <2>3, Decides
<1>2. CASE CallModel(t)
  <2>1. UNCHANGED <<tier, runs, late>> /\ \E at \in {"calls", "reply"} : \E turn : Go(t, at, turn)
    BY <1>2 DEF CallModel
  <2> QED BY <2>1, GoesOff
<1>3. CASE ModelFails(t) \/ Reply(t)
  <2>1. UNCHANGED <<tier, runs, late>> /\ thread' = [thread EXCEPT ![t] = Idle]
    BY <1>3 DEF ModelFails, Reply, ChatHears
  <2> QED BY <2>1, IdleFields, LeavesOff
<1>4. CASE CreateRow(t)
  <2>1. UNCHANGED <<tier, runs, late>>
    BY <1>4 DEF CreateRow
  <2>2. PICK row : thread' = [thread EXCEPT ![t] = [f EXCEPT !.at = "reply", !.row = row]]
    BY <1>4 DEF CreateRow
  <2> DEFINE new == [f EXCEPT !.at = "reply", !.row = row]
  <2>3. new.at # "resend"
    BY <1>0 DEF Thread
  <2> HIDE DEF new
  <2>4. thread' = [thread EXCEPT ![t] = new]
    BY <2>2 DEF new
  <2> QED BY <2>1, <2>3, <2>4, LeavesOff
<1> QED BY <1>1, <1>2, <1>3, <1>4, DispatchConsents DEF Work

LEMMA IncomingConsents ==
    ASSUME Inv, Inv', NEW t \in Threads, Incoming(t)
    PROVE  Promise!ConsentNext
<1> USE DEF daemonVars, rowVars, chatVars
<1>0. UNCHANGED <<tier, runs, late>>
  BY DEF Incoming, Say, CallTool, StepAgain, Decide, AnswerPrompt
<1>1. ASSUME NEW new, Begin(t, new), new.at # "resend" PROVE Promise!ConsentNext
  <2>1. thread' = [thread EXCEPT ![t] = new]
    BY <1>1 DEF Begin
  <2> QED BY <1>0, <1>1, <2>1, LeavesOff
<1>2. CASE Say(t)
  <2>1. PICK configs, mock :
            Begin(t, [Idle EXCEPT !.at = "model", !.turn = NewTurn("chat", mock, <<>>), !.configs = configs,
                                  !.waits = "step"])
    BY <1>2 DEF Say
  <2>2. [Idle EXCEPT !.at = "model", !.turn = NewTurn("chat", mock, <<>>), !.configs = configs,
                     !.waits = "step"].at = "model"
    BY IdleFields DEF Thread
  <2> QED BY <1>1, <2>1, <2>2
<1>3. ASSUME NEW c \in Calls, CallTool(t, c) PROVE Promise!ConsentNext
  <2>1. PICK configs, mock, origin :
            Begin(t, [Idle EXCEPT !.at = "calls", !.turn = NewTurn(origin, mock, <<c>>), !.configs = configs])
    BY <1>3 DEF CallTool
  <2>2. [Idle EXCEPT !.at = "calls", !.turn = NewTurn(origin, mock, <<c>>), !.configs = configs].at = "calls"
    BY IdleFields DEF Thread
  <2> QED BY <1>1, <2>1, <2>2
<1>4. ASSUME NEW allow \in BOOLEAN, NEW id \in told, StepAgain(t, id, allow) PROVE Promise!ConsentNext
  <2>1. PICK configs \in SUBSET Hosts, mock \in Mocks \union {"no"} :
            Begin(t, Decided(Idle, OnMock(rows[id], mock), allow, configs))
    BY <1>4 DEF StepAgain
  <2>2. Paused(OnMock(rows[id], mock), proposed)
    BY StaysPaused DEF Inv, Rest, RowsPaused
  <2>3. /\ thread[t].at # "resend"
        /\ thread' = [thread EXCEPT ![t] = Decided(Idle, OnMock(rows[id], mock), allow, configs)]
    BY <2>1 DEF Begin
  <2> QED BY <1>0, <2>2, <2>3, IdleFields, Decides
<1>5. ASSUME NEW allow, NEW id, Decide(t, id, allow) PROVE Promise!ConsentNext
  <2>1. [Idle EXCEPT !.at = "taking", !.row = id, !.turn = rows[id], !.allow = allow].at = "taking"
    BY IdleFields DEF Thread
  <2> QED BY <1>1, <1>5, <2>1 DEF Decide
<1>6. ASSUME NEW allow, AnswerPrompt(t, allow) PROVE Promise!ConsentNext
  <2>1. CASE chat.id \in open
    <3>1. [Idle EXCEPT !.at = "taking", !.row = chat.id, !.turn = rows[chat.id], !.allow = allow,
                       !.waits = "decide"].at = "taking"
      BY IdleFields DEF Thread
    <3> QED BY <1>1, <1>6, <2>1, <3>1 DEF AnswerPrompt
  <2>2. CASE chat.id \notin open
    <3>1. thread' = thread
      BY <1>6, <2>2 DEF AnswerPrompt
    <3> QED BY <1>0, <3>1, AnswersStay
  <2> QED BY <2>1, <2>2
<1> QED BY <1>2, <1>3, <1>4, <1>5, <1>6 DEF Incoming

\* A command runs only as the policy of its machine has it at that moment, and
\* under "ask" only on an answer to it that was not used yet: whatever the
\* order of requests, restarts and late arrivals, and for any number of them.
THEOREM CommandsKeepConsent == Spec => KeepsConsent
<1>1. Init => Promise!ConsentInit
  <2> SUFFICES ASSUME Init PROVE Promise!ConsentInit
    OBVIOUS
  <2>1. ASSUME NEW c \in Calls PROVE Usable(thread, late, c) = 0
    <3>1. ArmedIn(thread, c) = {} /\ OnItsWayIn(late, c) = {}
      BY IdleFields DEF Init, ArmedIn, OnItsWayIn
    <3> QED BY <3>1, FS_EmptySet DEF Usable
  <2>2. Permits = [c \in Calls |-> 0]
    BY <2>1, PermitsAre
  <2> QED BY <2>2 DEF Init, Promise!ConsentInit, Promise!Tiers, Tiers
<1>2. Inv /\ Inv' /\ [Next]_vars => [Promise!ConsentNext]_(Promise!consentVars)
  BY OthersConsent, WorkConsents, IncomingConsents DEF Next
<1> QED BY <1>1, <1>2, InvAlways, PTL DEF Spec, KeepsConsent, Promise!ConsentSpec

----------------------------------------------------------------------------
(* An answer is good for one run *)

\* The calls a turn still has to do.
Ahead(turn) == {turn.todo[i] : i \in DOMAIN turn.todo}

Live == {"calls", "resend", "ask"}

\* What may still get a call carried out: a thread that has it to do, an
\* approval nobody has answered that would go on to it, and a message that is
\* on its way to a machine.
Active(c) == {t \in Threads : thread[t].at \in Live /\ c \in Ahead(thread[t].turn)}
Shelved(c) == {id \in DOMAIN rows : answers[Front(rows[id])] = <<>> /\ c \in Ahead(rows[id])}
Sent(c) == {m \in late : m.call = c}

\* Of the threads A, the approvals R and the messages L there is one in all.
AtMostOne(A, R, L) ==
    /\ \A x, y \in A : x = y
    /\ \A x, y \in R : x = y
    /\ \A x, y \in L : x = y
    /\ A = {} \/ R = {}
    /\ A = {} \/ L = {}
    /\ R = {} \/ L = {}

None(A, R, L) == A = {} /\ R = {} /\ L = {}

\* A call that ran n times has one carrier at most, none once it ran, was
\* denied, or has not been proposed yet (U).
Single(c, A, R, L, n, given, U) ==
    /\ AtMostOne(A, R, L) /\ n <= 1
    /\ n = 1 \/ given = <<FALSE>> => None(A, R, L)
    /\ given = <<FALSE>> => n = 0
    /\ c \in U => None(A, R, L) /\ n = 0 /\ given = <<>>

Once(c) == Single(c, Active(c), Shelved(c), Sent(c), runs[c], answers[c], Unproposed)

\* No list proposes a call twice.
ListsOnce == \A s \in proposed : \A i, j \in DOMAIN s : s[i] = s[j] => i = j

AnsweredOnce == \A c \in Calls : Len(answers[c]) <= 1

OnceInv == ListsOnce /\ (AnsweredOnce => \A c \in Calls : Once(c))

\* Nothing more is to do.
LEMMA Kept ==
    ASSUME NEW A, NEW R, NEW L, NEW n, NEW given, NEW c, NEW U, Single(c, A, R, L, n, given, U),
           NEW A2 \in SUBSET A, NEW R2 \in SUBSET R, NEW L2 \in SUBSET L,
           NEW U2 \in SUBSET U
    PROVE  Single(c, A2, R2, L2, n, given, U2)
BY DEF Single, AtMostOne, None

\* One thing to do becomes another.
LEMMA HandedOn ==
    ASSUME NEW A, NEW R, NEW L, NEW n, NEW given, NEW c, NEW U, Single(c, A, R, L, n, given, U),
           ~None(A, R, L), NEW A2, NEW R2, NEW L2, AtMostOne(A2, R2, L2), NEW given2, given2 # <<FALSE>>,
           NEW U2 \in SUBSET U
    PROVE  Single(c, A2, R2, L2, n, given2, U2)
BY Zenon DEF Single

\* It is done, or denied.
LEMMA Settled ==
    ASSUME NEW A, NEW R, NEW L, NEW n \in Nat, NEW given, NEW c, NEW U, Single(c, A, R, L, n, given, U),
           ~None(A, R, L),
           NEW A2, NEW R2, NEW L2, None(A2, R2, L2), NEW U2 \in SUBSET U
    PROVE  /\ Single(c, A2, R2, L2, n + 1, given, U2)
           /\ \A given2 : Single(c, A2, R2, L2, n, given2, U2)
<1>1. c \notin U /\ ~(n = 1) /\ given # <<FALSE>> /\ n <= 1
  BY Zenon DEF Single
<1>2. n = 0
  BY <1>1
<1>3. AtMostOne(A2, R2, L2)
  BY DEF AtMostOne, None
<1>4. 1 <= 1 /\ 0 <= 1 /\ n + 1 = 1
  BY <1>2
<1> QED BY <1>1, <1>2, <1>3, <1>4, Zenon DEF Single

\* Something new is proposed.
LEMMA Proposed ==
    ASSUME NEW A, NEW R, NEW L, NEW n, NEW given, NEW c, NEW U, c \in U, Single(c, A, R, L, n, given, U),
           NEW A2, NEW R2, NEW L2, NEW x, A2 \subseteq {x}, R2 = {}, L2 = {}, NEW U2, c \notin U2
    PROVE  Single(c, A2, R2, L2, n, given, U2)
<1>1. n = 0 /\ given = <<>>
  BY DEF Single
<1>2. AtMostOne(A2, R2, L2)
  BY DEF AtMostOne
<1>3. <<>> # <<FALSE>>
  OBVIOUS
<1> QED BY <1>1, <1>2, <1>3 DEF Single

\* What is left to do of a turn whose front call is answered.
LEMMA AheadOfAnswered ==
    ASSUME ListsOnce, proposed \subseteq Seq(Calls), NEW turn, Paused(turn, proposed)
    PROVE  /\ Ahead(Answered(turn)) \subseteq Ahead(turn) \ {Front(turn)}
           /\ Front(turn) \in Ahead(turn)
           /\ Ahead(turn) \subseteq Calls
<1> DEFINE q == turn.todo
           s == turn.out
<1>1. turn \in Turn /\ q \in Seq(Calls) /\ s \in Seq(Calls) /\ q # <<>> /\ s \o q \in proposed
  BY DEF Paused, Sound, Turn
<1>2. Answered(turn).todo = Tail(q)
  BY <1>1 DEF Answered, Turn
<1>3. Front(turn) = q[1] /\ Len(q) \in Nat /\ Len(q) >= 1 /\ DOMAIN q = 1 .. Len(q)
  BY <1>1 DEF Front
<1>4. Tail(q) \in Seq(Calls) /\ Len(Tail(q)) = Len(q) - 1 /\ (\A i \in 1 .. Len(Tail(q)) : Tail(q)[i] = q[i + 1])
  BY <1>1, HeadTailProperties
<1>5. ASSUME NEW i \in 1 .. Len(q), NEW j \in 1 .. Len(q), q[i] = q[j] PROVE i = j
  <2> DEFINE z == s \o q
  <2>1. /\ Len(s) \in Nat /\ DOMAIN z = 1 .. Len(s) + Len(q)
        /\ \A k \in 1 .. Len(s) + Len(q) : z[k] = IF k <= Len(s) THEN s[k] ELSE q[k - Len(s)]
    BY <1>1, ConcatProperties, LenProperties
  <2>2. \A a, b \in DOMAIN z : z[a] = z[b] => a = b
    BY <1>1 DEF ListsOnce
  <2> HIDE DEF z
  <2>3. ASSUME NEW k \in 1 .. Len(q) PROVE Len(s) + k \in DOMAIN z /\ z[Len(s) + k] = q[k]
    <3> HIDE DEF s, q
    <3>1. PICK n \in 1 .. Len(s) + Len(q) : n = Len(s) + k
      BY <1>3, <2>1
    <3>2. z[n] = IF n <= Len(s) THEN s[n] ELSE q[n - Len(s)]
      BY <2>1
    <3>3. ~(n <= Len(s)) /\ n - Len(s) = k
      BY <2>1, <3>1
    <3>4. z[n] = q[k]
      BY <3>2, <3>3
    <3> QED BY <2>1, <3>1, <3>4
  <2>4. Len(s) + i = Len(s) + j
    BY <1>5, <2>2, <2>3
  <2> QED BY <1>3, <2>1, <2>4
<1>6. ASSUME NEW c \in Ahead(Answered(turn)) PROVE c \in Ahead(turn) /\ c # Front(turn)
  <2>1. PICK i \in DOMAIN Tail(q) : c = Tail(q)[i]
    BY <1>2 DEF Ahead
  <2>2. i \in 1 .. Len(Tail(q)) /\ c = q[i + 1] /\ i + 1 \in 1 .. Len(q) /\ i + 1 # 1
    BY <1>3, <1>4, <2>1
  <2>3. q[i + 1] # q[1]
    BY <1>3, <1>5, <2>2
  <2> QED BY <1>3, <2>2, <2>3 DEF Ahead
<1>7. Front(turn) \in Ahead(turn) /\ Ahead(turn) \subseteq Calls
  BY <1>1, <1>3 DEF Ahead
<1> QED BY <1>6, <1>7

\* One thread turns to something else: what the others have to do stays.
LEMMA ActiveAfter ==
    ASSUME Inv, NEW t \in Threads, NEW new, thread' = [thread EXCEPT ![t] = new], NEW c
    PROVE  Active(c)' = IF new.at \in Live /\ c \in Ahead(new.turn) THEN Active(c) \union {t} ELSE Active(c) \ {t}
<1>1. OnlyTurns(thread, thread', t) /\ thread'[t] = new
  BY TurnsTo
<1>2. \A u \in Threads : u \in Active(c)' <=> thread'[u].at \in Live /\ c \in Ahead(thread'[u].turn)
  BY DEF Active, Live, Ahead
<1>3. \A u \in Threads : u \in Active(c) <=> thread[u].at \in Live /\ c \in Ahead(thread[u].turn)
  BY DEF Active, Live
<1>4. Active(c) \subseteq Threads /\ Active(c)' \subseteq Threads
  BY DEF Active
<1> HIDE DEF Active
<1> QED BY <1>1, <1>2, <1>3, <1>4 DEF OnlyTurns

LEMMA FreshAfter ==
    ASSUME proposed \subseteq proposed'
    PROVE  Unproposed' \subseteq Unproposed
BY DEF Unproposed

\* A step that answers nothing and gives nothing to do.
LEMMA NothingNew ==
    ASSUME OnceInv, UNCHANGED <<rows, answers, runs>>, ListsOnce', proposed \subseteq proposed',
           late' \subseteq late, \A c \in Calls : Active(c)' \subseteq Active(c)
    PROVE  OnceInv'
<1>1. AnsweredOnce' => AnsweredOnce
  BY DEF AnsweredOnce
<1>2. ASSUME AnsweredOnce, NEW c \in Calls PROVE Once(c)'
  <2>1. Once(c)
    BY <1>2 DEF OnceInv
  <2>2. Shelved(c)' = Shelved(c) /\ Sent(c)' \subseteq Sent(c) /\ runs'[c] = runs[c] /\ answers'[c] = answers[c]
    BY DEF Shelved, Sent
  <2>3. Active(c)' \subseteq Active(c) /\ Unproposed' \subseteq Unproposed
    BY FreshAfter
  <2>4. Single(c, Active(c)', Shelved(c)', Sent(c)', runs[c], answers[c], Unproposed')
    BY <2>1, <2>2, <2>3, Kept DEF Once
  <2> QED BY <2>2, <2>4 DEF Once
<1> QED BY <1>1, <1>2 DEF OnceInv

\* A thread leaves its turn or goes on to one that does nothing.
LEMMA LeavesTurn ==
    ASSUME Inv, OnceInv, UNCHANGED <<rows, answers, runs>>, ListsOnce', proposed \subseteq proposed',
           late' = late, NEW t \in Threads, NEW new, thread' = [thread EXCEPT ![t] = new], new.at \notin Live
    PROVE  OnceInv'
<1>1. \A c \in Calls : Active(c)' \subseteq Active(c)
  BY ActiveAfter
<1> QED BY <1>1, NothingNew

LEMMA SameLists == ASSUME OnceInv, proposed' = proposed PROVE ListsOnce'
BY DEF OnceInv, ListsOnce

\* One answer more.
LEMMA OneMore ==
    ASSUME NEW s \in Seq(BOOLEAN), NEW b \in BOOLEAN
    PROVE  /\ Append(s, b) # <<>>
           /\ Len(s) <= 1 \/ ~(Len(Append(s, b)) <= 1)
           /\ Len(Append(s, b)) <= 1 => s = <<>> /\ Append(s, b) = <<b>>
           /\ Append(s, b) = <<FALSE>> => b = FALSE
<1>1. Len(s) \in Nat /\ Len(Append(s, b)) = Len(s) + 1 /\ Append(s, b)[Len(s) + 1] = b
  OBVIOUS
<1>2. Append(s, b) # <<>> /\ (Len(s) <= 1 \/ ~(Len(Append(s, b)) <= 1))
  BY <1>1
<1>3. ASSUME Len(Append(s, b)) <= 1 PROVE s = <<>> /\ Append(s, b) = <<b>>
  <2>1. s = <<>>
    BY <1>1, <1>3, EmptySeq
  <2> QED BY <2>1
<1>4. ASSUME Append(s, b) = <<FALSE>> PROVE b = FALSE
  <2>1. Len(s) + 1 = 1 /\ <<FALSE>>[1] = FALSE
    BY <1>1, <1>4
  <2> QED BY <1>1, <1>4, <2>1
<1> QED BY <1>2, <1>3, <1>4

\* A paused turn is decided: its thread goes on with what it has ahead, and no
\* approval of the call in front is open to an answer any more.
LEMMA Resumed ==
    ASSUME Inv, OnceInv, UNCHANGED <<rows, late, runs, proposed>>, NEW t \in Threads, thread[t].at \notin Live,
           NEW id \in DOMAIN rows, NEW allow \in BOOLEAN, NEW configs \in SUBSET Hosts, NEW f \in Thread,
           NEW turn, Paused(turn, proposed), turn.todo = rows[id].todo,
           thread' = [thread EXCEPT ![t] = Decided(f, turn, allow, configs)],
           Accept(Front(rows[id]), allow)
    PROVE  OnceInv'
<1> DEFINE d == Front(rows[id])
           new == Decided(f, turn, allow, configs)
<1>0. Front(turn) = d /\ Ahead(turn) = Ahead(rows[id])
  BY DEF Front, Ahead
<1>1. /\ turn \in Turn /\ d \in Calls
      /\ proposed \subseteq Seq(Calls) /\ answers \in [Calls -> Seq(BOOLEAN)] /\ runs \in [Calls -> Nat]
  BY FrontIsCall DEF Inv, Rest, RowsPaused, Paused, Sound
<1>2. ListsOnce /\ ListsOnce'
  BY SameLists DEF OnceInv
<1>3. Ahead(Answered(turn)) \subseteq Ahead(turn) \ {d} /\ d \in Ahead(turn) /\ Ahead(turn) \subseteq Calls
  BY <1>0, <1>1, <1>2, AheadOfAnswered
<1>4. IF allow THEN Ahead(new.turn) = Ahead(turn) ELSE Ahead(new.turn) \subseteq Ahead(turn) \ {d}
  <2>1. CASE allow
    <3>1. [turn EXCEPT !.asked = FALSE] \in Turn /\ [turn EXCEPT !.asked = FALSE].todo = turn.todo
      BY <1>1 DEF Turn
    <3>2. new.turn = [turn EXCEPT !.asked = FALSE]
      BY <2>1, <3>1 DEF Decided, Thread
    <3> HIDE DEF new
    <3> QED BY <2>1, <3>1, <3>2 DEF Ahead
  <2>2. CASE ~allow
    <3>1. Answered(turn) \in Turn
      BY <1>1, AnsweredIsSound DEF Sound
    <3>2. new.turn = Answered(turn)
      BY <2>2, <3>1 DEF Decided, Thread
    <3> HIDE DEF new
    <3> QED BY <1>3, <2>2, <3>2
  <2> QED BY <2>1, <2>2
<1> HIDE DEF new
<1>5. thread' = [thread EXCEPT ![t] = new]
  BY DEF new
<1>6. /\ \A c \in Calls : answers'[c] = IF c = d THEN Append(answers[d], allow) ELSE answers[c]
      /\ \A c \in Calls : answers[c] \in Seq(BOOLEAN)
  BY <1>1 DEF Accept
<1> HIDE DEF d
<1>7. AnsweredOnce' => AnsweredOnce /\ answers[d] = <<>> /\ answers'[d] = <<allow>>
  <2> SUFFICES ASSUME AnsweredOnce' PROVE AnsweredOnce /\ answers[d] = <<>> /\ answers'[d] = <<allow>>
    OBVIOUS
  <2>1. answers[d] \in Seq(BOOLEAN) /\ answers'[d] = Append(answers[d], allow)
    BY <1>1, <1>6
  <2>2. \A c \in Calls : Len(answers'[c]) <= 1
    BY DEF AnsweredOnce
  <2>3. Len(Append(answers[d], allow)) <= 1
    BY <1>1, <2>1, <2>2
  <2>4. Len(answers[d]) <= 1 /\ answers[d] = <<>> /\ Append(answers[d], allow) = <<allow>>
    BY <2>1, <2>3, OneMore
  <2>5. ASSUME NEW c \in Calls PROVE Len(answers[c]) <= 1
    BY <1>6, <2>2, <2>4
  <2> QED BY <2>1, <2>4, <2>5 DEF AnsweredOnce
<1>8. ASSUME AnsweredOnce', NEW c \in Calls PROVE Once(c)'
  <2>1. Once(c)
    BY <1>7, <1>8 DEF OnceInv
  <2>2. Unproposed' \subseteq Unproposed /\ Sent(c)' = Sent(c) /\ runs'[c] = runs[c]
    BY FreshAfter DEF Sent
  <2>3. Shelved(c)' \subseteq Shelved(c) \ {id}
    <3>1. \A r \in DOMAIN rows : rows[r] \in Turn /\ Front(rows[r]) \in Calls
      BY FrontIsCall DEF Inv, RowsPaused, Paused, Sound
    <3>2. ASSUME NEW r \in DOMAIN rows, answers'[Front(rows[r])] = <<>> PROVE answers[Front(rows[r])] = <<>>
      <4>1. answers'[Front(rows[r])] = IF Front(rows[r]) = d THEN Append(answers[d], allow) ELSE answers[Front(rows[r])]
        BY <1>6, <3>1
      <4>2. Append(answers[d], allow) # <<>>
        BY <1>1, <1>6, OneMore
      <4> QED BY <3>2, <4>1, <4>2
    <3>3. answers'[Front(rows[id])] # <<>>
      <4>1. answers'[d] = Append(answers[d], allow) /\ Append(answers[d], allow) # <<>>
        BY <1>1, <1>6, OneMore
      <4> QED BY <4>1 DEF d
    <3> QED BY <3>2, <3>3 DEF Shelved
  <2>4. Active(c)' = IF new.at \in Live /\ c \in Ahead(new.turn) THEN Active(c) \union {t} ELSE Active(c) \ {t}
    BY <1>5, ActiveAfter
  <2>5. CASE c \notin Ahead(turn)
    <3>1. Active(c)' \subseteq Active(c) /\ c # d
      BY <1>3, <1>4, <2>4, <2>5
    <3>2. answers'[c] = answers[c]
      BY <1>6, <3>1
    <3> QED BY <2>1, <2>2, <2>3, <3>1, <3>2, Kept DEF Once
  <2>6. CASE c \in Ahead(turn)
    <3>1. id \in Shelved(c)
      BY <1>0, <1>7, <1>8, <2>6 DEF Shelved, d
    <3>2. Active(c) = {} /\ Sent(c) = {} /\ Shelved(c) = {id}
      BY <2>1, <3>1 DEF Once, Single, AtMostOne
    <3>3. Shelved(c)' = {} /\ Sent(c)' = {} /\ Active(c)' \subseteq {t}
      BY <2>2, <2>3, <2>4, <3>2
    <3>4. ASSUME answers'[c] # <<FALSE>> PROVE Once(c)'
      <4>1. Single(c, Active(c), Shelved(c), Sent(c), runs[c], answers[c], Unproposed)
        BY <2>1 DEF Once
      <4>2. AtMostOne(Active(c)', Shelved(c)', Sent(c)') /\ ~None(Active(c), Shelved(c), Sent(c))
        BY <3>1, <3>3 DEF AtMostOne, None
      <4>3. Single(c, Active(c)', Shelved(c)', Sent(c)', runs[c], answers'[c], Unproposed')
        BY <2>2, <3>4, <4>1, <4>2, HandedOn
      <4> QED BY <2>2, <4>3 DEF Once
    <3>5. ASSUME answers'[c] = <<FALSE>> PROVE Once(c)'
      <4>1. c = d
        <5>1. ~None(Active(c), Shelved(c), Sent(c))
          BY <3>1 DEF None
        <5>2. answers[c] # <<FALSE>>
          BY <2>1, <5>1 DEF Once, Single
        <5> QED BY <1>6, <3>5, <5>2
      <4>2. ~allow
        BY <1>1, <1>6, <3>5, <4>1, OneMore
      <4>3. Active(c)' = {}
        BY <1>4, <2>4, <3>2, <4>1, <4>2
      <4>4. None(Active(c)', Shelved(c)', Sent(c)') /\ ~None(Active(c), Shelved(c), Sent(c)) /\ runs[c] \in Nat
        BY <1>1, <3>1, <3>3, <4>3 DEF None
      <4> QED BY <2>1, <2>2, <4>4, Settled DEF Once
    <3> QED BY <3>4, <3>5
  <2> QED BY <2>5, <2>6
<1> QED BY <1>2, <1>7, <1>8 DEF OnceInv

\* The front call of a thread is dealt with: no thread has it to do.
LEMMA FrontDone ==
    ASSUME Inv, OnceInv, NEW t \in Threads, thread[t].at \in {"calls", "resend"}, UNCHANGED proposed,
           Go(t, GoesOn(Answered(thread[t].turn)), Answered(thread[t].turn)),
           NEW d, d = Front(thread[t].turn)
    PROVE  /\ d \in Calls /\ t \in Active(d) /\ t \notin Active(d)'
           /\ \A c \in Calls : Active(c)' \subseteq Active(c)
<1> DEFINE f == thread[t]
           new == [f EXCEPT !.at = GoesOn(Answered(f.turn)), !.turn = Answered(f.turn)]
<1>1. f \in Thread /\ Paused(f.turn, proposed) /\ d \in Calls /\ ListsOnce /\ proposed \subseteq Seq(Calls)
  BY InFront DEF Inv, OnceInv, Rest
<1>2. /\ Ahead(Answered(f.turn)) \subseteq Ahead(f.turn) \ {d} /\ d \in Ahead(f.turn)
  BY <1>1, AheadOfAnswered
<1>3. new.turn = Answered(f.turn) /\ thread' = [thread EXCEPT ![t] = new]
  BY <1>1 DEF Thread, Go
<1> HIDE DEF new
<1>4. \A c \in Calls : c \in Ahead(f.turn) => t \in Active(c)
  BY DEF Active, Live
<1>5. \A c : Active(c)' = IF new.at \in Live /\ c \in Ahead(new.turn) THEN Active(c) \union {t} ELSE Active(c) \ {t}
  BY <1>3, ActiveAfter
<1> QED BY <1>1, <1>2, <1>3, <1>4, <1>5

LEMMA DispatchOnce == ASSUME Inv, OnceInv, NEW t \in Threads, Dispatch(t) PROVE OnceInv'
<1> USE DEF rowVars
<1> DEFINE f == thread[t]
           turn == Answered(f.turn)
<1>0. PICK d : d = Front(f.turn)
  OBVIOUS
<1>1. /\ UNCHANGED <<rows, answers, proposed>> /\ ListsOnce' /\ proposed \subseteq proposed'
      /\ f.at \in {"calls", "resend"} /\ runs \in [Calls -> Nat] /\ ListsOnce
      /\ Paused(f.turn, proposed) /\ f \in Thread /\ d \in Calls
  BY <1>0, SameLists, InFront DEF Dispatch, Inv, OnceInv, Rest
<1>2. Unproposed' = Unproposed /\ (AnsweredOnce' <=> AnsweredOnce) /\ \A c \in Calls : Shelved(c)' = Shelved(c)
  BY <1>1 DEF Unproposed, AnsweredOnce, Shelved
<1>3. SUFFICES ASSUME ~(/\ runs' = runs /\ late' \subseteq late /\ \A c \in Calls : Active(c)' \subseteq Active(c))
               PROVE  OnceInv'
  BY <1>1, NothingNew
<1>4. ~Asks(t)
  <2> SUFFICES ASSUME Asks(t) PROVE FALSE
    OBVIOUS
  <2>1. PICK h : Go(t, "ask", Asked(f.turn, h))
    BY DEF Asks
  <2> DEFINE new == [f EXCEPT !.at = "ask", !.turn = Asked(f.turn, h)]
  <2>2. new.turn = Asked(f.turn, h) /\ thread' = [thread EXCEPT ![t] = new]
    BY <1>1, <2>1 DEF Thread, Go
  <2>3. Asked(f.turn, h).todo = f.turn.todo
    BY <1>1 DEF Asked, Paused, Sound, Turn
  <2>4. Ahead(new.turn) = Ahead(f.turn)
    BY <2>2, <2>3 DEF Ahead
  <2> HIDE DEF new
  <2>5. ASSUME NEW c \in Calls PROVE Active(c)' \subseteq Active(c)
    <3>1. Active(c)' = IF new.at \in Live /\ c \in Ahead(new.turn) THEN Active(c) \union {t} ELSE Active(c) \ {t}
      BY <2>2, ActiveAfter
    <3>2. c \in Ahead(f.turn) => t \in Active(c)
      BY <1>1 DEF Active, Live
    <3> QED BY <2>4, <3>1, <3>2
  <2>6. runs' = runs /\ late' = late
    BY DEF Asks
  <2> QED BY <1>3, <2>5, <2>6
<1>5. /\ t \in Active(d) /\ t \notin Active(d)'
      /\ \A c \in Calls : Active(c)' \subseteq Active(c)
  <2>1. Go(t, GoesOn(turn), turn)
    BY <1>4 DEF Dispatch, Ran, CameToNothing
  <2> HIDE DEF turn
  <2> QED BY <1>0, <1>1, <2>1, FrontDone DEF turn
<1>6. ASSUME AnsweredOnce
      PROVE  /\ Active(d)' = {} /\ Shelved(d) = {} /\ Sent(d) = {}
             /\ \A c \in Calls : Single(c, Active(c), Shelved(c), Sent(c), runs[c], answers[c], Unproposed)
  <2>1. \A c \in Calls : Single(c, Active(c), Shelved(c), Sent(c), runs[c], answers[c], Unproposed)
    BY <1>6 DEF OnceInv, Once
  <2>2. AtMostOne(Active(d), Shelved(d), Sent(d))
    BY <1>1, <2>1 DEF Single
  <2> QED BY <1>1, <1>5, <2>1, <2>2 DEF AtMostOne
<1>7. ASSUME Ran(t), AnsweredOnce, NEW c \in Calls PROVE Once(c)'
  <2>1. late' = late /\ runs' = [runs EXCEPT ![d] = @ + 1]
    BY <1>0, <1>7 DEF Ran, Carried
  <2>2. Sent(c)' = Sent(c)
    BY <2>1 DEF Sent
  <2>3. ASSUME c = d PROVE Once(c)'
    <3>1. None(Active(c)', Shelved(c)', Sent(c)') /\ ~None(Active(c), Shelved(c), Sent(c))
      BY <1>2, <1>5, <1>6, <1>7, <2>2, <2>3 DEF None
    <3>2. runs'[c] = runs[c] + 1 /\ runs[c] \in Nat
      BY <1>1, <2>1, <2>3
    <3>3. Single(c, Active(c)', Shelved(c)', Sent(c)', runs[c] + 1, answers[c], Unproposed')
      BY <1>2, <1>6, <1>7, <3>1, <3>2, Settled
    <3> QED BY <1>1, <3>2, <3>3 DEF Once
  <2>4. ASSUME c # d PROVE Once(c)'
    <3>1. runs'[c] = runs[c]
      BY <1>1, <2>1, <2>4
    <3> QED BY <1>1, <1>2, <1>5, <1>6, <1>7, <2>2, <3>1, Kept DEF Once
  <2> QED BY <2>3, <2>4
<1>8. ASSUME CameToNothing(t), AnsweredOnce, NEW c \in Calls PROVE Once(c)'
  <2>1. PICK h : late' = late \union {[call |-> d, host |-> h, approved |-> f.at = "resend"]}
    BY <1>0, <1>3, <1>5, <1>8 DEF CameToNothing
  <2> DEFINE m == [call |-> d, host |-> h, approved |-> f.at = "resend"]
  <2>2. m.call = d
    OBVIOUS
  <2>3. late' = late \union {m} /\ runs' = runs
    BY <1>8, <2>1 DEF CameToNothing
  <2> HIDE DEF m
  <2>4. ASSUME c = d PROVE Once(c)'
    <3>1. Sent(c)' \subseteq {m}
      BY <1>6, <1>8, <2>3, <2>4 DEF Sent
    <3>2. AtMostOne(Active(c)', Shelved(c)', Sent(c)') /\ ~None(Active(c), Shelved(c), Sent(c))
      BY <1>2, <1>5, <1>6, <1>8, <2>4, <3>1 DEF AtMostOne, None
    <3>3. answers[c] # <<FALSE>>
      BY <1>6, <1>8, <3>2 DEF Single
    <3>4. Single(c, Active(c)', Shelved(c)', Sent(c)', runs[c], answers[c], Unproposed')
      BY <1>2, <1>6, <1>8, <3>2, <3>3, HandedOn
    <3> QED BY <1>1, <2>3, <3>4 DEF Once
  <2>5. ASSUME c # d PROVE Once(c)'
    <3>1. Sent(c)' = Sent(c)
      BY <2>2, <2>3, <2>5 DEF Sent
    <3> QED BY <1>1, <1>2, <1>5, <1>6, <1>8, <2>3, <3>1, Kept DEF Once
  <2> QED BY <2>4, <2>5
<1> QED BY <1>1, <1>2, <1>4, <1>7, <1>8 DEF Dispatch, OnceInv

LEMMA CreateRowOnce == ASSUME Inv, OnceInv, NEW t \in Threads, CreateRow(t) PROVE OnceInv'
<1> USE DEF daemonVars
<1>1. PICK turn : turn = thread[t].turn
  OBVIOUS
<1>2. /\ thread[t] \in Thread /\ turn \in Turn /\ rows \in Seq(Turn) /\ rows' = Append(rows, turn)
      /\ thread[t].at \in Live
  BY <1>1, InFront DEF CreateRow, Live, Inv, Rest, Paused, Sound
<1>3. /\ DOMAIN rows' = DOMAIN rows \union {Len(rows) + 1} /\ rows'[Len(rows) + 1] = turn
      /\ \A id \in DOMAIN rows : rows'[id] = rows[id] /\ id # Len(rows) + 1
  BY <1>2
<1>4. PICK new : thread' = [thread EXCEPT ![t] = new] /\ new.at \notin Live
  <2> DEFINE new == [thread[t] EXCEPT !.at = "reply", !.row = Len(rows')]
  <2>1. new.at = "reply"
    BY <1>2 DEF Thread
  <2> QED BY <2>1 DEF CreateRow, Live
<1>5. \A c : Active(c)' = Active(c) \ {t}
  BY <1>4, ActiveAfter
<1>6. UNCHANGED <<answers, late, runs, proposed>> /\ ListsOnce' /\ Unproposed' = Unproposed
  BY SameLists DEF CreateRow, Unproposed
<1>7. ASSUME AnsweredOnce, NEW c \in Calls PROVE Once(c)'
  <2>1. Single(c, Active(c), Shelved(c), Sent(c), runs[c], answers[c], Unproposed)
    BY <1>7 DEF OnceInv, Once
  <2>2. Sent(c)' = Sent(c)
    BY <1>6 DEF Sent
  <2>3. Shelved(c)' \subseteq IF c \in Ahead(turn) THEN Shelved(c) \union {Len(rows) + 1} ELSE Shelved(c)
    BY <1>3, <1>6 DEF Shelved
  <2>4. CASE c \in Ahead(turn)
    <3>1. t \in Active(c)
      BY <1>1, <1>2, <2>4 DEF Active
    <3>2. AtMostOne(Active(c), Shelved(c), Sent(c)) /\ answers[c] # <<FALSE>> /\ ~None(Active(c), Shelved(c), Sent(c))
      BY <2>1, <3>1 DEF Single, None
    <3>3. Active(c)' = {} /\ Shelved(c)' \subseteq {Len(rows) + 1} /\ Sent(c)' = {}
      BY <1>5, <2>2, <2>3, <2>4, <3>1, <3>2 DEF AtMostOne
    <3>4. AtMostOne(Active(c)', Shelved(c)', Sent(c)')
      BY <3>3 DEF AtMostOne
    <3>5. Single(c, Active(c)', Shelved(c)', Sent(c)', runs[c], answers[c], Unproposed')
      BY <1>6, <2>1, <3>2, <3>4, HandedOn
    <3> QED BY <1>6, <3>5 DEF Once
  <2>5. CASE c \notin Ahead(turn)
    BY <1>5, <1>6, <2>1, <2>2, <2>3, <2>5, Kept DEF Once
  <2> QED BY <2>4, <2>5
<1> QED BY <1>6, <1>7 DEF OnceInv, AnsweredOnce

\* New calls are proposed, to one thread.
LEMMA ProposedOnce ==
    ASSUME Inv, OnceInv, UNCHANGED <<rows, answers, runs, late>>,
           NEW t \in Threads, thread[t].at \notin Live,
           NEW new, thread' = [thread EXCEPT ![t] = new],
           NEW calls \in Seq(Calls), new.turn.todo = calls, proposed' = proposed \union {calls},
           \A i \in DOMAIN calls : calls[i] \in Unproposed,
           \A i, j \in DOMAIN calls : calls[i] = calls[j] => i = j
    PROVE  OnceInv'
<1>1. ListsOnce' /\ (AnsweredOnce' => AnsweredOnce) /\ Unproposed' \subseteq Unproposed
  BY FreshAfter DEF OnceInv, ListsOnce, AnsweredOnce
<1>2. \A c : Active(c)' = IF new.at \in Live /\ c \in Ahead(new.turn) THEN Active(c) \union {t} ELSE Active(c) \ {t}
  BY ActiveAfter
<1>3. ASSUME AnsweredOnce, NEW c \in Calls PROVE Once(c)'
  <2>1. Single(c, Active(c), Shelved(c), Sent(c), runs[c], answers[c], Unproposed)
    BY <1>3 DEF OnceInv, Once
  <2>2. Sent(c)' = Sent(c) /\ Shelved(c)' = Shelved(c)
    BY DEF Sent, Shelved
  <2>3. CASE c \in Ahead(new.turn)
    <3>1. c \in Unproposed /\ c \notin Unproposed'
      BY <2>3 DEF Ahead, Unproposed
    <3>2. None(Active(c), Shelved(c), Sent(c))
      BY <2>1, <3>1 DEF Single
    <3>3. Active(c)' \subseteq {t} /\ Shelved(c)' = {} /\ Sent(c)' = {}
      BY <1>2, <2>2, <3>2 DEF None
    <3>4. Single(c, Active(c)', Shelved(c)', Sent(c)', runs[c], answers[c], Unproposed')
      BY <2>1, <3>1, <3>3, Proposed
    <3> QED BY <3>4 DEF Once
  <2>4. CASE c \notin Ahead(new.turn)
    BY <1>1, <1>2, <2>1, <2>2, <2>4, Kept DEF Once
  <2> QED BY <2>3, <2>4
<1> QED BY <1>1, <1>3 DEF OnceInv

LEMMA ArriveOnce == ASSUME Inv, OnceInv, ArriveLate PROVE OnceInv'
<1> USE DEF rowVars
<1>1. PICK m \in late : late' = late \ {m} /\ (runs' = Carried(m.call) \/ UNCHANGED runs)
  BY DEF ArriveLate
<1>2. /\ UNCHANGED <<rows, answers, proposed, thread>> /\ ListsOnce' /\ proposed \subseteq proposed'
      /\ runs \in [Calls -> Nat] /\ m.call \in Calls
  BY SameLists DEF ArriveLate, Inv, Rest
<1>3. /\ Unproposed' = Unproposed /\ (AnsweredOnce' <=> AnsweredOnce)
      /\ \A c \in Calls : Shelved(c)' = Shelved(c) /\ Active(c)' = Active(c)
  BY <1>2 DEF Unproposed, AnsweredOnce, Shelved, Active
<1>4. CASE UNCHANGED runs
  BY <1>1, <1>2, <1>3, <1>4, NothingNew
<1>5. CASE runs' = Carried(m.call)
  <2>1. ASSUME AnsweredOnce, NEW c \in Calls PROVE Once(c)'
    <3>1. Single(c, Active(c), Shelved(c), Sent(c), runs[c], answers[c], Unproposed)
      BY <2>1 DEF OnceInv, Once
    <3>2. CASE c = m.call
      <4>1. m \in Sent(c) /\ Sent(c)' = Sent(c) \ {m} /\ runs'[c] = runs[c] + 1 /\ runs[c] \in Nat
        BY <1>1, <1>2, <1>5, <3>2 DEF Sent, Carried
      <4>2. AtMostOne(Active(c), Shelved(c), Sent(c))
        BY <3>1 DEF Single
      <4>3. None(Active(c)', Shelved(c)', Sent(c)') /\ ~None(Active(c), Shelved(c), Sent(c))
        BY <1>3, <4>1, <4>2 DEF None, AtMostOne
      <4>4. Single(c, Active(c)', Shelved(c)', Sent(c)', runs[c] + 1, answers[c], Unproposed')
        BY <1>3, <3>1, <4>1, <4>3, Settled
      <4> QED BY <1>2, <4>1, <4>4 DEF Once
    <3>3. CASE c # m.call
      <4>1. Sent(c)' = Sent(c) /\ runs'[c] = runs[c]
        BY <1>1, <1>2, <1>5, <3>3 DEF Sent, Carried
      <4> QED BY <1>2, <1>3, <3>1, <4>1, Kept DEF Once
    <3> QED BY <3>2, <3>3
  <2> QED BY <1>2, <1>3, <2>1 DEF OnceInv
<1> QED BY <1>1, <1>4, <1>5

LEMMA OthersOnce ==
    ASSUME Inv, OnceInv, ChangePolicy \/ Launch \/ Quit \/ Restart \/ UNCHANGED vars
    PROVE  OnceInv'
<1>1. UNCHANGED <<rows, answers, runs, late, proposed>> /\ ListsOnce'
  BY SameLists DEF ChangePolicy, Launch, Quit, Restart, vars, daemonVars, rowVars
<1>2. ASSUME NEW t \in Threads, thread'[t].at \in Live PROVE thread'[t].at = thread[t].at /\ thread'[t].turn = thread[t].turn
  <2>1. CASE ChangePolicy \/ Launch \/ UNCHANGED vars
    BY <2>1 DEF ChangePolicy, Launch, vars
  <2>2. CASE Quit
    <3>1. thread'[t] = [thread[t] EXCEPT !.waits = "no"] /\ thread[t] \in Thread
      BY <2>2 DEF Quit, Inv, ThreadsFine
    <3> QED BY <3>1 DEF Thread
  <2>3. CASE Restart
    BY <1>2, <2>3, IdleFields DEF Restart, Live
  <2> QED BY <2>1, <2>2, <2>3
<1>3. \A c \in Calls : Active(c)' \subseteq Active(c)
  BY <1>2 DEF Active, Ahead
<1> QED BY <1>1, <1>3, NothingNew

LEMMA WorkOnce == ASSUME Inv, OnceInv, NEW t \in Threads, Work(t) PROVE OnceInv'
<1> USE DEF daemonVars, rowVars
<1> DEFINE f == thread[t]
<1>1. CASE TakeRow(t)
  <2>1. /\ f \in Thread /\ f.at = "taking" /\ f.allow \in BOOLEAN
        /\ f.row \in DOMAIN rows /\ f.turn = rows[f.row]
    BY <1>1 DEF TakeRow, Inv, ThreadsFine, Fine, Thread
  <2>2. PICK id \in DOMAIN rows, allow \in BOOLEAN, g \in Thread :
            id = f.row /\ allow = f.allow /\ g = f
    BY <2>1
  <2>3. PICK configs \in SUBSET Hosts : thread' = [thread EXCEPT ![t] = Decided(g, rows[id], allow, configs)]
    BY <1>1, <2>1, <2>2 DEF TakeRow
  <2>4. Accept(Front(rows[id]), allow) /\ UNCHANGED <<rows, late, runs, proposed>>
    BY <1>1, <2>1, <2>2 DEF TakeRow
  <2>5. f.at \notin Live /\ Paused(rows[id], proposed)
    BY <2>1 DEF Live, Inv, RowsPaused
  <2> QED BY <2>3, <2>4, <2>5, Resumed
<1>2. CASE CallModel(t)
  <2>1. f \in Thread /\ UNCHANGED <<rows, answers, runs, late>> /\ f.at \notin Live
    BY <1>2 DEF CallModel, Inv, ThreadsFine, Live
  <2>2. ASSUME NEW calls \in Proposals, Go(t, "calls", NextHop(f.turn, calls)), proposed' = proposed \union {calls}
        PROVE  OnceInv'
    <3> DEFINE new == [f EXCEPT !.at = "calls", !.turn = NextHop(f.turn, calls)]
    <3>1. thread' = [thread EXCEPT ![t] = new] /\ new.turn = NextHop(f.turn, calls)
      BY <2>1, <2>2 DEF Go, Thread
    <3>2. f.turn \in Turn
      BY <2>1 DEF Thread
    <3>3. NextHop(f.turn, calls).todo = calls
      BY <3>2 DEF NextHop, Turn
    <3>4. PICK n \in 1 .. Cardinality(Unproposed) : calls \in [1 .. n -> Unproposed]
      BY DEF Proposals
    <3>5. /\ calls \in Seq(Calls)
          /\ \A i \in DOMAIN calls : calls[i] \in Unproposed
          /\ \A i, j \in DOMAIN calls : calls[i] = calls[j] => i = j
      BY <3>4, ProposalsAreLists DEF Proposals
    <3> HIDE DEF new
    <3> QED BY <2>1, <2>2, <3>1, <3>3, <3>5, ProposedOnce
  <2>3. ASSUME Go(t, "reply", NextHop(f.turn, <<>>)), UNCHANGED proposed PROVE OnceInv'
    <3> DEFINE new == [f EXCEPT !.at = "reply", !.turn = NextHop(f.turn, <<>>)]
    <3>1. thread' = [thread EXCEPT ![t] = new] /\ new.at \notin Live
      BY <2>1, <2>3 DEF Go, Thread, Live
    <3> HIDE DEF new
    <3> QED BY <2>1, <2>3, <3>1, SameLists, LeavesTurn
  <2> QED BY <1>2, <2>2, <2>3 DEF CallModel
<1>3. CASE ModelFails(t) \/ Reply(t)
  <2>1. UNCHANGED <<rows, answers, runs, late, proposed>> /\ thread' = [thread EXCEPT ![t] = Idle]
    BY <1>3 DEF ModelFails, Reply, ChatHears
  <2>2. Idle.at \notin Live
    BY IdleFields DEF Live
  <2> QED BY <2>1, <2>2, SameLists, LeavesTurn
<1> QED BY <1>1, <1>2, <1>3, DispatchOnce, CreateRowOnce DEF Work

LEMMA IncomingOnce == ASSUME Inv, OnceInv, NEW t \in Threads, Incoming(t) PROVE OnceInv'
<1> USE DEF daemonVars, rowVars
<1>0. UNCHANGED <<rows, runs, late>>
  BY DEF Incoming, Say, CallTool, StepAgain, Decide, AnswerPrompt
<1>1. ASSUME NEW new, Begin(t, new), new.at \notin Live, UNCHANGED <<answers, proposed>> PROVE OnceInv'
  <2>1. thread' = [thread EXCEPT ![t] = new]
    BY <1>1 DEF Begin
  <2> QED BY <1>0, <1>1, <2>1, SameLists, LeavesTurn
<1>2. CASE Say(t)
  <2>1. PICK configs, mock :
            Begin(t, [Idle EXCEPT !.at = "model", !.turn = NewTurn("chat", mock, <<>>), !.configs = configs,
                                  !.waits = "step"])
    BY <1>2 DEF Say
  <2> DEFINE new == [Idle EXCEPT !.at = "model", !.turn = NewTurn("chat", mock, <<>>), !.configs = configs,
                                 !.waits = "step"]
  <2>2. new.at \notin Live
    BY IdleFields DEF Thread, Live
  <2>3. UNCHANGED <<answers, proposed>>
    BY <1>2 DEF Say
  <2> HIDE DEF new
  <2> QED BY <1>1, <2>1, <2>2, <2>3 DEF new
<1>3. ASSUME NEW c \in Calls, CallTool(t, c) PROVE OnceInv'
  <2>1. PICK configs, mock, origin :
            Begin(t, [Idle EXCEPT !.at = "calls", !.turn = NewTurn(origin, mock, <<c>>), !.configs = configs])
    BY <1>3 DEF CallTool
  <2> DEFINE new == [Idle EXCEPT !.at = "calls", !.turn = NewTurn(origin, mock, <<c>>), !.configs = configs]
  <2>2. new.turn.todo = <<c>>
    BY IdleFields DEF Thread, NewTurn
  <2>3. thread' = [thread EXCEPT ![t] = new] /\ thread[t].at \notin Live
    BY <2>1 DEF Begin, Live
  <2>4. UNCHANGED answers /\ proposed' = proposed \union {<<c>>} /\ c \in Unproposed
    BY <1>3 DEF CallTool
  <2>5. PICK calls \in Seq(Calls) : calls = <<c>>
    <3>1. <<c>> \in Seq(Calls)
      OBVIOUS
    <3> QED BY <3>1, Zenon
  <2>6. (\A i \in DOMAIN calls : calls[i] \in Unproposed) /\ (\A i, j \in DOMAIN calls : calls[i] = calls[j] => i = j)
    BY <2>4, <2>5
  <2> HIDE DEF new
  <2> QED BY <1>0, <2>2, <2>3, <2>4, <2>5, <2>6, ProposedOnce
<1>4. ASSUME NEW allow \in BOOLEAN, NEW id \in told, StepAgain(t, id, allow) PROVE OnceInv'
  <2>1. PICK configs \in SUBSET Hosts, mock \in Mocks \union {"no"} :
            Begin(t, Decided(Idle, OnMock(rows[id], mock), allow, configs))
    BY <1>4 DEF StepAgain
  <2>2. /\ id \in DOMAIN rows
        /\ Paused(OnMock(rows[id], mock), proposed)
        /\ OnMock(rows[id], mock).todo = rows[id].todo
    BY StaysPaused DEF Inv, Rest, RowsPaused
  <2>3. /\ thread[t].at \notin Live
        /\ thread' = [thread EXCEPT ![t] = Decided(Idle, OnMock(rows[id], mock), allow, configs)]
    BY <2>1 DEF Begin, Live
  <2>4. Accept(Front(rows[id]), allow) /\ UNCHANGED proposed
    BY <1>4 DEF StepAgain
  <2> QED BY <1>0, <2>2, <2>3, <2>4, IdleFields, Resumed
<1>5. ASSUME NEW allow, NEW id, Decide(t, id, allow) PROVE OnceInv'
  <2> DEFINE new == [Idle EXCEPT !.at = "taking", !.row = id, !.turn = rows[id], !.allow = allow]
  <2>1. new.at \notin Live
    BY IdleFields DEF Thread, Live
  <2>2. Begin(t, new) /\ UNCHANGED <<answers, proposed>>
    BY <1>5 DEF Decide
  <2> HIDE DEF new
  <2> QED BY <1>1, <2>1, <2>2
<1>6. ASSUME NEW allow, AnswerPrompt(t, allow) PROVE OnceInv'
  <2>1. UNCHANGED <<answers, proposed>>
    BY <1>6 DEF AnswerPrompt
  <2>2. CASE chat.id \in open
    <3> DEFINE new == [Idle EXCEPT !.at = "taking", !.row = chat.id, !.turn = rows[chat.id], !.allow = allow,
                                   !.waits = "decide"]
    <3>1. new.at \notin Live
      BY IdleFields DEF Thread, Live
    <3>2. Begin(t, new)
      BY <1>6, <2>2 DEF AnswerPrompt
    <3> HIDE DEF new
    <3> QED BY <1>1, <2>1, <3>1, <3>2
  <2>3. CASE chat.id \notin open
    <3>1. thread' = thread
      BY <1>6, <2>3 DEF AnswerPrompt
    <3>2. \A c \in Calls : Active(c)' = Active(c)
      BY <3>1 DEF Active
    <3> QED BY <1>0, <2>1, <3>2, SameLists, NothingNew
  <2> QED BY <2>2, <2>3
<1> QED BY <1>2, <1>3, <1>4, <1>5, <1>6 DEF Incoming

LEMMA InitOnce == Init => OnceInv
<1> SUFFICES ASSUME Init PROVE OnceInv
  OBVIOUS
<1>1. ListsOnce
  BY DEF Init, ListsOnce
<1>2. ASSUME NEW c \in Calls PROVE Once(c)
  <2>1. None(Active(c), Shelved(c), Sent(c))
    BY IdleFields DEF Init, None, Active, Live, Shelved, Sent
  <2>2. runs[c] = 0 /\ answers[c] = <<>> /\ <<>> # <<FALSE>>
    BY DEF Init
  <2>3. 0 <= 1 /\ ~(0 = 1)
    OBVIOUS
  <2>4. AtMostOne(Active(c), Shelved(c), Sent(c))
    BY <2>1 DEF None, AtMostOne
  <2> QED BY <2>1, <2>2, <2>3, <2>4 DEF Once, Single
<1> QED BY <1>1, <1>2 DEF OnceInv

\* While nobody's answer was given twice, a command runs once at most and a
\* denied one not at all, for any number of requests, copies of a paused turn,
\* late deliveries and restarts.
THEOREM AnswersRunOnce == Spec => []OneAnswerOneRun
<1>1. Inv /\ OnceInv /\ [Next]_vars => OnceInv'
  BY ArriveOnce, OthersOnce, WorkOnce, IncomingOnce DEF Next
<1>2. OnceInv => OneAnswerOneRun
  BY DEF OnceInv, AnsweredOnce, Once, Single, OneAnswerOneRun
<1> QED BY <1>1, <1>2, InitOnce, InvAlways, PTL DEF Spec
=============================================================================
