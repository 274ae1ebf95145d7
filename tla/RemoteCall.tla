----------------------------- MODULE RemoteCall -----------------------------
(***************************************************************************)
(* What the relay promises to whoever sends a request to                   *)
(* /agent/{key}/{path} (relay/internal/httpproxy): the request is carried  *)
(* out at most once, it is answered at most once, its answer is the        *)
(* agent's own answer to it (an error of the agent's attempt included),    *)
(* and only "agent not connected" and "bad request" replies mean that it   *)
(* was not carried out and never will be.  A timeout or a lost connection  *)
(* says nothing: the agent may still be working on it.                     *)
(***************************************************************************)
EXTENDS Naturals

CONSTANT Requests

VARIABLES
    carriedOut,     \* how often the agent has taken each to its own server
    reply           \* what each caller was told, if anything yet

callVars == <<carriedOut, reply>>

NeverSent == {"agent not connected", "bad request"}
Failures == NeverSent \union {"gave up", "agent disconnected"}

CallInit ==
    /\ carriedOut = [r \in Requests |-> 0]
    /\ reply = [r \in Requests |-> "none"]

CarryOut(r) ==
    /\ carriedOut[r] = 0
    /\ reply[r] \notin NeverSent
    /\ carriedOut' = [carriedOut EXCEPT ![r] = 1]
    /\ UNCHANGED reply

Answer(r) ==
    /\ reply[r] = "none"
    /\ carriedOut[r] = 1
    /\ reply' = [reply EXCEPT ![r] = "answer"]
    /\ UNCHANGED carriedOut

Fail(r, why) ==
    /\ reply[r] = "none"
    /\ why \in NeverSent => carriedOut[r] = 0
    /\ reply' = [reply EXCEPT ![r] = why]
    /\ UNCHANGED carriedOut

CallNext ==
    \E r \in Requests :
        \/ CarryOut(r)
        \/ Answer(r)
        \/ \E why \in Failures : Fail(r, why)

CallSpec == CallInit /\ [][CallNext]_callVars
=============================================================================
