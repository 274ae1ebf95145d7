------------------------------ MODULE Consent ------------------------------
(***************************************************************************)
(* What people are promised about commands on their machines: a command is *)
(* carried out only under the policy of the machine at that moment.  Where *)
(* the policy says "deny" it is not, where it says "ask" each time takes   *)
(* an answer of the owner's to that very command, and an answer is good    *)
(* for one time at most.                                                   *)
(***************************************************************************)
EXTENDS Naturals

CONSTANTS Calls, Hosts

VARIABLES
    policy,     \* what the policy of each machine says of the commands
    permits,    \* per command, answers "allow" that may still be used
    runs        \* per command, how often it was carried out

consentVars == <<policy, permits, runs>>

Tiers == {"allow", "ask", "deny"}

ConsentInit ==
    /\ policy \in [Hosts -> Tiers]
    /\ permits = [c \in Calls |-> 0]
    /\ runs = [c \in Calls |-> 0]

ChangePolicy == policy' \in [Hosts -> Tiers] /\ UNCHANGED <<permits, runs>>

Allow(c) ==
    /\ permits' = [permits EXCEPT ![c] = @ + 1]
    /\ UNCHANGED <<policy, runs>>

\* Answers that nothing came of.
Lapse ==
    /\ permits' \in [Calls -> Nat]
    /\ \A c \in Calls : permits'[c] <= permits[c]
    /\ UNCHANGED <<policy, runs>>

Run(c, h) ==
    /\ \/ policy[h] = "allow" /\ permits'[c] \in {permits[c], permits[c] - 1}
       \/ policy[h] = "ask" /\ permits'[c] = permits[c] - 1
    /\ permits' \in [Calls -> Nat]
    /\ \A d \in Calls \ {c} : permits'[d] = permits[d]
    /\ runs' = [runs EXCEPT ![c] = @ + 1]
    /\ UNCHANGED policy

ConsentNext ==
    \/ ChangePolicy
    \/ Lapse
    \/ \E c \in Calls : Allow(c) \/ \E h \in Hosts : Run(c, h)

ConsentSpec == ConsentInit /\ [][ConsentNext]_consentVars
=============================================================================
