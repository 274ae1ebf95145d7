------------------------------ MODULE MCRelay ------------------------------
(* A small instance of Relay: one agent that reconnects, two requests.      *)
EXTENDS Relay

CONSTANTS mini, c1, c2, r1, r2

(* Connections and requests are interchangeable, but symmetry reduction is  *)
(* unsound for liveness.  Instead c1 and r1 are the ones used first: every  *)
(* behaviour of Relay is one of these up to the names.                      *)
InOrder ==
    /\ phase[c1] = "unused" => phase'[c2] = "unused"
    /\ step[r1] = "idle" => step'[r2] = "idle"

OrderedNext == Next /\ InOrder

OrderedSpec == Init /\ [][OrderedNext]_vars /\ GoroutinesRun
=============================================================================
