------------------------------ MODULE MCPolicy ------------------------------
(* A small instance of Policy: commands that remove files, with or without  *)
(* force, and two rules about them.                                        *)
EXTENDS Policy

CONSTANTS ann, bea, rm, f, home, web, cli, first, second

MCValues == {Blank, rm, f, home}

Anything == [white |-> MCValues, black |-> {}]
Only(value) == [white |-> {value}, black |-> {}]

NoForce == [cwd |-> Anything, positional |-> <<Only(rm)>>, options |-> {[name |-> f, pattern |-> Only(Blank)]}, tier |-> "deny"]
AtHome == [cwd |-> Only(home), positional |-> <<Anything, Only(Blank)>>, options |-> {}, tier |-> "allow"]

RmWith(options) == [cwd |-> home, args |-> <<rm>>, options |-> options]

MCRules == {NoForce, AtHome}
MCFile == <<
    [positional |-> <<[white |-> {rm}]>>, options |-> {[name |-> f, white |-> {Blank}]}, tier |-> "deny"],
    [cwd |-> [white |-> {home}], positional |-> <<<<>>, [white |-> {Blank}]>>, tier |-> "allow"]>>
MCCalls == {RmWith(<<>>), RmWith(<<[name |-> f, value |-> Blank]>>)}

(* Ann has two layers, which the service sends in the order of their names, *)
(* and Bea one, still empty; all three are attached.                        *)
Drawn ==
    /\ owner = <<ann, ann, bea>>
    /\ layers = <<2, 1, 1>>
    /\ attached = {1, 2, 3}
    /\ rules = <<[layer |-> 1, pos |-> 0, says |-> NoForce],
                 [layer |-> 1, pos |-> 1, says |-> AtHome],
                 [layer |-> 2, pos |-> 0, says |-> AtHome]>>
    /\ made = 3
    /\ request = [q \in Requests |-> Nobody]
    /\ apply = NoApply /\ begun = 0
    /\ fetch = [g \in Fetches |-> Nobody]
    /\ cache = [u \in Users |-> <<>>]
    /\ current = {} /\ raced = {}

Alike == Permutations(Fetches)

DrawnSpec == Drawn /\ [][PolicyNext]_policyVars
=============================================================================
