---------------------------- MODULE PolicyRules ----------------------------
(***************************************************************************)
(* What a policy answers for a shell command (casper_service/policy.py and *)
(* its twin in agent/internal/commands/policy.go).                         *)
(*                                                                         *)
(* A pattern's two regular expressions are the sets of values they match;  *)
(* resolving a path before matching is left out.  A missing value counts   *)
(* as Blank.  A layer is what a daemon is sent of it: its id and its rules *)
(* in order.                                                               *)
(***************************************************************************)
EXTENDS Naturals, Sequences, FiniteSets, SequencesExt

CONSTANTS
    Blank,          \* the empty string
    Values          \* directories, arguments and options' values, Blank too

\* No whitelist matches everything, the default blacklist nothing.
PatternMatches(value, pattern) ==
    value \in pattern.white /\ value \notin pattern.black

Given(values, i) == IF i \in DOMAIN values THEN values[i] ELSE Blank

\* The supplied options named as a constraint; the first one counts.
Supplied(options, name) == {i \in DOMAIN options : options[i].name = name}

\* The directory, every constrained position and every constrained option.
RuleMatches(rule, call) ==
    /\ PatternMatches(call.cwd, rule.cwd)
    /\ \A i \in DOMAIN rule.positional :
        PatternMatches(Given(call.args, i), rule.positional[i])
    /\ \A constraint \in rule.options :
        LET found == Supplied(call.options, constraint.name) IN
        /\ found # {}
        /\ PatternMatches(call.options[CHOOSE i \in found : \A j \in found : i <= j].value,
                          constraint.pattern)

\* A set in the order in which `before`, a set of pairs, has its elements: the
\* k-th is the one with k - 1 before it.  (SortSeq is what TLC computes, but
\* nothing could be proved of it.)
InOrder(S, before) ==
    [k \in 1 .. Cardinality(S) |->
        CHOOSE x \in S : Cardinality({y \in S : <<y, x>> \in before}) = k - 1]

\* Whatever order the layers come in (the service sends them by name); no two
\* have the same id.
OrderedById(layers) ==
    InOrder(Range(layers), {p \in Range(layers) \X Range(layers) : p[1].id < p[2].id})

\* A file leaves out what may be anything, and the server fills it in.
PatternFromYaml(spec) ==
    [white |-> IF "white" \in DOMAIN spec THEN spec.white ELSE Values,
     black |-> IF "black" \in DOMAIN spec THEN spec.black ELSE {}]

\* _option_from_yaml: the pattern is written next to the name.
OptionFromYaml(option) == [name |-> option.name, pattern |-> PatternFromYaml(option)]

\* load_policy_layer_yaml, for each rule.
RuleFromYaml(spec) ==
    [cwd |-> PatternFromYaml(IF "cwd" \in DOMAIN spec THEN spec.cwd ELSE <<>>),
     positional |-> IF "positional" \in DOMAIN spec
        THEN [i \in DOMAIN spec.positional |-> PatternFromYaml(spec.positional[i])] ELSE <<>>,
     options |-> IF "options" \in DOMAIN spec THEN {OptionFromYaml(o) : o \in spec.options} ELSE {},
     tier |-> IF "tier" \in DOMAIN spec THEN spec.tier ELSE "ask"]

\* The rules of all layers, one after the other.
ComposePolicy(layers) ==
    LET ordered == OrderedById(layers) IN FlattenSeq([i \in DOMAIN ordered |-> ordered[i].rules])

\* The first rule that matches; none is a denial.
MatchPolicy(layers, call) ==
    LET rules == ComposePolicy(layers)
        hits == {i \in DOMAIN rules : RuleMatches(rules[i], call)}
    IN  IF hits = {} THEN "deny"
        ELSE rules[CHOOSE i \in hits : \A j \in hits : i <= j].tier
=============================================================================
