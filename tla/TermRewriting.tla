--------------------------- MODULE TermRewriting ---------------------------
(***************************************************************************)
(* The rule engine of os/asis/asis_enhanced.py: Rule matches its pattern   *)
(* against a term and puts what its variables are bound to into its        *)
(* replacement; RuleEngine.normalize applies the first rule that changes   *)
(* the term, again and again.  The condition a Rule may carry is left out: *)
(* the only rule of the repository has none.                               *)
(***************************************************************************)
EXTENDS Integers, Sequences, FiniteSets, SequencesExt

CONSTANTS
  Terms,        \* the terms that are normalised
  Rules         \* the rules, in order: [pattern, replacement]

VARIABLES
  term, passes \* RuleEngine.normalize: the current term, and the rewrites so far

ruleVars == <<term, passes>>

\* A term is [op, name, args]: a leaf has the operator "" and a name, and a leaf
\* "?x" of a pattern stands for any term.
Variable(t) == t.op = "?"

\* Bindings are a set of pairs; a failed match is {"failed"}.
Failure == {<<"failed", "failed">>}

\* A fault: a variable that is bound already matches any term again.
BindAny(p, t, b) == IF \E x \in b : x[1] = p.name THEN b ELSE b \cup {<<p.name, t>>}

Bind(p, t, b) ==
  IF \E x \in b : x[1] = p.name
  THEN IF <<p.name, t>> \in b THEN b ELSE Failure
  ELSE b \cup {<<p.name, t>>}

RECURSIVE MatchTerm(_, _, _)
MatchTerm(p, t, b) ==
  IF b = Failure THEN Failure
  ELSE IF Variable(p) THEN Bind(p, t, b)
  ELSE IF p.op # t.op \/ p.name # t.name \/ Len(p.args) # Len(t.args) THEN Failure
  ELSE FoldLeft(LAMBDA acc, k : MatchTerm(p.args[k], t.args[k], acc), b, [k \in DOMAIN p.args |-> k])

RECURSIVE SubstituteBindings(_, _)
SubstituteBindings(t, b) ==
  IF Variable(t) /\ \E x \in b : x[1] = t.name
  THEN (CHOOSE x \in b : x[1] = t.name)[2]
  ELSE [t EXCEPT !.args = [k \in DOMAIN @ |-> SubstituteBindings(@[k], b)]]

ApplyRule(r, t) ==
  LET b == MatchTerm(r.pattern, t, {}) IN
  IF b = Failure THEN t ELSE SubstituteBindings(r.replacement, b)

Applicable(t) == {k \in DOMAIN Rules : ApplyRule(Rules[k], t) # t}
MaxPasses == 100

RuleInit == term \in Terms /\ passes = 0

\* One pass of normalize: the first rule that changes the term.
Rewrite ==
  /\ Applicable(term) # {} /\ passes < MaxPasses
  /\ LET first == CHOOSE k \in Applicable(term) : \A o \in Applicable(term) : k <= o IN
     term' = ApplyRule(Rules[first], term)
  /\ passes' = passes + 1

RuleSpec == RuleInit /\ [][Rewrite]_ruleVars

------------------------------------------------------------------------------
RECURSIVE Subterms(_)
Subterms(t) == {t} \cup UNION {Subterms(t.args[k]) : k \in DOMAIN t.args}

RECURSIVE VariablesOf(_)
VariablesOf(t) == IF Variable(t) THEN {t.name}
                  ELSE UNION {VariablesOf(t.args[k]) : k \in DOMAIN t.args}

\* "Full forward-chaining rule engine with unification" (asis_enhanced.py:9): a
\* term is rewritten to what some assignment of subterms to the variables makes
\* of the rule's replacement, where that assignment makes the term of its pattern.
RewritesAreInstances ==
  \A k \in DOMAIN Rules :
    LET r == Rules[k]
        fits == {s \in [VariablesOf(r.pattern) -> Subterms(term)] :
                   SubstituteBindings(r.pattern, {<<x, s[x]>> : x \in DOMAIN s}) = term}
    IN IF fits = {} THEN ApplyRule(r, term) = term
       ELSE \E s \in fits :
              ApplyRule(r, term) = SubstituteBindings(r.replacement, {<<x, s[x]>> : x \in DOMAIN s})
==============================================================================
