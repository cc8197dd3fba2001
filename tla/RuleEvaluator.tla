---------------------------- MODULE RuleEvaluator ---------------------------
(***************************************************************************)
(* The evaluator of rule expressions: trees of and, or and not over        *)
(* comparisons of a payment's fields. Evaluation stops at the condition    *)
(* that decides, or at the first that cannot be evaluated; EvaluateRules   *)
(* skips a rule that cannot be, and takes the severest action that matches.*)
(* Each place of the tree answers as in RuleAnswers.                       *)
(***************************************************************************)
EXTENDS RuleAnswers

CONSTANTS Expressions, \* the conditions of all trees, those below others included
          Height,      \* how deep the tree below each condition is
          RuleLists,   \* the lists of rules evaluated
          Payments     \* payment contexts: an amount, a currency, a metadata text

VARIABLE evaluated     \* the last call and its answer

-----------------------------------------------------------------------------
(* Trees. Junk is a condition that is not an object: a list that holds one   *)
(* is refused before any of its conditions is evaluated.                     *)

Junk == [op |-> "junk"]
HasJunk(conds) == \E i \in DOMAIN conds : conds[i] = Junk

Below(node) ==
    CASE node.op \in {"and", "or"} -> {node.conds[i] : i \in DOMAIN node.conds}
      [] node.op = "not" -> {node.cond}
      [] OTHER -> {}

\* A tree is the text of a rule decoded: its conditions are there and none is
\* below itself.
ASSUME TreesAssumption ==
    /\ Height \in [Expressions -> Nat]
    /\ \A node \in Expressions : \A c \in Below(node) :
          c \in Expressions /\ Height[c] < Height[node]
    /\ \A node \in Expressions :
          node.op \in {"and", "or"} => node.conds \in Seq(Expressions)

\* The answer of a node, given those of the nodes below it.
evalNode(node, p, answers) ==
    CASE node.op \in {"and", "or"} ->
            LET list == [i \in DOMAIN node.conds |-> answers[node.conds[i]]]
            IN  IF HasJunk(node.conds) THEN "error"
                ELSE IF node.op = "and" THEN andOf(list)
                ELSE orOf(list)
      [] node.op = "not"  -> Negate(answers[node.cond])
      [] node.op = "junk" -> "error"
      [] OTHER -> applyOp(node.op, resolveField(node.field, p), node.value)

\* What every tree answers about each payment.
AnswersTo ==
    [p \in Payments |->
        LET answers[node \in Expressions] == evalNode(node, p, answers) IN answers]

-----------------------------------------------------------------------------
(* EvaluateRules and SimulateRule *)

\* Fault: an error is the end of the loop, not of the rule.
Considered_UntilError(list, p) ==
    {i \in DOMAIN list : \A j \in 1..i : AnswersTo[p][list[j].expression] # "error"}

Considered(list, p) ==
    {i \in DOMAIN list : AnswersTo[p][list[i].expression] # "error"}

aggregateAction(list, p) ==
    ActionTaken([i \in DOMAIN list |-> list[i].action],
                {i \in Considered(list, p) : AnswersTo[p][list[i].expression] = "match"})

NotCalled == [call |-> "none"]
NoCallYet == evaluated = NotCalled

SimulateRule(expression, p) ==
    evaluated' = [call |-> "simulate", expression |-> expression, payment |-> p,
                  answer |-> AnswersTo[p][expression]]

EvaluateRules(list, p) ==
    evaluated' = [call |-> "evaluate", list |-> list, payment |-> p,
                  answer |-> aggregateAction(list, p)]

Rule == [expression : Expressions, action : DOMAIN Severity]

ASSUME RulesAssumption == RuleLists \subseteq Seq(Rule)

\* Amounts and the numbers they are compared with.
ASSUME NumbersAssumption ==
    /\ \A p \in Payments : p.amount \in 0..MaxFloat
    /\ \A node \in Expressions :
          node.op \in Ordering /\ node.value.kind = "number" =>
             node.value.n \in 0..MaxFloat

Evaluate ==
    /\ evaluated = NotCalled
    /\ \/ \E x \in Expressions, p \in Payments : SimulateRule(x, p)
       \/ \E list \in RuleLists, p \in Payments : EvaluateRules(list, p)

EvaluatorSpec == NoCallYet /\ [][Evaluate]_evaluated

-----------------------------------------------------------------------------
(* The reference: the whole tree in three-valued logic *)

KleeneAt(node, p, answers) ==
    CASE node.op \in {"and", "or"} -> KleeneOf(node.op, {answers[c] : c \in Below(node)})
      [] node.op = "not" -> Negate(answers[node.cond])
      [] OTHER -> evalNode(node, p, answers)

Kleene ==
    [p \in Payments |->
        LET answers[node \in Expressions] == KleeneAt(node, p, answers) IN answers]

-----------------------------------------------------------------------------
(* Properties *)

\* Conditions that cannot be evaluated may cost a rule its answer and never
\* change it: whatever the order of its conditions, and wherever a missing field
\* or an ill-formed condition stands in the tree, a rule that answers gives the
\* answer that follows from the conditions that can be evaluated.
ErrorsNeverFlip ==
    evaluated.call = "simulate" =>
        NeverFlipped(evaluated.answer, Kleene[evaluated.payment][evaluated.expression])

\* Where float64 cannot tell an amount from the number it is compared with, the
\* two count as equal and no more: a strict comparison that matches and a weak one
\* that does not are right about the integers, and equals are told exactly.
ComparisonsKeepOrder ==
    evaluated.call = "simulate" =>
        LET x == evaluated.expression
        IN  x.op \in Ordering /\ x.field = "amount" /\ x.value.kind = "number" =>
                KeepsOrder(x.op, evaluated.payment.amount, x.value.n, evaluated.answer)

\* A rule that cannot be evaluated takes no other rule down with it: the answer
\* is at least as severe as every rule that matches and can be evaluated, and is
\* the default or the action of a rule that matches.
SeverestMatchWins ==
    evaluated.call = "evaluate" =>
        LET list == evaluated.list
            matched == {i \in DOMAIN list :
                          Kleene[evaluated.payment][list[i].expression] = "match"}
            failed == {i \in DOMAIN list :
                          AnswersTo[evaluated.payment][list[i].expression] = "error"}
        IN  /\ \A i \in matched \ failed :
                  Severity[list[i].action] <= Severity[evaluated.answer]
            /\ evaluated.answer \in {"approve"} \cup {list[i].action : i \in matched}
=============================================================================
