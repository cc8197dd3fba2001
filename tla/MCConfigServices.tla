-------------------------- MODULE MCConfigServices --------------------------
(***************************************************************************)
(* A small instance of the configured services and of the rules engine's   *)
(* evaluator. A behaviour of all of them is an interleaving of one of      *)
(* each, as they share no variable: it is enough that one at a time has    *)
(* left its initial state. The fair actions of a service are disabled in   *)
(* that state. The evaluator is joined to the others only here.            *)
(***************************************************************************)
EXTENDS ConfigServices, RuleEvaluator

CONSTANTS t1, r1, c1, c2, w1, w2, b1, p1, allow, s1, s2, f1, f2, q1

MCTenants == {t1}
MCRules == {r1}
MCContents == {c1, c2}
MCWriters == {w1, w2}
MCReaders == {b1}
MCTemplates == {p1}
MCTransitions == {allow}
MCRuleSets == {s1, s2}
MCWorkflowTemplates == {f1, f2}
MCQueries == {q1}

RulesQuiet == R!Init
WorkflowQuiet == W!Init
TenantQuiet == T!Init /\ G!Init
EvaluatorQuiet == NoCallYet /\ UNCHANGED evaluated

\* Contents, rule sets and workflow templates are interchangeable: a rule is
\* created with the first of the contents, a tenant with the first of each.
CreatedWithFirst ==
    /\ \A r \in Rules : rulePast[r] # <<>> => rulePast[r][1] = c1
    /\ \A t \in Tenants : \A row \in configPast[t] :
          row.version = 1 => row.ruleSet = s1 /\ row.workflow = f1

EvaluatorStep == Evaluate /\ UNCHANGED vars

MCNext ==
    \/ WorkflowQuiet /\ TenantQuiet /\ EvaluatorQuiet /\ RulesStep /\ CreatedWithFirst'
    \/ RulesQuiet /\ TenantQuiet /\ EvaluatorQuiet /\ WorkflowStep
    \/ RulesQuiet /\ WorkflowQuiet /\ EvaluatorQuiet /\ TenantStep /\ CreatedWithFirst'
    \/ RulesQuiet /\ WorkflowQuiet /\ EvaluatorQuiet /\ GatewayStep
    \/ RulesQuiet /\ WorkflowQuiet /\ TenantQuiet /\ EvaluatorStep

MCInit == Init /\ NoCallYet

MCSpec == MCInit /\ [][MCNext]_<<vars, evaluated>> /\ Fairness

-----------------------------------------------------------------------------
(* Expressions: integers from 0 to 32, of which 0 to 4, 6, 8, 12, 16, 24 and  *)
(* 32 are float64s. The decimal 30 is read as 32, and 14 and 15 as 16.        *)

MCMaxExact == 4
MCMaxExponent == 3
MCPayments == [amount : {3, 5, 7}, currency : {"eur"}, metadata : {"", "5", "Europe"}]
              \cup [amount : {14, 30}, currency : {"eur"}, metadata : {""}]
MCParsed == [s \in {"5", "5.0"} |-> 5]
MCWithin == {<<"eur", "Europe">>, <<"5", "5.0">>}

Leaf(op, field, value) == [op |-> op, field |-> field, value |-> value]

NumericLeaves ==
    {Leaf(op, field, Number(n)) : op \in Ordering \cup {"eq", "neq"},
                                    field \in {"amount", "metadata"}, n \in {3, 4, 6, 15, 32}}
TextLeaves ==
    {Leaf("contains", "metadata", Text("eur")),
     Leaf("gt", "metadata", Text("x")), Leaf("eq", "metadata", Text("5.0")),
     Leaf("gte", "amount", Text("5.0")),
     Leaf("eq", "unknown", Text("")), Leaf("lt", "unknown", Number(4)),
     Leaf("between", "amount", Number(4))}
ListLeaves ==
    {Leaf(op, "amount", v) : op \in {"in", "not_in"},
        v \in {Number(3), [kind |-> "list", items |-> <<Number(3), Text("5")>>]}}
MCLeaves == NumericLeaves \cup TextLeaves \cup ListLeaves

\* One leaf that matches, one that does not and one in error, by the payment.
Basis == {Leaf("gt", "amount", Number(4)), Leaf("gt", "metadata", Number(4)), Junk}
Trees(S) == {[op |-> op, conds |-> <<x, y>>] : op \in {"and", "or"}, x \in S, y \in S}
            \cup {[op |-> "not", cond |-> x] : x \in S}
Inner == Basis \cup Trees(Basis) \cup {[op |-> "and", conds |-> <<>>]}
AllTrees == MCLeaves \cup Inner \cup Trees(Inner)
TreeHeight == [x \in AllTrees |-> CASE x \in MCLeaves \cup Basis -> 0
                                    [] x \in Inner \ Basis -> 1
                                    [] OTHER -> 2]
\* (TLC evaluates the definition a constant is given whenever it is used, and a
\* definition that this one names only once.)
MCExpressions == AllTrees
MCHeight == TreeHeight

\* Two rules, each of one condition or of a list that one in error begins or ends.
ListedExpressions ==
    LET match == Leaf("gt", "amount", Number(4))
        fails == Leaf("gt", "metadata", Number(4))
    IN  {match, fails, [op |-> "or", conds |-> <<fails, match>>],
         [op |-> "or", conds |-> <<match, fails>>]}
MCRuleLists ==
    LET listed == [expression : ListedExpressions, action : DOMAIN Severity]
    IN  {<<r, s>> : r \in listed, s \in listed}
=============================================================================
