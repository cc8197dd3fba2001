---------------------------- MODULE RuleAnswers ----------------------------
(***************************************************************************)
(* What the evaluator of rule expressions answers at one place of a tree:  *)
(* a comparison of one of the payment's fields, a node over answers that   *)
(* are there, and the action that EvaluateRules takes from the rules that  *)
(* match. Numbers are compared as float64 and equality is equality of      *)
(* text. RuleEvaluator walks the tree.                                     *)
(***************************************************************************)
EXTENDS Naturals, Sequences, TLC

SetsExt == INSTANCE FiniteSetsExt

CONSTANTS Parsed,     \* the texts ParseFloat accepts, with the numbers they write
          Within,     \* pairs of different texts, the first inside the second
          MaxExact,   \* 2^53 in the code
          MaxExponent \* 970 in the code

-----------------------------------------------------------------------------
(* Float64s. MaxFloat is 2^1023 in the code, beyond every int64.            *)

MaxFloat == MaxExact * 2^MaxExponent

ASSUME FloatsAssumption ==
    MaxExact \in Nat /\ MaxExponent \in Nat /\ MaxFloat \in Nat

\* The natural numbers that are float64s: all up to MaxExact, from there to its
\* double the even ones, to the double of that the multiples of four, and so on.
Floats == (0..MaxExact) \cup
    {f \in 0..MaxFloat : \E m \in 0..MaxExact, e \in 0..MaxExponent : f = m * 2^e}

Distance(a, b) == IF a < b THEN b - a ELSE a - b

\* float64(n), and what decoding a number makes of it: the nearest float64, and
\* of two as near the one whose last binary digit is 0.
Float(n) ==
    LET below == SetsExt!Max({f \in Floats : f <= n})
        above == SetsExt!Min({f \in Floats : n <= f})
        lastDigitOfBelow == (below \div (above - below)) % 2
    IN  IF n \in Floats THEN n
        ELSE IF \/ Distance(n, below) < Distance(n, above)
                \/ Distance(n, below) = Distance(n, above) /\ lastDigitOfBelow = 0
        THEN below ELSE above

\* FormatFloat(f, 'f', -1, 64): of the decimals that are read as f, one with the
\* fewest digits before its zeros, and of these the nearest. (MaxExponent also
\* bounds the zeros of a float64.)
Shortest(f) ==
    LET readAsF == {d \in 0..MaxFloat : Float(d) = f}
        withZeros(k) == {d \in readAsF : d % 10^k = 0}
        zeros == SetsExt!Max({k \in 0..MaxExponent :
                                 k = 0 \/ (10^k <= f /\ withZeros(k) # {})})
    IN  CHOOSE d \in withZeros(zeros) :
            \A c \in withZeros(zeros) : Distance(d, f) <= Distance(c, f)

-----------------------------------------------------------------------------
(* Values. The payment's amount is an int64; a number of a rule is decoded   *)
(* to the float64 nearest to the number written, n.                          *)

Int64(n)  == [kind |-> "int64", n |-> n]
Number(n) == [kind |-> "number", n |-> n]
Text(s)   == [kind |-> "text", s |-> s]
Nil       == [kind |-> "nil"]

\* An unknown field is nil, an unknown metadata key the empty text.
resolveField(field, p) ==
    CASE field = "amount"   -> Int64(p.amount)
      [] field = "currency" -> Text(p.currency)
      [] field = "metadata" -> Text(p.metadata)
      [] OTHER              -> Nil

anyStr(v) ==
    CASE v.kind = "int64"  -> ToString(v.n)
      [] v.kind = "number" -> ToString(Shortest(Float(v.n)))
      [] v.kind = "text"   -> v.s
      [] v.kind = "nil"    -> ""
      [] v.kind = "list"   -> "[...]"

isNumeric(v) ==
    v.kind \in {"int64", "number"} \/ (v.kind = "text" /\ v.s \in DOMAIN Parsed)
toFloat64(v) == Float(IF v.kind = "text" THEN Parsed[v.s] ELSE v.n)

contains(a, e) == e = "" \/ a = e \/ <<e, a>> \in Within

-----------------------------------------------------------------------------
(* Leaves: each answers "match", "no" or "error" *)

Answer(b) == IF b THEN "match" ELSE "no"

inSlice(actual, expected) == \E i \in DOMAIN expected.items :
                                anyStr(expected.items[i]) = anyStr(actual)

Compare(op, a, e) ==
    CASE op = "gt"  -> a > e
      [] op = "gte" -> a >= e
      [] op = "lt"  -> a < e
      [] op = "lte" -> a <= e

Ordering == {"gt", "gte", "lt", "lte"}

\* Fault: "or equal" is asked of the texts.
compareNumbers_TextOrEqual(op, actual, expected) ==
    IF isNumeric(actual) /\ isNumeric(expected)
    THEN Answer(\/ Compare(CASE op = "gte" -> "gt" [] op = "lte" -> "lt" [] OTHER -> op,
                           toFloat64(actual), toFloat64(expected))
                \/ op \in {"gte", "lte"} /\ anyStr(actual) = anyStr(expected))
    ELSE "error"

compareNumbers(op, actual, expected) ==
    IF isNumeric(actual) /\ isNumeric(expected)
    THEN Answer(Compare(op, toFloat64(actual), toFloat64(expected)))
    ELSE "error"

applyOp(op, actual, expected) ==
    CASE op = "eq"  -> Answer(anyStr(actual) = anyStr(expected))
      [] op = "neq" -> Answer(anyStr(actual) # anyStr(expected))
      [] op \in Ordering -> compareNumbers(op, actual, expected)
      [] op \in {"in", "not_in"} ->
            IF expected.kind = "list"
            THEN Answer(inSlice(actual, expected) <=> op = "in")
            ELSE "error"
      [] op = "contains" -> Answer(contains(anyStr(actual), anyStr(expected)))
      [] OTHER -> "error"

-----------------------------------------------------------------------------
(* Nodes: what an and, an or and a not make of the answers below them *)

\* The first of the answers that is not `go`, or else `go`.
FirstOther(answers, go) ==
    LET stops == {i \in DOMAIN answers : answers[i] # go}
    IN  IF stops = {} THEN go ELSE answers[SetsExt!Min(stops)]

Negate(answer) ==
    CASE answer = "match" -> "no" [] answer = "no" -> "match" [] OTHER -> "error"

\* Fault: an or skips the conditions that cannot be evaluated.
orOf_SkipsErrors(answers) == Answer(\E i \in DOMAIN answers : answers[i] = "match")

orOf(answers) == FirstOther(answers, "no")
andOf(answers) == FirstOther(answers, "match")

-----------------------------------------------------------------------------
(* The action taken *)

Severity == [approve |-> 1, flag |-> 2, review |-> 3, block |-> 4]

\* The loop over a tenant's rules, of which those in matched match: one whose
\* action is severer than the one taken before replaces it.
ActionTaken(actions, matched) ==
    LET taken[i \in 0..Len(actions)] ==
            IF i = 0 THEN "approve"
            ELSE IF i \in matched /\ Severity[actions[i]] > Severity[taken[i - 1]]
            THEN actions[i] ELSE taken[i - 1]
    IN  taken[Len(actions)]

-----------------------------------------------------------------------------
(* What is expected of an answer *)

\* A list in three-valued logic, in which no order of conditions exists.
KleeneOf(op, answers) ==
    LET decisive == IF op = "and" THEN "no" ELSE "match"
    IN  IF decisive \in answers THEN decisive
        ELSE IF "error" \in answers THEN "error" ELSE Negate(decisive)

\* An error may cost an answer; it never turns one around.
NeverFlipped(answer, reference) == answer \in {"error", reference}

\* The answer to a comparison of integers is right where they are equal, and it
\* never puts the smaller above the other.
KeepsOrder(op, a, n, answer) ==
    LET right == answer = Answer(Compare(op, a, n))
    IN  /\ a = n => right
        /\ op \in {"gt", "lt"} /\ answer = "match" => right
        /\ op \in {"gte", "lte"} /\ answer = "no" => right
=============================================================================
