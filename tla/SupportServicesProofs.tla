----------------------- MODULE SupportServicesProofs -----------------------
(***************************************************************************)
(* Proofs about SupportServices, for every set of keys, callers, senders,  *)
(* rows, users and tenants, every rate limit, window and page size. The    *)
(* services share nothing but the ledger explanations are made from, and   *)
(* each has an invariant of its own.                                       *)
(***************************************************************************)
EXTENDS SupportServices, Functions, FiniteSetTheorems, SequenceTheorems, TLAPS

-----------------------------------------------------------------------------
(* Identity                                                                 *)

\* A call that has found the account enabled still sees it so, or knows that it
\* changed; and an answer that allows rests on both checks.
ChecksHold ==
    \A c \in Calls : authorizing[c].at = "tenant" /\ ~authorizing[c].changed =>
        account[authorizing[c].token.user].enabled

IdentityInv == A!TypeOK /\ ChecksHold /\ A!AllowedIsCurrent

LEMMA AuthorizeCalls ==
  ASSUME A!TypeOK
  PROVE  \A c \in Calls :
            /\ authorizing[c].at \in {"status", "tenant"} => authorizing[c] \in A!Started
            /\ authorizing[c].at = "answered" => authorizing[c] \in A!Answered
            /\ authorizing[c] # A!NoCall =>
                  /\ authorizing[c].token \in A!Token
                  /\ authorizing[c].action \in Actions
                  /\ authorizing[c].resource \in Tenants \cup {AnyTenant}
                  /\ authorizing[c].changed \in BOOLEAN
BY DEF A!TypeOK, A!NoCall, A!Started, A!Answered

\* Only an action that the token permits within its tenant is allowed.
LEMMA CanIsLocal ==
  ASSUME NEW token, NEW action, NEW resource, A!Can(token, action, resource)
  PROVE  resource \notin {AnyTenant, token.tenant} => "platform_admin" \in token.roles
BY DEF A!Can

\* An answer of a call, and what it needs to be current.
LEMMA AnswerKeeps ==
  ASSUME IdentityInv, NEW c \in Calls, NEW token \in A!Token, NEW action \in Actions,
         NEW resource \in Tenants \cup {AnyTenant}, NEW changed \in BOOLEAN,
         NEW allowed \in BOOLEAN,
         A!Answer(c, token, action, resource, changed, allowed),
         UNCHANGED <<account, tokens>>,
         allowed => A!Can(token, action, resource),
         allowed /\ action \in A!highStakesActions /\ ~changed =>
            account[token.user].enabled /\ account[token.user].tenant = token.tenant
  PROVE  IdentityInv'
<1> DEFINE answer == [at |-> "answered", token |-> token, action |-> action,
                      resource |-> resource, changed |-> changed, allowed |-> allowed]
<1> USE DEF IdentityInv
<1>1. authorizing' = [authorizing EXCEPT ![c] = answer]
  BY DEF A!Answer
<1>2. answer \in A!Answered
  BY DEF A!Answered
<1>3. A!TypeOK'
  BY <1>1, <1>2 DEF A!TypeOK
<1>4. /\ authorizing'[c] = answer
      /\ \A d \in Calls \ {c} : authorizing'[d] = authorizing[d]
  BY <1>1 DEF A!TypeOK
<1>5. ChecksHold'
  BY <1>4 DEF ChecksHold
<1>6. allowed => (resource \notin {AnyTenant, token.tenant} =>
                     "platform_admin" \in token.roles)
  BY CanIsLocal
<1>7. A!AllowedIsCurrent'
  <2> SUFFICES ASSUME NEW d \in Calls, authorizing'[d] # A!NoCall,
                      authorizing'[d].at = "answered", authorizing'[d].allowed
               PROVE  LET now == account[authorizing'[d].token.user] IN
                      /\ authorizing'[d].resource
                            \notin {AnyTenant, authorizing'[d].token.tenant} =>
                            "platform_admin" \in authorizing'[d].token.roles
                      /\ authorizing'[d].action \in A!highStakesActions
                         /\ ~authorizing'[d].changed =>
                            now.enabled /\ now.tenant = authorizing'[d].token.tenant
    BY DEF A!AllowedIsCurrent, A!NoCall
  <2>1. CASE d = c
    BY <1>4, <1>6, <2>1
  <2>2. CASE d # c
    BY <1>4, <2>2 DEF A!AllowedIsCurrent
  <2> QED
    BY <2>1, <2>2
<1> QED
  BY <1>3, <1>5, <1>7

LEMMA ChangeAccountStep ==
  ASSUME IdentityInv, NEW u \in Users, NEW new \in A!Account, A!ChangeAccount(u, new)
  PROVE  IdentityInv'
<1> USE DEF IdentityInv
<1>1. /\ account' = [account EXCEPT ![u] = new]
      /\ tokens' = tokens
      /\ \A x \in Users \ {u} : account'[x] = account[x]
  BY DEF A!ChangeAccount, A!TypeOK
<1>2. ASSUME NEW c \in Calls
      PROVE  \/ /\ authorizing[c] # A!NoCall
                /\ authorizing'[c] = [authorizing[c] EXCEPT !.changed = TRUE]
             \/ /\ authorizing'[c] = authorizing[c]
                /\ authorizing[c] # A!NoCall => authorizing[c].token.user \in Users \ {u}
  BY AuthorizeCalls DEF A!ChangeAccount, A!Token
<1>3. ASSUME NEW c \in Calls, authorizing[c] # A!NoCall
      PROVE  LET changed == [authorizing[c] EXCEPT !.changed = TRUE] IN
             /\ changed \in A!Started \cup A!Answered
             /\ changed.changed = TRUE /\ changed.at = authorizing[c].at
             /\ changed.token = authorizing[c].token
             /\ changed.resource = authorizing[c].resource
             /\ changed.action = authorizing[c].action
             /\ changed.at = "answered" => changed.allowed = authorizing[c].allowed
  <2>1. CASE authorizing[c] \in A!Started
    BY <2>1 DEF A!Started
  <2>2. CASE authorizing[c] \in A!Answered
    BY <2>2 DEF A!Answered
  <2> QED
    BY <1>3, <2>1, <2>2 DEF A!TypeOK
<1>4. A!TypeOK'
  <2>1. \A c \in Calls :
           authorizing'[c] \in {A!NoCall} \cup A!Started \cup A!Answered
    BY <1>2, <1>3 DEF A!TypeOK
  <2>2. authorizing' \in [Calls -> {A!NoCall} \cup A!Started \cup A!Answered]
    BY <2>1 DEF A!ChangeAccount
  <2> QED
    BY <1>1, <2>2 DEF A!TypeOK
<1>5. ChecksHold'
  <2> SUFFICES ASSUME NEW c \in Calls, authorizing'[c].at = "tenant",
                      ~authorizing'[c].changed
               PROVE  account'[authorizing'[c].token.user].enabled
    BY DEF ChecksHold
  <2>1. ~(/\ authorizing[c] # A!NoCall
          /\ authorizing'[c] = [authorizing[c] EXCEPT !.changed = TRUE])
    BY <1>3
  <2>2. /\ authorizing'[c] = authorizing[c]
        /\ authorizing[c] # A!NoCall => authorizing[c].token.user \in Users \ {u}
    BY <1>2, <2>1
  <2>3. authorizing[c] # A!NoCall
    BY <2>2 DEF A!NoCall
  <2> QED
    BY <1>1, <2>2, <2>3 DEF ChecksHold
<1>6. A!AllowedIsCurrent'
  <2> SUFFICES ASSUME NEW c \in Calls, authorizing'[c] # A!NoCall,
                      authorizing'[c].at = "answered", authorizing'[c].allowed
               PROVE  LET now == account'[authorizing'[c].token.user] IN
                      /\ authorizing'[c].resource
                            \notin {AnyTenant, authorizing'[c].token.tenant} =>
                            "platform_admin" \in authorizing'[c].token.roles
                      /\ authorizing'[c].action \in A!highStakesActions
                         /\ ~authorizing'[c].changed =>
                            now.enabled /\ now.tenant = authorizing'[c].token.tenant
    BY DEF A!AllowedIsCurrent, A!NoCall
  <2>1. CASE authorizing'[c] = authorizing[c]
              /\ authorizing[c].token.user \in Users \ {u}
    BY <1>1, <2>1 DEF A!AllowedIsCurrent
  <2>2. CASE /\ authorizing[c] # A!NoCall
             /\ authorizing'[c] = [authorizing[c] EXCEPT !.changed = TRUE]
    BY <1>3, <2>2 DEF A!AllowedIsCurrent
  <2> QED
    BY <1>2, <2>1, <2>2
<1> QED
  BY <1>4, <1>5, <1>6

LEMMA AuthorizeSteps ==
  ASSUME IdentityInv, NEW c \in Calls,
         \/ \E token \in tokens, action \in Actions,
               resource \in Tenants \cup {AnyTenant} :
               A!Authorize(c, token, action, resource)
         \/ A!IsUserEnabled(c) \/ A!GetUserTenantID(c)
  PROVE  IdentityInv'
<1> USE DEF IdentityInv
<1>1. ASSUME NEW token \in tokens, NEW action \in Actions,
             NEW resource \in Tenants \cup {AnyTenant},
             A!Authorize(c, token, action, resource)
      PROVE  IdentityInv'
  <2>1. token \in A!Token /\ UNCHANGED <<account, tokens>>
    BY <1>1 DEF A!TypeOK, A!Authorize
  <2>2. CASE action \in A!highStakesActions
    <3> DEFINE start == [at |-> "status", token |-> token, action |-> action,
                         resource |-> resource, changed |-> FALSE]
    <3>1. start \in A!Started /\ authorizing' = [authorizing EXCEPT ![c] = start]
      BY <1>1, <2>1, <2>2 DEF A!Authorize, A!Started
    <3>2. A!TypeOK'
      BY <2>1, <3>1 DEF A!TypeOK
    <3>3. ChecksHold' /\ A!AllowedIsCurrent'
      BY <2>1, <3>1 DEF ChecksHold, A!AllowedIsCurrent, A!TypeOK
    <3> QED
      BY <3>2, <3>3
  <2>3. CASE action \notin A!highStakesActions
    <3>1. A!Answer(c, token, action, resource, FALSE, A!Can(token, action, resource))
      BY <1>1, <2>3 DEF A!Authorize
    <3>2. A!Can(token, action, resource) \in BOOLEAN
      BY DEF A!Can
    <3> QED
      BY <2>1, <2>3, <3>1, <3>2, AnswerKeeps
  <2> QED
    BY <2>2, <2>3
<1>2. ASSUME A!IsUserEnabled(c) \/ A!GetUserTenantID(c)
      PROVE  /\ authorizing[c] \in A!Started /\ UNCHANGED <<account, tokens>>
             /\ authorizing[c].token \in A!Token /\ authorizing[c].action \in Actions
             /\ authorizing[c].resource \in Tenants \cup {AnyTenant}
             /\ authorizing[c].changed \in BOOLEAN
  <2>1. authorizing[c] \in A!Started
    BY <1>2, AuthorizeCalls DEF A!IsUserEnabled, A!GetUserTenantID
  <2> QED
    BY <1>2, <2>1 DEF A!Started, A!IsUserEnabled, A!GetUserTenantID
<1>3. ASSUME A!IsUserEnabled(c) \/ A!GetUserTenantID(c), A!Refuse(c)
      PROVE  IdentityInv'
  BY <1>2, <1>3, AnswerKeeps DEF A!Refuse
<1>4. ASSUME A!IsUserEnabled(c), account[authorizing[c].token.user].enabled
      PROVE  IdentityInv'
  <2>1. PICK next : next = [authorizing[c] EXCEPT !.at = "tenant"]
    OBVIOUS
  <2>2. /\ next \in A!Started /\ next.at = "tenant"
        /\ next.token = authorizing[c].token
    BY <1>2, <1>4, <2>1 DEF A!Started
  <2>3. authorizing' = [authorizing EXCEPT ![c] = next]
    BY <1>4, <2>1 DEF A!IsUserEnabled
  <2>4. A!TypeOK'
    BY <1>2, <1>4, <2>2, <2>3 DEF A!TypeOK
  <2>5. ChecksHold'
    BY <1>2, <1>4, <2>2, <2>3 DEF ChecksHold, A!TypeOK
  <2>6. A!AllowedIsCurrent'
    BY <1>2, <1>4, <2>2, <2>3 DEF A!AllowedIsCurrent, A!TypeOK
  <2> QED
    BY <2>4, <2>5, <2>6
<1>5. ASSUME A!GetUserTenantID(c),
             account[authorizing[c].token.user].tenant = authorizing[c].token.tenant
      PROVE  IdentityInv'
  <2>1. ~authorizing[c].changed => account[authorizing[c].token.user].enabled
    BY <1>5 DEF A!GetUserTenantID, ChecksHold
  <2>2. A!Can(authorizing[c].token, authorizing[c].action, authorizing[c].resource)
           \in BOOLEAN
    BY DEF A!Can
  <2>3. A!Answer(c, authorizing[c].token, authorizing[c].action,
                 authorizing[c].resource, authorizing[c].changed,
                 A!Can(authorizing[c].token, authorizing[c].action,
                       authorizing[c].resource))
    BY <1>5 DEF A!GetUserTenantID
  <2> QED
    BY <1>2, <1>5, <2>1, <2>2, <2>3, AnswerKeeps
<1> QED
  BY <1>1, <1>3, <1>4, <1>5 DEF A!IsUserEnabled, A!GetUserTenantID

LEMMA IdentityStepKeeps ==
  ASSUME IdentityInv, A!Next PROVE IdentityInv'
<1> USE DEF IdentityInv
<1>1. ASSUME NEW u \in Users, A!Login(u) PROVE IdentityInv'
  <2>1. [user |-> u, tenant |-> account[u].tenant, roles |-> account[u].roles]
           \in A!Token
    BY DEF A!TypeOK, A!Account, A!Token
  <2> QED
    BY <1>1, <2>1 DEF A!Login, A!TypeOK, ChecksHold, A!AllowedIsCurrent
<1>2. ASSUME NEW token \in tokens, A!TokenExpires(token) PROVE IdentityInv'
  BY <1>2 DEF A!TokenExpires, A!TypeOK, ChecksHold, A!AllowedIsCurrent
<1>3. ASSUME NEW c \in Calls, A!CallEnds(c) PROVE IdentityInv'
  BY <1>3 DEF A!CallEnds, A!TypeOK, ChecksHold, A!AllowedIsCurrent, A!NoCall
<1> QED
  BY <1>1, <1>2, <1>3, ChangeAccountStep, AuthorizeSteps DEF A!Next

-----------------------------------------------------------------------------
(* Explanations                                                             *)

\* The i-th entry of a ledger is what someone reports.
Reports(entries, i, outcome, overridden) ==
    /\ i \in 1..Len(entries)
    /\ outcome = entries[i]
    /\ overridden <=> i > 1

\* A call that generates an explanation holds an outcome the decision has had:
\* the one in force, until an override falls into its generation.
CallsReport ==
    \A c \in Explainers :
        LET k == explaining[c].key IN
        /\ explaining[c].at = "decision" =>
             \E i \in 1..Len(ledger[k]) :
                /\ Reports(ledger[k], i, explaining[c].outcome, explaining[c].overridden)
                /\ k \in raced \/ i = Len(ledger[k])
        /\ explaining[c].at = "generated" =>
             \E i \in 1..Len(ledger[k]) :
                /\ explaining[c].row.kept.outcome = ledger[k][i]
                /\ Reports(ledger[k], i, explaining[c].row.replaced.outcome,
                           explaining[c].row.replaced.overridden)
                /\ k \in raced \/ i = Len(ledger[k])

\* A stored explanation reports outcomes the decision has had, the same one unless
\* an override raced, and the one in force as long as a call could replace it.
RowsReport ==
    \A k \in Decided : explanations[k] # X!Absent =>
        \E kept, told \in 1..Len(ledger[k]) :
            /\ explanations[k].kept.outcome = ledger[k][kept]
            /\ Reports(ledger[k], told, explanations[k].replaced.outcome,
                       explanations[k].replaced.overridden)
            /\ k \in raced \/ kept = told
            /\ X!Generating(k) => k \in raced \/ told = Len(ledger[k])

ExplanationInv == L!TypeOK /\ X!TypeOK /\ CallsReport /\ RowsReport

LEMMA ExplanationCalls ==
  ASSUME X!TypeOK
  PROVE  \A c \in Explainers :
            /\ explaining[c] # X!Idle => explaining[c].key \in Decided
            /\ explaining[c].at = "decision" =>
                  /\ explaining[c].outcome \in Outcome
                  /\ explaining[c].overridden \in BOOLEAN
            /\ explaining[c].at = "generated" => explaining[c].row \in X!Row
            /\ explaining[c].at # "idle" => explaining[c] # X!Idle
BY DEF X!TypeOK, X!CallStates, X!Idle

\* What the invariant says of a row is what the property does.
LEMMA ReportsAreEnough ==
  ASSUME ExplanationInv PROVE X!TornOnlyWhenRaced
<1>1. \A k \in Decided : DOMAIN ledger[k] = 1..Len(ledger[k])
  BY DEF ExplanationInv, L!TypeOK
<1> QED
  BY <1>1 DEF ExplanationInv, RowsReport, Reports, X!TornOnlyWhenRaced

\* A ledger that grows at its end reports what it reported.
LEMMA LedgerGrows ==
  ASSUME NEW k \in Decided, ledger \in [Decided -> Seq(Outcome)], NEW o \in Outcome,
         ledger' = [ledger EXCEPT ![k] = Append(@, o)]
  PROVE  /\ ledger' \in [Decided -> Seq(Outcome)]
         /\ \A j \in Decided \ {k} : ledger'[j] = ledger[j]
         /\ Len(ledger'[k]) = Len(ledger[k]) + 1
         /\ \A i \in 1..Len(ledger[k]) :
               i \in 1..Len(ledger'[k]) /\ ledger'[k][i] = ledger[k][i]
<1>1. ledger[k] \in Seq(Outcome) /\ ledger'[k] = Append(ledger[k], o)
  OBVIOUS
<1>2. /\ Append(ledger[k], o) \in Seq(Outcome)
      /\ Len(ledger'[k]) = Len(ledger[k]) + 1
      /\ \A i \in 1..Len(ledger[k]) :
            i \in 1..Len(ledger'[k]) /\ ledger'[k][i] = ledger[k][i]
  BY <1>1
<1> QED
  BY <1>2

\* A decision is taken or overridden; whoever was generating may be late.
LEMMA RecordStep ==
  ASSUME ExplanationInv, NEW k \in Decided, NEW o \in Outcome, L!Record(k, o),
         UNCHANGED ExplanationVars
  PROVE  ExplanationInv'
<1> USE DEF ExplanationInv
<1>1. /\ ledger[k] = <<>> /\ announced' = announced
      /\ ledger' = [ledger EXCEPT ![k] = <<o>>]
      /\ UNCHANGED <<explanations, explaining, raced>>
  BY DEF L!Record, ExplanationVars
<1>2. <<o>> \in Seq(Outcome) /\ \A j \in Decided \ {k} : ledger'[j] = ledger[j]
  BY <1>1 DEF L!TypeOK
<1>3. L!TypeOK' /\ X!TypeOK'
  BY <1>1, <1>2 DEF L!TypeOK, L!Announcement, X!TypeOK
<1>4. 1..Len(ledger[k]) = {}
  BY <1>1
<1>5. CallsReport'
  <2> SUFFICES ASSUME NEW c \in Explainers, explaining[c].at \in {"decision", "generated"}
               PROVE  explaining[c].key \in Decided \ {k}
    BY <1>1, <1>2 DEF CallsReport
  <2>1. explaining[c].key \in Decided
    BY ExplanationCalls
  <2> QED
    BY <1>4, <2>1 DEF CallsReport
<1>6. RowsReport'
  <2> SUFFICES ASSUME NEW j \in Decided, explanations[j] # X!Absent
               PROVE  j # k
    BY <1>1, <1>2 DEF RowsReport, X!Generating
  <2> QED
    BY <1>4 DEF RowsReport
<1> QED
  BY <1>3, <1>5, <1>6

LEMMA OverrideStepKeeps ==
  ASSUME ExplanationInv, NEW k \in Decided, NEW o \in Outcome, OverrideStep(k, o)
  PROVE  ExplanationInv'
<1> USE DEF ExplanationInv
<1>1. /\ announced' = announced
      /\ ledger' = [ledger EXCEPT ![k] = Append(@, o)]
      /\ raced' = IF X!Generating(k) THEN raced \cup {k} ELSE raced
      /\ UNCHANGED <<explanations, explaining>>
  BY DEF OverrideStep, L!Override, X!Overridden
<1>2. /\ ledger' \in [Decided -> Seq(Outcome)]
      /\ \A j \in Decided \ {k} : ledger'[j] = ledger[j]
      /\ Len(ledger'[k]) = Len(ledger[k]) + 1
      /\ \A i \in 1..Len(ledger[k]) :
            i \in 1..Len(ledger'[k]) /\ ledger'[k][i] = ledger[k][i]
  BY <1>1, LedgerGrows DEF L!TypeOK
<1>3. L!TypeOK' /\ X!TypeOK'
  BY <1>1, <1>2 DEF L!TypeOK, L!Announcement, X!TypeOK
<1>4. CallsReport'
  <2> SUFFICES ASSUME NEW c \in Explainers, NEW j \in Decided, j = explaining[c].key,
                      explaining[c].at \in {"decision", "generated"}
               PROVE  /\ explaining[c].at = "decision" =>
                         \E i \in 1..Len(ledger'[j]) :
                            /\ Reports(ledger'[j], i, explaining[c].outcome,
                                       explaining[c].overridden)
                            /\ j \in raced' \/ i = Len(ledger'[j])
                      /\ explaining[c].at = "generated" =>
                         \E i \in 1..Len(ledger'[j]) :
                            /\ explaining[c].row.kept.outcome = ledger'[j][i]
                            /\ Reports(ledger'[j], i, explaining[c].row.replaced.outcome,
                                       explaining[c].row.replaced.overridden)
                            /\ j \in raced' \/ i = Len(ledger'[j])
    BY <1>1, ExplanationCalls DEF CallsReport
  <2>1. CASE j # k
    BY <1>1, <1>2, <2>1 DEF CallsReport
  <2>2. CASE j = k
    <3>1. k \in raced'
      BY <1>1, <2>2, ExplanationCalls DEF X!Generating
    <3>2. ASSUME explaining[c].at = "decision"
          PROVE  \E i \in 1..Len(ledger'[k]) :
                    Reports(ledger'[k], i, explaining[c].outcome, explaining[c].overridden)
      <4>1. PICK i \in 1..Len(ledger[k]) :
                 Reports(ledger[k], i, explaining[c].outcome, explaining[c].overridden)
        BY <2>2, <3>2 DEF CallsReport
      <4> QED
        BY <1>2, <4>1 DEF Reports
    <3>3. ASSUME explaining[c].at = "generated"
          PROVE  \E i \in 1..Len(ledger'[k]) :
                    /\ explaining[c].row.kept.outcome = ledger'[k][i]
                    /\ Reports(ledger'[k], i, explaining[c].row.replaced.outcome,
                               explaining[c].row.replaced.overridden)
      <4>1. PICK i \in 1..Len(ledger[k]) :
                 /\ explaining[c].row.kept.outcome = ledger[k][i]
                 /\ Reports(ledger[k], i, explaining[c].row.replaced.outcome,
                            explaining[c].row.replaced.overridden)
        BY <2>2, <3>3 DEF CallsReport
      <4> QED
        BY <1>2, <4>1 DEF Reports
    <3> QED
      BY <2>2, <3>1, <3>2, <3>3
  <2> QED
    BY <2>1, <2>2
<1>5. RowsReport'
  <2> SUFFICES ASSUME NEW j \in Decided, explanations[j] # X!Absent
               PROVE  \E kept, told \in 1..Len(ledger'[j]) :
                         /\ explanations[j].kept.outcome = ledger'[j][kept]
                         /\ Reports(ledger'[j], told, explanations[j].replaced.outcome,
                                    explanations[j].replaced.overridden)
                         /\ j \in raced' \/ kept = told
                         /\ X!Generating(j) => j \in raced' \/ told = Len(ledger'[j])
    BY <1>1 DEF RowsReport, X!Generating
  <2>1. PICK kept \in 1..Len(ledger[j]), told \in 1..Len(ledger[j]) :
             /\ explanations[j].kept.outcome = ledger[j][kept]
             /\ Reports(ledger[j], told, explanations[j].replaced.outcome,
                        explanations[j].replaced.overridden)
             /\ j \in raced \/ kept = told
             /\ X!Generating(j) => j \in raced \/ told = Len(ledger[j])
    BY DEF RowsReport
  <2>2. CASE j # k
    BY <1>1, <1>2, <2>1, <2>2
  <2>3. CASE j = k
    <3>1. /\ kept \in 1..Len(ledger'[j]) /\ told \in 1..Len(ledger'[j])
          /\ explanations[j].kept.outcome = ledger'[j][kept]
          /\ Reports(ledger'[j], told, explanations[j].replaced.outcome,
                     explanations[j].replaced.overridden)
      BY <1>2, <2>1, <2>3 DEF Reports
    <3>2. (j \in raced' \/ kept = told) /\ (X!Generating(j) => j \in raced')
      BY <1>1, <2>1, <2>3
    <3> QED
      BY <3>1, <3>2
  <2> QED
    BY <2>2, <2>3
<1> QED
  BY <1>3, <1>4, <1>5

\* The steps of a call that store nothing leave every row reporting.
LEMMA CallMoves ==
  ASSUME ExplanationInv, NEW c \in Explainers, NEW next \in X!CallStates,
         explaining' = [explaining EXCEPT ![c] = next],
         UNCHANGED <<ledger, announced, explanations, raced>>,
         next # X!Idle => IF explaining[c] = X!Idle
                          THEN explanations[next.key] = X!Absent
                          ELSE next.key = explaining[c].key,
         next.at = "decision" =>
             \E i \in 1..Len(ledger[next.key]) :
                /\ Reports(ledger[next.key], i, next.outcome, next.overridden)
                /\ i = Len(ledger[next.key]) \/ next.key \in raced,
         next.at = "generated" =>
             \E i \in 1..Len(ledger[next.key]) :
                /\ next.row.kept.outcome = ledger[next.key][i]
                /\ Reports(ledger[next.key], i, next.row.replaced.outcome,
                           next.row.replaced.overridden)
                /\ next.key \in raced \/ i = Len(ledger[next.key])
  PROVE  ExplanationInv'
<1> USE DEF ExplanationInv
<1>1. L!TypeOK' /\ X!TypeOK'
  BY DEF L!TypeOK, L!Announcement, X!TypeOK
<1>2. /\ explaining'[c] = next
      /\ \A d \in Explainers \ {c} : explaining'[d] = explaining[d]
  BY DEF X!TypeOK
<1>3. CallsReport'
  <2> SUFFICES ASSUME NEW d \in Explainers
               PROVE  LET k == explaining'[d].key IN
                      /\ explaining'[d].at = "decision" =>
                           \E i \in 1..Len(ledger[k]) :
                              /\ Reports(ledger[k], i, explaining'[d].outcome,
                                         explaining'[d].overridden)
                              /\ k \in raced \/ i = Len(ledger[k])
                      /\ explaining'[d].at = "generated" =>
                           \E i \in 1..Len(ledger[k]) :
                              /\ explaining'[d].row.kept.outcome = ledger[k][i]
                              /\ Reports(ledger[k], i,
                                         explaining'[d].row.replaced.outcome,
                                         explaining'[d].row.replaced.overridden)
                              /\ k \in raced \/ i = Len(ledger[k])
    BY DEF CallsReport
  <2>1. CASE d = c
    BY <1>2, <2>1
  <2>2. CASE d # c
    BY <1>2, <2>2 DEF CallsReport
  <2> QED
    BY <2>1, <2>2
<1>4. ASSUME NEW k \in Decided, explanations[k] # X!Absent, X!Generating(k)'
      PROVE  X!Generating(k)
  BY <1>2, <1>4 DEF X!Generating
<1>5. RowsReport'
  BY <1>4 DEF RowsReport
<1> QED
  BY <1>1, <1>3, <1>5

LEMMA FetchStep ==
  ASSUME ExplanationInv, NEW c \in Explainers, X!FetchDecision(c), UNCHANGED DecisionVars
  PROVE  ExplanationInv'
<1> USE DEF ExplanationInv
<1>1. explaining[c].at = "miss" /\ explaining[c] # X!Idle /\ explaining[c].key \in Decided
  BY ExplanationCalls DEF X!FetchDecision, X!Idle
<1>2. PICK k \in Decided : k = explaining[c].key
  BY <1>1
<1>3. ledger[k] \in Seq(Outcome) /\ Len(ledger[k]) \in Nat
  BY DEF L!TypeOK
<1>4. UNCHANGED <<ledger, announced, explanations, raced>>
  BY DEF X!FetchDecision, DecisionVars
<1>5. CASE ledger[k] = <<>>
  <2>1. explaining' = [explaining EXCEPT ![c] = X!Idle]
    BY <1>2, <1>5 DEF X!FetchDecision
  <2>2. X!Idle \in X!CallStates /\ X!Idle.at = "idle"
    BY DEF X!CallStates, X!Idle
  <2> QED
    BY <1>4, <2>1, <2>2, CallMoves
<1>6. CASE ledger[k] # <<>>
  <2>1. Len(ledger[k]) \in 1..Len(ledger[k])
    BY <1>3, <1>6
  <2> DEFINE n == Len(ledger[k])
             next == [at |-> "decision", key |-> k, outcome |-> ledger[k][n],
                      overridden |-> n > 1]
  <2>2. explaining' = [explaining EXCEPT ![c] = next]
    BY <1>2, <1>6 DEF X!FetchDecision, X!Last
  <2>3. ledger[k][n] \in Outcome /\ (n > 1) \in BOOLEAN
    BY <1>3, <2>1
  <2>4. next \in X!CallStates
    BY <2>3 DEF X!CallStates
  <2>5. Reports(ledger[k], n, next.outcome, next.overridden)
    BY <2>1 DEF Reports
  <2>6. next.key = k /\ next.at = "decision"
    OBVIOUS
  <2> HIDE DEF next
  <2> QED
    BY <1>1, <1>2, <1>4, <2>1, <2>2, <2>4, <2>5, <2>6, CallMoves
<1> QED
  BY <1>5, <1>6

LEMMA GenerateStep ==
  ASSUME ExplanationInv, NEW c \in Explainers, X!GenerateRow(c), UNCHANGED DecisionVars
  PROVE  ExplanationInv'
<1> USE DEF ExplanationInv
<1>1. /\ explaining[c].at = "decision" /\ explaining[c] # X!Idle
      /\ explaining[c].key \in Decided /\ explaining[c].outcome \in Outcome
      /\ explaining[c].overridden \in BOOLEAN
  BY ExplanationCalls DEF X!GenerateRow, X!Idle
<1>2. PICK k \in Decided, o \in Outcome, over \in BOOLEAN :
           /\ k = explaining[c].key /\ o = explaining[c].outcome
           /\ over = explaining[c].overridden
  BY <1>1
<1>3. PICK named \in BOOLEAN :
           explaining' = [explaining EXCEPT ![c] =
               [at |-> "generated", key |-> k,
                row |-> [kept |-> [outcome |-> o],
                         replaced |-> [outcome |-> o, overridden |-> over,
                                       named |-> named]]]]
  BY <1>2 DEF X!GenerateRow
<1> DEFINE row == [kept |-> [outcome |-> o],
                   replaced |-> [outcome |-> o, overridden |-> over, named |-> named]]
           next == [at |-> "generated", key |-> k, row |-> row]
<1>4. UNCHANGED <<ledger, announced, explanations, raced>>
  BY DEF X!GenerateRow, DecisionVars
<1>5. row \in X!Row
  BY DEF X!Row, X!Kept, X!Replaced
<1>6. next \in X!CallStates
  BY <1>5 DEF X!CallStates
<1>7. PICK i \in 1..Len(ledger[k]) :
           Reports(ledger[k], i, o, over) /\ (k \in raced \/ i = Len(ledger[k]))
  BY <1>1, <1>2 DEF CallsReport
<1>8. /\ next.row.kept.outcome = ledger[k][i]
      /\ Reports(ledger[k], i, next.row.replaced.outcome, next.row.replaced.overridden)
      /\ next.key = k /\ next.at = "generated"
  BY <1>7 DEF Reports
<1>9. explaining' = [explaining EXCEPT ![c] = next]
  BY <1>3
<1> HIDE DEF next
<1> QED
  BY <1>1, <1>2, <1>4, <1>6, <1>7, <1>8, <1>9, CallMoves

\* Upsert keeps the outcome of a row that is there and replaces the rest of it.
LEMMA UpsertStep ==
  ASSUME ExplanationInv, NEW c \in Explainers, X!Upsert(c), UNCHANGED DecisionVars
  PROVE  ExplanationInv'
<1> USE DEF ExplanationInv
<1>1. /\ explaining[c].at = "generated" /\ explaining[c] # X!Idle
      /\ explaining[c].key \in Decided /\ explaining[c].row \in X!Row
  BY ExplanationCalls DEF X!Upsert, X!Idle
<1>2. PICK k \in Decided, row \in X!Row :
           k = explaining[c].key /\ row = explaining[c].row
  BY <1>1
<1>3. PICK new : new = IF explanations[k] = X!Absent THEN row
                       ELSE [explanations[k] EXCEPT !.replaced = row.replaced]
  OBVIOUS
<1>4. /\ explanations' = [explanations EXCEPT ![k] = new]
      /\ explaining' = [explaining EXCEPT ![c] = X!Idle]
      /\ UNCHANGED <<ledger, announced, raced>>
  BY <1>2, <1>3 DEF X!Upsert, DecisionVars, X!TypeOK
<1>5. explanations[k] # X!Absent => explanations[k] \in X!Row
  BY DEF X!TypeOK
<1>6. /\ new \in X!Row
      /\ new.replaced.outcome = row.replaced.outcome
      /\ new.replaced.overridden = row.replaced.overridden
      /\ new.kept.outcome = IF explanations[k] = X!Absent THEN row.kept.outcome
                            ELSE explanations[k].kept.outcome
  BY <1>3, <1>5 DEF X!Row, X!Kept, X!Replaced
<1>7. X!Idle \in X!CallStates /\ X!Idle.at = "idle"
  BY DEF X!CallStates, X!Idle
<1>8. L!TypeOK' /\ X!TypeOK'
  BY <1>4, <1>6, <1>7 DEF L!TypeOK, L!Announcement, X!TypeOK
<1>9. /\ explaining'[c] = X!Idle
      /\ \A d \in Explainers \ {c} : explaining'[d] = explaining[d]
      /\ explanations'[k] = new
      /\ \A j \in Decided \ {k} : explanations'[j] = explanations[j]
  BY <1>4 DEF X!TypeOK
<1>10. CallsReport'
  <2> SUFFICES ASSUME NEW d \in Explainers,
                      explaining'[d].at \in {"decision", "generated"}
               PROVE  explaining'[d] = explaining[d]
    BY <1>4 DEF CallsReport
  <2> QED
    BY <1>7, <1>9
<1>11. PICK i \in 1..Len(ledger[k]) :
            /\ row.kept.outcome = ledger[k][i]
            /\ Reports(ledger[k], i, row.replaced.outcome, row.replaced.overridden)
            /\ k \in raced \/ i = Len(ledger[k])
  BY <1>1, <1>2 DEF CallsReport
<1>12. \A j \in Decided : X!Generating(j)' => X!Generating(j)
  BY <1>9 DEF X!Generating
<1>13. X!Generating(k)
  BY <1>1, <1>2 DEF X!Generating
<1>14. RowsReport'
  <2> SUFFICES ASSUME NEW j \in Decided, explanations'[j] # X!Absent
               PROVE  \E kept, told \in 1..Len(ledger[j]) :
                         /\ explanations'[j].kept.outcome = ledger[j][kept]
                         /\ Reports(ledger[j], told, explanations'[j].replaced.outcome,
                                    explanations'[j].replaced.overridden)
                         /\ j \in raced \/ kept = told
                         /\ X!Generating(j)' => j \in raced \/ told = Len(ledger[j])
    BY <1>4 DEF RowsReport
  <2>1. CASE j # k
    BY <1>9, <1>12, <2>1 DEF RowsReport
  <2>2. CASE j = k /\ explanations[k] = X!Absent
    BY <1>6, <1>9, <1>11, <2>2
  <2>3. CASE j = k /\ explanations[k] # X!Absent
    <3>1. PICK kept \in 1..Len(ledger[k]), told \in 1..Len(ledger[k]) :
               /\ explanations[k].kept.outcome = ledger[k][kept]
               /\ k \in raced \/ kept = told
               /\ k \in raced \/ told = Len(ledger[k])
      BY <1>13, <2>3 DEF RowsReport
    <3>2. k \in raced \/ kept = i
      BY <1>11, <3>1
    <3>3. /\ new.kept.outcome = ledger[k][kept]
          /\ Reports(ledger[k], i, new.replaced.outcome, new.replaced.overridden)
      BY <1>6, <1>11, <2>3, <3>1
    <3> QED
      BY <1>9, <1>11, <2>3, <3>1, <3>2, <3>3
  <2> QED
    BY <2>1, <2>2, <2>3
<1> QED
  BY <1>8, <1>10, <1>14

LEMMA ExplanationStepKeeps ==
  ASSUME ExplanationInv, ExplanationStep PROVE ExplanationInv'
<1> USE DEF ExplanationInv
<1>1. ASSUME NEW c \in Explainers, NEW k \in Decided, X!GetExplanation(c, k),
             UNCHANGED DecisionVars
      PROVE  ExplanationInv'
  <2>1. UNCHANGED <<ledger, announced, explanations, raced>>
    BY <1>1 DEF X!GetExplanation, DecisionVars
  <2>2. CASE UNCHANGED explaining
    BY <2>1, <2>2 DEF L!TypeOK, L!Announcement, X!TypeOK, CallsReport, RowsReport,
       X!Generating
  <2>3. CASE /\ explanations[k] = X!Absent
             /\ explaining' = [explaining EXCEPT ![c] = [at |-> "miss", key |-> k]]
    <3>1. [at |-> "miss", key |-> k] \in X!CallStates
      BY DEF X!CallStates
    <3>2. explaining[c] = X!Idle
      BY <1>1 DEF X!GetExplanation
    <3> QED
      BY <2>1, <2>3, <3>1, <3>2, CallMoves
  <2> QED
    BY <1>1, <2>2, <2>3 DEF X!GetExplanation
<1>2. ASSUME NEW c \in Explainers, X!CallEnds(c), UNCHANGED DecisionVars
      PROVE  ExplanationInv'
  <2>1. X!Idle \in X!CallStates /\ X!Idle.at = "idle"
    BY DEF X!CallStates, X!Idle
  <2> QED
    BY <1>2, <2>1, CallMoves DEF X!CallEnds, DecisionVars
<1> QED
  BY <1>1, <1>2, RecordStep, OverrideStepKeeps, FetchStep, GenerateStep, UpsertStep
  DEF ExplanationStep, X!Next

-----------------------------------------------------------------------------
(* Notifications                                                            *)

\* The senders that Allow will admit: counted within the limit, in this window.
Admissible(k) ==
    {s \in Senders : /\ sender[s] # N!Idle
                     /\ sender[s].key = k
                     /\ sender[s].value <= Limit
                     /\ ~sender[s].lapsed}

\* Those admitted and those about to be are all in the counter, which no one below
\* the limit has left.
CountersHold ==
    \A k \in Channels :
        /\ IsFiniteSet(Admissible(k))
        /\ Len(admitted[k]) + Cardinality(Admissible(k)) <= count[k]
        /\ Len(admitted[k]) + Cardinality(Admissible(k)) <= Limit

\* The admissions of the last window, oldest first; the key outlives each of them
\* by a window, as every attempt pushes its end.
KeyOutlives ==
    \A k \in Channels :
        /\ \A i, j \in 1..Len(admitted[k]) : i < j => admitted[k][i] >= admitted[k][j]
        /\ \A i \in 1..Len(admitted[k]) : ttl[k] + admitted[k][i] >= Window

NotificationInv == N!TypeOK /\ CountersHold /\ KeyOutlives

LEMMA SenderCalls ==
  ASSUME N!TypeOK
  PROVE  \A s \in Senders : sender[s] # N!Idle =>
            /\ sender[s].at = "counted" /\ sender[s].key \in Channels
            /\ sender[s].value \in 1..MaxCount /\ sender[s].lapsed \in BOOLEAN
            /\ sender[s] \in [at : {"counted"}, key : Channels,
                              value : 1..MaxCount, lapsed : BOOLEAN]
BY DEF N!TypeOK, N!Idle

LEMMA RateNumbers ==
  Limit \in Nat /\ Window \in Nat /\ Window > 0 /\ MaxCount \in Nat
BY RateAssumption

LEMMA CardinalityTo ==
  ASSUME NEW n \in Nat
  PROVE  IsFiniteSet(1..n) /\ Cardinality(1..n) = n
<1>1. 1 \in Int /\ n \in Int
  OBVIOUS
<1>2. IsFiniteSet(1..n) /\ Cardinality(1..n) = IF 1 > n THEN 0 ELSE n - 1 + 1
  BY <1>1, FS_Interval
<1> QED
  BY <1>2

LEMMA NCardinality == \A S : N!Cardinality(S) = Cardinality(S)
BY DEF N!Cardinality, Cardinality

\* The admissions that the window has left a tick later.
Left(ages) == Cardinality({i \in DOMAIN ages : ages[i] + 1 >= Window})

\* They are the oldest: the rest are those still in the window.
LEMMA AgedTail ==
  ASSUME NEW ages \in Seq(0..Window - 1),
         \A i, j \in 1..Len(ages) : i < j => ages[i] >= ages[j]
  PROVE  /\ Left(ages) \in 0..Len(ages)
         /\ \A i \in (Left(ages) + 1)..Len(ages) : ages[i] + 1 < Window
         /\ (\A i \in 1..Len(ages) : ages[i] + 1 >= Window) => Left(ages) = Len(ages)
<1> DEFINE old == {i \in DOMAIN ages : ages[i] + 1 >= Window}
           over == Cardinality(old)
<1>1. Window \in Nat \ {0} /\ Len(ages) \in Nat /\ DOMAIN ages = 1..Len(ages)
  BY RateNumbers
<1>2. IsFiniteSet(1..Len(ages)) /\ Cardinality(1..Len(ages)) = Len(ages)
  BY <1>1, CardinalityTo
<1>3. old \subseteq 1..Len(ages)
  BY <1>1
<1>4. IsFiniteSet(old) /\ over <= Len(ages) /\ over \in Nat
  BY <1>2, <1>3, FS_Subset, FS_CardinalityType
<1>5. ASSUME NEW i \in 1..Len(ages), ages[i] + 1 >= Window
      PROVE  i <= over
  <2>1. \A j \in 1..i : j \in 1..Len(ages) /\ (j # i => j < i)
    BY <1>1
  <2>2. \A j \in 1..Len(ages) : ages[j] \in Nat
    BY <1>1
  <2>3. \A j \in 1..i : ages[j] + 1 >= Window
    BY <1>1, <1>5, <2>1, <2>2
  <2>4. 1..i \subseteq old
    BY <1>1, <2>1, <2>3
  <2>5. Cardinality(1..i) <= over
    BY <1>4, <2>4, FS_Subset
  <2>6. Cardinality(1..i) = i
    BY CardinalityTo
  <2> QED
    BY <2>5, <2>6
<1>6. \A i \in (over + 1)..Len(ages) : ages[i] + 1 < Window
  <2> SUFFICES ASSUME NEW i \in (over + 1)..Len(ages) PROVE ages[i] + 1 < Window
    OBVIOUS
  <2>1. i \in 1..Len(ages) /\ ~(i <= over)
    BY <1>1, <1>4
  <2>2. ages[i] \in Nat
    BY <1>1, <2>1
  <2> QED
    BY <1>1, <1>5, <2>1, <2>2
<1>7. ASSUME \A i \in 1..Len(ages) : ages[i] + 1 >= Window
      PROVE  over = Len(ages)
  <2>1. old = 1..Len(ages)
    BY <1>1, <1>7
  <2> QED
    BY <1>2, <2>1
<1> QED
  BY <1>1, <1>4, <1>6, <1>7 DEF Left

\* The admissions a tick later.
LEMMA AgedOnce ==
  ASSUME NEW ages \in Seq(0..Window - 1),
         \A i, j \in 1..Len(ages) : i < j => ages[i] >= ages[j]
  PROVE  /\ N!Aged(ages) \in Seq(0..Window - 1)
         /\ Len(N!Aged(ages)) <= Len(ages)
         /\ \A i, j \in 1..Len(N!Aged(ages)) : i < j => N!Aged(ages)[i] >= N!Aged(ages)[j]
         /\ \A i \in 1..Len(N!Aged(ages)) : \E j \in 1..Len(ages) :
               N!Aged(ages)[i] = ages[j] + 1
         /\ (\A i \in 1..Len(ages) : ages[i] + 1 >= Window) => Len(N!Aged(ages)) = 0
<1> DEFINE over == Left(ages)
           m == Len(ages) - over
           new == [i \in 1..m |-> ages[i + over] + 1]
<1>1. N!Aged(ages) = new
  BY NCardinality DEF N!Aged, Left
<1>2. /\ over \in 0..Len(ages)
      /\ \A i \in (over + 1)..Len(ages) : ages[i] + 1 < Window
      /\ (\A i \in 1..Len(ages) : ages[i] + 1 >= Window) => over = Len(ages)
  BY AgedTail
<1> HIDE DEF over
<1>3. Len(ages) \in Nat /\ over \in Nat /\ over <= Len(ages) /\ m \in Nat
  BY <1>2
<1>4. \A i \in 1..m : new[i] = ages[i + over] + 1
  OBVIOUS
<1>5. DOMAIN new = 1..m /\ new = [i \in 1..m |-> new[i]]
  OBVIOUS
<1> HIDE DEF new
<1>6. ASSUME NEW i \in 1..m
      PROVE  /\ i + over \in 1..Len(ages) /\ i + over \in (over + 1)..Len(ages)
             /\ new[i] = ages[i + over] + 1
             /\ ages[i + over] \in 0..Window - 1
             /\ new[i] \in 0..Window - 1
  <2>1. i + over \in 1..Len(ages) /\ i + over \in (over + 1)..Len(ages)
    BY <1>2, <1>3
  <2>2. new[i] = ages[i + over] + 1
    BY <1>4
  <2>3. PICK v \in 0..Window - 1 : v = ages[i + over]
    BY <2>1, RateNumbers
  <2>4. v + 1 < Window
    BY <1>2, <2>1, <2>3
  <2>5. v + 1 \in 0..Window - 1
    BY <2>4, RateNumbers
  <2> QED
    BY <2>1, <2>2, <2>3, <2>5
<1>7. new \in Seq(0..Window - 1) /\ Len(new) = m
  <2>1. new \in [1..m -> 0..Window - 1]
    BY <1>5, <1>6
  <2>2. PICK n \in Nat : n = m
    BY <1>3
  <2>3. new \in Seq(0..Window - 1)
    BY <2>1, <2>2, SeqDef
  <2> QED
    BY <1>5, <2>2, <2>3, LenProperties
<1>8. ASSUME NEW i \in 1..m, NEW j \in 1..m, i < j
      PROVE  new[i] >= new[j]
  <2>1. /\ i + over \in 1..Len(ages) /\ new[i] = ages[i + over] + 1
        /\ j + over \in 1..Len(ages) /\ new[j] = ages[j + over] + 1
        /\ ages[i + over] \in 0..Window - 1 /\ ages[j + over] \in 0..Window - 1
    BY <1>6
  <2>2. i + over < j + over
    BY <1>2, <1>8
  <2>3. ages[i + over] >= ages[j + over]
    BY <2>1, <2>2
  <2> QED
    BY <2>1, <2>3, RateNumbers
<1>9. m <= Len(ages) /\ (over = Len(ages) => m = 0)
  BY <1>3
<1> HIDE DEF m
<1> QED
  BY <1>1, <1>2, <1>6, <1>7, <1>8, <1>9

LEMMA IncrStep ==
  ASSUME NotificationInv, NEW s \in Senders, NEW k \in Channels, N!Incr(s, k)
  PROVE  NotificationInv'
<1> USE DEF NotificationInv
<1> DEFINE call == [at |-> "counted", key |-> k, value |-> count[k] + 1, lapsed |-> FALSE]
<1>1. /\ sender[s] = N!Idle /\ count[k] < MaxCount
      /\ count' = [count EXCEPT ![k] = @ + 1]
      /\ sender' = [sender EXCEPT ![s] = call]
      /\ UNCHANGED <<ttl, admitted>>
  BY DEF N!Incr
<1>2. /\ count[k] \in 0..MaxCount /\ count[k] + 1 \in 1..MaxCount
      /\ count'[k] = count[k] + 1
      /\ \A j \in Channels \ {k} : count'[j] = count[j]
      /\ sender'[s] = call /\ call # N!Idle
      /\ \A o \in Senders \ {s} : sender'[o] = sender[o]
  BY <1>1, RateNumbers DEF N!TypeOK, N!Idle
<1>3. N!TypeOK'
  BY <1>1, <1>2, RateNumbers DEF N!TypeOK
<1>4. KeyOutlives'
  BY <1>1 DEF KeyOutlives
<1>5. CountersHold'
  <2> SUFFICES ASSUME NEW j \in Channels
               PROVE  /\ IsFiniteSet(Admissible(j)')
                      /\ Len(admitted[j]) + Cardinality(Admissible(j)') <= count'[j]
                      /\ Len(admitted[j]) + Cardinality(Admissible(j)') <= Limit
    BY <1>1 DEF CountersHold
  <2>1. /\ IsFiniteSet(Admissible(j)) /\ Cardinality(Admissible(j)) \in Nat
        /\ Len(admitted[j]) \in Nat /\ count[j] \in Nat
        /\ Len(admitted[j]) + Cardinality(Admissible(j)) <= count[j]
        /\ Len(admitted[j]) + Cardinality(Admissible(j)) <= Limit
    BY FS_CardinalityType, RateNumbers DEF CountersHold, N!TypeOK
  <2>2. s \notin Admissible(j)
    BY <1>1 DEF Admissible
  <2>3. Admissible(j)' = IF j = k /\ count[k] + 1 <= Limit
                         THEN Admissible(j) \cup {s} ELSE Admissible(j)
    BY <1>1, <1>2 DEF Admissible
  <2>4. CASE j = k /\ count[k] + 1 <= Limit
    <3>1. /\ IsFiniteSet(Admissible(j)')
          /\ Cardinality(Admissible(j)') = Cardinality(Admissible(j)) + 1
      BY <2>1, <2>2, <2>3, <2>4, FS_AddElement
    <3> QED
      BY <1>2, <2>1, <2>4, <3>1, RateNumbers
  <2>5. CASE ~(j = k /\ count[k] + 1 <= Limit)
    <3>1. count[j] <= count'[j] /\ count'[j] \in Nat
      BY <1>2, <2>1
    <3> QED
      BY <2>1, <2>3, <2>5, <3>1
  <2> QED
    BY <2>4, <2>5
<1> QED
  BY <1>3, <1>4, <1>5

\* A sender that ends: admitted, refused, or cut off.
LEMMA SenderEnds ==
  ASSUME NotificationInv, NEW s \in Senders, sender[s] # N!Idle,
         sender' = [sender EXCEPT ![s] = N!Idle]
  PROVE  /\ \A j \in Channels : Admissible(j)' = Admissible(j) \ {s}
         /\ \A j \in Channels :
               /\ IsFiniteSet(Admissible(j)')
               /\ Cardinality(Admissible(j)) \in Nat
               /\ Cardinality(Admissible(j)') =
                     IF s \in Admissible(j) THEN Cardinality(Admissible(j)) - 1
                     ELSE Cardinality(Admissible(j))
<1> USE DEF NotificationInv
<1>1. sender'[s] = N!Idle /\ \A o \in Senders \ {s} : sender'[o] = sender[o]
  BY DEF N!TypeOK
<1>2. \A j \in Channels : Admissible(j)' = Admissible(j) \ {s}
  BY <1>1 DEF Admissible
<1>3. \A j \in Channels : IsFiniteSet(Admissible(j))
  BY DEF CountersHold
<1> QED
  BY <1>2, <1>3, FS_RemoveElement, FS_CardinalityType

LEMMA ExpireStep ==
  ASSUME NotificationInv, NEW s \in Senders, N!Expire(s)
  PROVE  NotificationInv'
<1> USE DEF NotificationInv
<1>1. sender[s] # N!Idle /\ sender[s].key \in Channels
  BY SenderCalls DEF N!Expire
<1>2. PICK k \in Channels : k = sender[s].key
  BY <1>1
<1> DEFINE admit == sender[s].value <= Limit /\ ~sender[s].lapsed
<1>3. /\ ttl' = [ttl EXCEPT ![k] = IF count[k] > 0 THEN Window ELSE @]
      /\ admitted' = [admitted EXCEPT ![k] = IF admit THEN Append(@, 0) ELSE @]
      /\ sender' = [sender EXCEPT ![s] = N!Idle]
      /\ count' = count
  BY <1>2 DEF N!Expire
<1>4. \A j \in Channels : /\ count[j] \in 0..MaxCount /\ ttl[j] \in 0..Window
                          /\ admitted[j] \in Seq(0..Window - 1)
                          /\ Len(admitted[j]) \in Nat
  BY DEF N!TypeOK
<1>5. admit <=> s \in Admissible(k)
  BY <1>1, <1>2 DEF Admissible
<1>6. \A j \in Channels \ {k} : s \notin Admissible(j)
  BY <1>2 DEF Admissible
<1>7. /\ ttl'[k] = IF count[k] > 0 THEN Window ELSE ttl[k]
      /\ admitted'[k] = IF admit THEN Append(admitted[k], 0) ELSE admitted[k]
      /\ \A j \in Channels \ {k} : ttl'[j] = ttl[j] /\ admitted'[j] = admitted[j]
  BY <1>3 DEF N!TypeOK
<1>8. 0 \in 0..Window - 1 /\ Window \in Nat \ {0} /\ MaxCount \in Nat
  BY RateNumbers
<1>9. /\ Append(admitted[k], 0) \in Seq(0..Window - 1)
      /\ Len(Append(admitted[k], 0)) = Len(admitted[k]) + 1
      /\ \A i \in 1..Len(admitted[k]) : Append(admitted[k], 0)[i] = admitted[k][i]
      /\ Append(admitted[k], 0)[Len(admitted[k]) + 1] = 0
  BY <1>4, <1>8
<1>10. N!TypeOK'
  <2>1. admitted'[k] \in Seq(0..Window - 1) /\ ttl'[k] \in 0..Window
    <3>1. admitted'[k] \in {Append(admitted[k], 0), admitted[k]}
      BY <1>7
    <3>2. ttl'[k] \in {Window, ttl[k]} /\ Window \in 0..Window
      BY <1>7, <1>8
    <3> QED
      BY <1>4, <1>9, <3>1, <3>2
  <2>2. admitted' \in [Channels -> Seq(0..Window - 1)] /\ ttl' \in [Channels -> 0..Window]
    BY <1>3, <1>7, <2>1 DEF N!TypeOK
  <2>3. \A j \in Channels : ttl'[j] > 0 => count'[j] > 0
    BY <1>3, <1>7, <1>8 DEF N!TypeOK
  <2> QED
    BY <1>3, <2>2, <2>3 DEF N!TypeOK
<1>11. /\ IsFiniteSet(Admissible(k)') /\ Cardinality(Admissible(k)) \in Nat
       /\ Cardinality(Admissible(k)') =
             IF admit THEN Cardinality(Admissible(k)) - 1 ELSE Cardinality(Admissible(k))
       /\ \A j \in Channels \ {k} : Admissible(j)' = Admissible(j)
  <2>1. /\ \A j \in Channels : Admissible(j)' = Admissible(j) \ {s}
        /\ IsFiniteSet(Admissible(k)') /\ Cardinality(Admissible(k)) \in Nat
        /\ Cardinality(Admissible(k)') =
              IF s \in Admissible(k) THEN Cardinality(Admissible(k)) - 1
              ELSE Cardinality(Admissible(k))
    BY <1>1, <1>3, SenderEnds
  <2>2. \A j \in Channels \ {k} : Admissible(j) \ {s} = Admissible(j)
    BY <1>6
  <2> QED
    BY <1>5, <2>1, <2>2
<1>12. CountersHold'
  <2> SUFFICES ASSUME NEW j \in Channels
               PROVE  /\ IsFiniteSet(Admissible(j)')
                      /\ Len(admitted'[j]) + Cardinality(Admissible(j)') <= count[j]
                      /\ Len(admitted'[j]) + Cardinality(Admissible(j)') <= Limit
    BY <1>3 DEF CountersHold
  <2>1. CASE j # k
    BY <1>7, <1>11, <2>1 DEF CountersHold
  <2>2. CASE j = k
    <3>1. Len(admitted'[k]) + Cardinality(Admissible(k)')
             = Len(admitted[k]) + Cardinality(Admissible(k))
      <4>1. CASE admit
        <5>1. /\ Len(admitted'[k]) = Len(admitted[k]) + 1
              /\ Cardinality(Admissible(k)') = Cardinality(Admissible(k)) - 1
              /\ Len(admitted[k]) \in Nat /\ Cardinality(Admissible(k)) \in Nat
          BY <1>4, <1>7, <1>9, <1>11, <4>1
        <5> QED
          BY <5>1
      <4>2. CASE ~admit
        BY <1>4, <1>7, <1>11, <4>2
      <4> QED
        BY <4>1, <4>2
    <3> QED
      BY <1>11, <2>2, <3>1 DEF CountersHold
  <2> QED
    BY <2>1, <2>2
<1>13. admit => count[k] > 0
  <2> SUFFICES ASSUME s \in Admissible(k) PROVE count[k] > 0
    BY <1>5
  <2>1. IsFiniteSet(Admissible(k)) /\ Cardinality(Admissible(k)) # 0
    BY FS_EmptySet DEF CountersHold
  <2> QED
    BY <1>4, <1>8, <1>11, <2>1 DEF CountersHold
<1>14. KeyOutlives'
  <2> SUFFICES ASSUME NEW j \in Channels
               PROVE  /\ \A i, l \in 1..Len(admitted'[j]) :
                            i < l => admitted'[j][i] >= admitted'[j][l]
                      /\ \A i \in 1..Len(admitted'[j]) :
                            ttl'[j] + admitted'[j][i] >= Window
    BY DEF KeyOutlives
  <2>1. CASE j # k
    BY <1>7, <2>1 DEF KeyOutlives
  <2>2. \A i \in 1..Len(admitted[k]) : admitted[k][i] \in Nat
    BY <1>4, RateNumbers, ElementOfSeq
  <2>3. CASE j = k /\ admit
    <3>1. ttl'[k] = Window /\ admitted'[k] = Append(admitted[k], 0)
      BY <1>7, <1>13, <2>3
    <3>2. \A i \in 1..(Len(admitted[k]) + 1) : admitted'[k][i] \in Nat
      BY <1>4, <1>9, <2>2, <3>1
    <3>3. \A i \in 1..(Len(admitted[k]) + 1) : Window + admitted'[k][i] >= Window
      BY <1>8, <3>2
    <3>4. ASSUME NEW i \in 1..(Len(admitted[k]) + 1),
                 NEW l \in 1..(Len(admitted[k]) + 1), i < l
          PROVE  admitted'[k][i] >= admitted'[k][l]
      <4>1. i \in 1..Len(admitted[k])
        BY <1>4, <3>4
      <4>2. CASE l = Len(admitted[k]) + 1
        BY <1>9, <2>2, <3>1, <4>1, <4>2
      <4>3. CASE l \in 1..Len(admitted[k])
        BY <1>9, <3>1, <3>4, <4>1, <4>3 DEF KeyOutlives
      <4> QED
        BY <1>4, <4>2, <4>3
    <3> QED
      BY <1>9, <2>3, <3>1, <3>3, <3>4
  <2>4. CASE j = k /\ ~admit
    <3>1. admitted'[k] = admitted[k] /\ ttl'[k] \in Nat /\ ttl'[k] >= ttl[k]
      BY <1>4, <1>7, <1>8, <2>4
    <3> QED
      <4>1. ASSUME NEW i \in 1..Len(admitted[k])
            PROVE  ttl'[k] + admitted[k][i] >= Window
        <5>1. admitted[k][i] \in Nat /\ ttl[k] \in Nat /\ ttl'[k] \in Nat
          BY <1>4, <1>8, <2>2, <3>1
        <5>2. ttl[k] + admitted[k][i] >= Window
          BY DEF KeyOutlives
        <5> QED
          BY <1>8, <3>1, <5>1, <5>2
      <4> QED
        BY <2>4, <3>1, <4>1 DEF KeyOutlives
  <2> QED
    BY <2>1, <2>3, <2>4
<1> QED
  BY <1>10, <1>12, <1>14

LEMMA BreaksStep ==
  ASSUME NotificationInv, NEW s \in Senders, N!PipelineBreaks(s)
  PROVE  NotificationInv'
<1> USE DEF NotificationInv
<1>1. /\ sender[s] # N!Idle /\ sender' = [sender EXCEPT ![s] = N!Idle]
      /\ UNCHANGED <<count, ttl, admitted>>
  BY DEF N!PipelineBreaks
<1>2. N!TypeOK' /\ KeyOutlives'
  BY <1>1 DEF N!TypeOK, KeyOutlives
<1>3. CountersHold'
  <2> SUFFICES ASSUME NEW j \in Channels
               PROVE  /\ IsFiniteSet(Admissible(j)')
                      /\ Len(admitted[j]) + Cardinality(Admissible(j)') <= count[j]
                      /\ Len(admitted[j]) + Cardinality(Admissible(j)') <= Limit
    BY <1>1 DEF CountersHold
  <2>1. /\ IsFiniteSet(Admissible(j)') /\ Cardinality(Admissible(j)) \in Nat
        /\ Cardinality(Admissible(j)') \in {Cardinality(Admissible(j)) - 1,
                                            Cardinality(Admissible(j))}
    BY <1>1, SenderEnds
  <2>2. /\ Len(admitted[j]) \in Nat /\ count[j] \in Nat /\ Limit \in Nat
        /\ Len(admitted[j]) + Cardinality(Admissible(j)) <= count[j]
        /\ Len(admitted[j]) + Cardinality(Admissible(j)) <= Limit
    BY RateNumbers DEF CountersHold, N!TypeOK
  <2> QED
    BY <2>1, <2>2
<1> QED
  BY <1>2, <1>3

\* When a key's time is up its last admission is a window old, and the senders that
\* were counted in it are lapsed.
LEMMA TickStep ==
  ASSUME NotificationInv, N!Tick
  PROVE  NotificationInv'
<1> USE DEF NotificationInv
<1> DEFINE gone == {k \in Channels : ttl[k] = 1}
<1>1. /\ ttl' = [k \in Channels |-> IF ttl[k] = 0 THEN 0 ELSE ttl[k] - 1]
      /\ count' = [k \in Channels |-> IF k \in gone THEN 0 ELSE count[k]]
      /\ sender' = [s \in Senders |->
                      IF sender[s] # N!Idle /\ sender[s].key \in gone
                      THEN [sender[s] EXCEPT !.lapsed = TRUE] ELSE sender[s]]
      /\ admitted' = [k \in Channels |-> N!Aged(admitted[k])]
  BY DEF N!Tick
<1>2. \A k \in Channels :
         /\ count[k] \in 0..MaxCount /\ ttl[k] \in 0..Window
         /\ ttl[k] > 0 => count[k] > 0
         /\ admitted[k] \in Seq(0..Window - 1)
         /\ Len(admitted[k]) \in Nat
         /\ \A i, j \in 1..Len(admitted[k]) : i < j => admitted[k][i] >= admitted[k][j]
         /\ \A i \in 1..Len(admitted[k]) : ttl[k] + admitted[k][i] >= Window
  BY DEF N!TypeOK, KeyOutlives
<1>3. \A k \in Channels : \A i \in 1..Len(admitted[k]) : admitted[k][i] \in 0..Window - 1
  BY <1>2, ElementOfSeq
<1>4. \A k \in Channels :
         /\ admitted'[k] \in Seq(0..Window - 1)
         /\ Len(admitted'[k]) <= Len(admitted[k])
         /\ Len(admitted'[k]) \in Nat
         /\ \A i, j \in 1..Len(admitted'[k]) : i < j => admitted'[k][i] >= admitted'[k][j]
         /\ \A i \in 1..Len(admitted'[k]) : \E j \in 1..Len(admitted[k]) :
               admitted'[k][i] = admitted[k][j] + 1
         /\ (\A i \in 1..Len(admitted[k]) : admitted[k][i] + 1 >= Window) =>
               Len(admitted'[k]) = 0
  <2> SUFFICES ASSUME NEW k \in Channels, NEW ages, ages = admitted[k]
      PROVE  /\ N!Aged(ages) \in Seq(0..Window - 1)
             /\ Len(N!Aged(ages)) <= Len(ages)
             /\ Len(N!Aged(ages)) \in Nat
             /\ \A i, j \in 1..Len(N!Aged(ages)) :
                   i < j => N!Aged(ages)[i] >= N!Aged(ages)[j]
             /\ \A i \in 1..Len(N!Aged(ages)) : \E j \in 1..Len(ages) :
                   N!Aged(ages)[i] = ages[j] + 1
             /\ (\A i \in 1..Len(ages) : ages[i] + 1 >= Window) =>
                   Len(N!Aged(ages)) = 0
    BY <1>1
  <2>1. /\ ages \in Seq(0..Window - 1)
        /\ \A i, j \in 1..Len(ages) : i < j => ages[i] >= ages[j]
    BY <1>2
  <2>2. N!Aged(ages) \in Seq(0..Window - 1)
    BY <2>1, AgedOnce
  <2>3. Len(N!Aged(ages)) \in Nat
    BY <2>2, LenProperties
  <2> QED
    BY <2>1, <2>3, AgedOnce
<1>5. ASSUME NEW k \in Channels, ttl[k] \in {0, 1}
      PROVE  Len(admitted'[k]) = 0
  <2>1. ASSUME NEW i \in 1..Len(admitted[k]) PROVE admitted[k][i] + 1 >= Window
    <3>1. /\ admitted[k][i] \in Nat /\ ttl[k] + admitted[k][i] >= Window
      BY <1>2, <1>3, RateNumbers
    <3> QED
      BY <1>5, <3>1, RateNumbers
  <2> QED
    BY <1>4, <2>1
<1>6. N!TypeOK'
  <2>1. \A k \in Channels : /\ ttl'[k] \in 0..Window /\ count'[k] \in 0..MaxCount
                            /\ ttl'[k] > 0 => count'[k] > 0
    <3> SUFFICES ASSUME NEW k \in Channels
                 PROVE  /\ ttl'[k] \in 0..Window /\ count'[k] \in 0..MaxCount
                        /\ ttl'[k] > 0 => count'[k] > 0
      OBVIOUS
    <3>1. /\ ttl'[k] = IF ttl[k] = 0 THEN 0 ELSE ttl[k] - 1
          /\ count'[k] = IF ttl[k] = 1 THEN 0 ELSE count[k]
          /\ count[k] \in 0..MaxCount /\ ttl[k] \in 0..Window
          /\ ttl[k] > 0 => count[k] > 0
      BY <1>1, <1>2
    <3> QED
      BY <3>1, RateNumbers
  <2>2. \A s \in Senders : sender'[s] \in
           {N!Idle} \cup [at : {"counted"}, key : Channels,
                         value : 1..MaxCount, lapsed : BOOLEAN]
    <3> SUFFICES ASSUME NEW s \in Senders
                 PROVE  sender'[s] \in {N!Idle} \cup
                           [at : {"counted"}, key : Channels,
                            value : 1..MaxCount, lapsed : BOOLEAN]
      OBVIOUS
    <3>1. sender'[s] = IF sender[s] # N!Idle /\ sender[s].key \in gone
                       THEN [sender[s] EXCEPT !.lapsed = TRUE] ELSE sender[s]
      BY <1>1
    <3>2. CASE sender[s] # N!Idle /\ sender[s].key \in gone
      <4>1. sender[s] \in [at : {"counted"}, key : Channels,
                           value : 1..MaxCount, lapsed : BOOLEAN]
        BY <3>2, SenderCalls
      <4>2. [sender[s] EXCEPT !.lapsed = TRUE] \in
               [at : {"counted"}, key : Channels, value : 1..MaxCount, lapsed : BOOLEAN]
        BY <4>1
      <4> QED
        BY <3>1, <3>2, <4>2
    <3>3. CASE ~(sender[s] # N!Idle /\ sender[s].key \in gone)
      BY <3>1, <3>3 DEF N!TypeOK
    <3> QED
      BY <3>2, <3>3
  <2> QED
    BY <1>1, <1>4, <2>1, <2>2 DEF N!TypeOK
<1>7. \A k \in Channels \ gone : Admissible(k)' = Admissible(k)
  <2> SUFFICES ASSUME NEW k \in Channels \ gone, NEW s \in Senders
               PROVE  (/\ sender'[s] # N!Idle /\ sender'[s].key = k
                       /\ sender'[s].value <= Limit /\ ~sender'[s].lapsed) <=>
                      (/\ sender[s] # N!Idle /\ sender[s].key = k
                       /\ sender[s].value <= Limit /\ ~sender[s].lapsed)
    BY DEF Admissible
  <2>1. CASE sender[s] # N!Idle /\ sender[s].key \in gone
    <3>1. sender'[s] = [sender[s] EXCEPT !.lapsed = TRUE]
      BY <1>1, <2>1
    <3>2. sender[s] \in [at : {"counted"}, key : Channels,
                         value : 1..MaxCount, lapsed : BOOLEAN]
      BY <2>1, SenderCalls
    <3>3. sender'[s].key = sender[s].key
      BY <3>1, <3>2
    <3> QED
      BY <2>1, <3>3
  <2>2. CASE ~(sender[s] # N!Idle /\ sender[s].key \in gone)
    <3>1. sender'[s] = sender[s]
      BY <1>1, <2>2
    <3> QED
      BY <3>1
  <2> QED
    BY <2>1, <2>2
<1>8. \A k \in gone : Admissible(k)' = {}
  <2> SUFFICES ASSUME NEW k \in gone, NEW s \in Senders,
                      sender'[s] # N!Idle, sender'[s].key = k, ~sender'[s].lapsed
               PROVE  FALSE
    BY DEF Admissible
  <2>1. CASE sender[s] # N!Idle /\ sender[s].key \in gone
    <3>1. sender'[s] = [sender[s] EXCEPT !.lapsed = TRUE]
      BY <1>1, <2>1
    <3>2. sender[s] \in [at : {"counted"}, key : Channels,
                         value : 1..MaxCount, lapsed : BOOLEAN]
      BY <2>1, SenderCalls
    <3>3. sender'[s].lapsed = TRUE
      BY <3>1, <3>2
    <3> QED
      BY <3>3
  <2>2. CASE ~(sender[s] # N!Idle /\ sender[s].key \in gone)
    <3>1. sender'[s] = sender[s]
      BY <1>1, <2>2
    <3> QED
      BY <2>2, <3>1
  <2> QED
    BY <2>1, <2>2
<1>9. CountersHold'
  <2> SUFFICES ASSUME NEW k \in Channels
               PROVE  /\ IsFiniteSet(Admissible(k)')
                      /\ Len(admitted'[k]) + Cardinality(Admissible(k)') <= count'[k]
                      /\ Len(admitted'[k]) + Cardinality(Admissible(k)') <= Limit
    BY DEF CountersHold
  <2>1. CASE k \in gone
    <3>1. Admissible(k)' = {} /\ Len(admitted'[k]) = 0 /\ count'[k] = 0
      BY <1>1, <1>5, <1>8, <2>1
    <3>2. IsFiniteSet(Admissible(k)') /\ Cardinality(Admissible(k)') = 0
      BY <3>1, FS_EmptySet
    <3> QED
      BY <3>1, <3>2, RateNumbers
  <2>2. CASE k \notin gone
    <3>1. Admissible(k)' = Admissible(k) /\ count'[k] = count[k]
      BY <1>1, <1>7, <2>2
    <3>2. /\ IsFiniteSet(Admissible(k)) /\ Cardinality(Admissible(k)) \in Nat
          /\ Len(admitted[k]) \in Nat /\ Len(admitted'[k]) \in Nat
          /\ Len(admitted'[k]) <= Len(admitted[k])
          /\ count[k] \in Nat /\ Limit \in Nat
          /\ Len(admitted[k]) + Cardinality(Admissible(k)) <= count[k]
          /\ Len(admitted[k]) + Cardinality(Admissible(k)) <= Limit
      BY <1>2, <1>4, FS_CardinalityType, RateNumbers DEF CountersHold
    <3> QED
      BY <3>1, <3>2
  <2> QED
    BY <2>1, <2>2
<1>10. KeyOutlives'
  <2> SUFFICES ASSUME NEW k \in Channels, NEW i \in 1..Len(admitted'[k])
               PROVE  ttl'[k] + admitted'[k][i] >= Window
    BY <1>4 DEF KeyOutlives
  <2>1. ttl[k] \notin {0, 1}
    BY <1>5
  <2>2. PICK j \in 1..Len(admitted[k]) : admitted'[k][i] = admitted[k][j] + 1
    BY <1>4
  <2>3. /\ ttl'[k] = ttl[k] - 1 /\ ttl[k] \in Nat
        /\ admitted[k][j] \in Nat /\ ttl[k] + admitted[k][j] >= Window
    BY <1>1, <1>2, <1>3, <2>1, RateNumbers
  <2> QED
    BY <2>2, <2>3, RateNumbers
<1> QED
  BY <1>6, <1>9, <1>10

LEMMA NotificationStepKeeps ==
  ASSUME NotificationInv, N!Next PROVE NotificationInv'
BY IncrStep, ExpireStep, BreaksStep, TickStep DEF N!Next

LEMMA CountsAreEnough ==
  ASSUME NotificationInv PROVE N!RateWindowBounded
<1> SUFFICES ASSUME NEW k \in Channels PROVE Len(admitted[k]) <= Limit
  BY DEF N!RateWindowBounded
<1>1. /\ Cardinality(Admissible(k)) \in Nat /\ Len(admitted[k]) \in Nat
      /\ Len(admitted[k]) + Cardinality(Admissible(k)) <= Limit
  BY FS_CardinalityType DEF NotificationInv, CountersHold, N!TypeOK
<1> QED
  BY <1>1, RateNumbers

-----------------------------------------------------------------------------
(* Listings                                                                 *)

\* The listed rows that stand before row x.
Before(x) == {r \in P!Listed : place[r] < place[x]}

\* The rows a walk answers for keep a place of their own, and each of them is seen
\* or on a page to come. (Of logs only if the pages asked for are below the cap.)
WalkHolds ==
    walk # P!NoWalk =>
        \A x \in walk.watched :
            /\ x \in P!Distinct(P!Listed)
            /\ (listing = "logs" => walk.size <= MaxPage) =>
                  \/ x \in walk.seen
                  \/ walk.at = "paging" /\ walk.offset <= Cardinality(Before(x))

ListingInv == P!TypeOK /\ IsFiniteSet(P!Listed) /\ WalkHolds

LEMMA PCardinality == \A S : P!Cardinality(S) = Cardinality(S)
BY DEF P!Cardinality, Cardinality

LEMMA PageNumbers ==
  /\ Places \subseteq Nat /\ 0 \notin Places
  /\ Sizes \subseteq Nat /\ MaxPage \in Nat
BY PlacesAssumption

\* A walk is a record of its fields.
LEMMA WalkFields ==
  ASSUME P!TypeOK, walk # P!NoWalk
  PROVE  /\ walk \in [at : {"paging", "ended"}, size : Sizes, offset : Nat,
                     seen : SUBSET Rows, watched : SUBSET Rows]
         /\ walk.at \in {"paging", "ended"} /\ walk.size \in Sizes
         /\ walk.offset \in Nat /\ walk.seen \subseteq Rows
         /\ walk.watched \subseteq Rows
BY DEF P!TypeOK

LEMMA PlaceNumbers ==
  ASSUME P!TypeOK PROVE \A r \in Rows : place[r] \in Nat
<1>1. Places \cup {0} \subseteq Nat
  BY PageNumbers
<1> QED
  BY <1>1 DEF P!TypeOK

\* A query lists every row that meets the filter, and one that shares its place
\* with no other right after those before it.
LEMMA OrderRanks ==
  ASSUME P!TypeOK, IsFiniteSet(P!Listed), NEW order \in P!Orders
  PROVE  /\ order \in Seq(P!Listed)
         /\ Len(order) \in Nat /\ DOMAIN order = 1..Len(order)
         /\ \A x \in P!Distinct(P!Listed) : \E i \in 1..Len(order) :
               order[i] = x /\ Cardinality(Before(x)) = i - 1
<1>1. PICK n : n = Cardinality(P!Listed)
  OBVIOUS
<1>2. n \in Nat
  BY <1>1, FS_CardinalityType
<1>3. /\ order \in [1..n -> P!Listed]
      /\ \A i, j \in 1..n : i # j => order[i] # order[j]
      /\ \A i, j \in DOMAIN order : i < j => place[order[i]] <= place[order[j]]
  BY <1>1, PCardinality DEF P!Orders, P!SetToSeqs
<1>4. order \in Seq(P!Listed)
  BY <1>2, <1>3, SeqDef
<1>5. Len(order) = n /\ DOMAIN order = 1..n
  BY <1>2, <1>3, <1>4, LenProperties
<1>6. order \in Injection(1..n, P!Listed)
  BY <1>3 DEF Injection, IsInjective
<1>7. order \in Surjection(1..n, P!Listed)
  BY <1>1, <1>2, <1>6, CardinalityTo, FS_Injection
<1>8. ASSUME NEW x \in P!Distinct(P!Listed)
      PROVE  \E i \in 1..n : order[i] = x /\ Cardinality(Before(x)) = i - 1
  <2>1. x \in P!Listed /\ \A r \in P!Listed \ {x} : place[r] # place[x]
    BY <1>8 DEF P!Distinct
  <2>2. PICK i \in 1..n : order[i] = x
    BY <1>7, <2>1 DEF Surjection
  <2>3. \A r \in P!Listed : place[r] \in Nat
    BY PlaceNumbers DEF P!Listed
  <2>4. \A j \in 1..n : place[order[j]] \in Nat /\ order[j] \in P!Listed
    BY <1>3, <2>3
  <2>5. \A j \in 1..n : j < i <=> order[j] \in Before(x)
    <3> SUFFICES ASSUME NEW j \in 1..n
                 PROVE  j < i <=> place[order[j]] < place[x]
      BY <2>4 DEF Before
    <3>1. CASE j < i
      <4>1. place[order[j]] <= place[x] /\ order[j] # x
        BY <1>3, <1>5, <2>2, <3>1
      <4> QED
        BY <2>1, <2>3, <2>4, <3>1, <4>1
    <3>2. CASE j = i
      BY <2>1, <2>2, <2>3, <3>2
    <3>3. CASE i < j
      <4>1. place[x] <= place[order[j]]
        BY <1>3, <1>5, <2>2, <3>3
      <4> QED
        BY <1>2, <2>1, <2>3, <2>4, <3>3, <4>1
    <3> QED
      BY <1>2, <3>1, <3>2, <3>3
  <2>6. i - 1 \in Nat /\ 1..(i - 1) \subseteq 1..n /\ \A j \in 1..n : j < i <=> j \in 1..(i - 1)
    BY <1>2
  <2> DEFINE first == [j \in 1..(i - 1) |-> order[j]]
  <2>7. first \in Bijection(1..(i - 1), Before(x))
    <3>1. first \in [1..(i - 1) -> Before(x)]
      BY <2>5, <2>6
    <3>2. \A j, l \in 1..(i - 1) : first[j] = first[l] => j = l
      BY <1>3, <2>6
    <3>3. ASSUME NEW r \in Before(x) PROVE \E j \in 1..(i - 1) : first[j] = r
      <4>1. PICK j \in 1..n : order[j] = r
        BY <1>7 DEF Surjection, Before
      <4>2. j \in 1..(i - 1)
        BY <2>5, <2>6, <4>1
      <4> QED
        BY <4>1, <4>2
    <3> QED
      BY <3>1, <3>2, <3>3 DEF Bijection, Injection, Surjection, IsInjective
  <2>8. ExistsBijection(1..(i - 1), Before(x))
    BY <2>7 DEF ExistsBijection
  <2>9. IsFiniteSet(1..(i - 1)) /\ Cardinality(1..(i - 1)) = i - 1
    BY <2>6, CardinalityTo
  <2>10. Cardinality(Before(x)) = i - 1
    BY <2>8, <2>9, FS_Bijection
  <2> QED
    BY <2>2, <2>10
<1> QED
  BY <1>2, <1>4, <1>5, <1>8

LEMMA InsertRowStep ==
  ASSUME ListingInv, NEW r \in Rows, NEW p \in Places, P!InsertRow(r, p)
  PROVE  ListingInv'
<1> USE DEF ListingInv
<1>1. /\ place[r] = 0 /\ p # 0 /\ p \in Places
      /\ place' = [place EXCEPT ![r] = p] /\ listing' = listing
      /\ place'[r] = p
      /\ \A x \in Rows \ {r} : place'[x] = place[x]
  BY PageNumbers DEF P!InsertRow, P!TypeOK
<1>2. P!Listed' = P!Listed \cup {r} /\ r \notin P!Listed /\ P!Listed \subseteq Rows
  BY <1>1 DEF P!Listed
<1>3. IsFiniteSet(P!Listed')
  BY <1>2, FS_AddElement
<1>4. CASE walk = P!NoWalk
  <2>1. walk' = P!NoWalk
    BY <1>4 DEF P!InsertRow
  <2> QED
    BY <1>1, <1>3, <2>1 DEF P!TypeOK, WalkHolds
<1>5. CASE walk # P!NoWalk
  <2> DEFINE kept == {x \in walk.watched : place[x] # p}
  <2>1. /\ walk' = [walk EXCEPT !.watched = kept]
        /\ kept \subseteq Rows
    BY <1>5, WalkFields DEF P!InsertRow
  <2>2. /\ walk'.watched = kept /\ walk'.seen = walk.seen /\ walk'.at = walk.at
        /\ walk'.offset = walk.offset /\ walk'.size = walk.size
        /\ walk' \in [at : {"paging", "ended"}, size : Sizes, offset : Nat,
                     seen : SUBSET Rows, watched : SUBSET Rows]
    BY <1>5, <2>1, WalkFields
  <2>3. P!TypeOK'
    BY <1>1, <2>2 DEF P!TypeOK
  <2>4. WalkHolds'
    <3> SUFFICES ASSUME NEW x \in kept
                 PROVE  /\ x \in P!Distinct(P!Listed)'
                        /\ (listing = "logs" => walk.size <= MaxPage) =>
                              \/ x \in walk.seen
                              \/ walk.at = "paging" /\ walk.offset <= Cardinality(Before(x)')
      BY <1>1, <2>2 DEF WalkHolds, Before, P!Listed
    <3>1. /\ x \in P!Listed /\ x # r /\ place'[x] = place[x] /\ place[x] # p
          /\ \A o \in P!Listed \ {x} : place[o] # place[x]
      BY <1>1, <1>2, <1>5 DEF WalkHolds, P!Distinct
    <3>2. x \in P!Distinct(P!Listed)'
      <4>1. x \in P!Listed' /\ \A o \in P!Listed' \ {x} : place'[o] # place'[x]
        BY <1>1, <1>2, <3>1
      <4> QED
        BY <4>1 DEF P!Distinct
    <3>3. Before(x) \subseteq Before(x)'
      BY <1>1, <1>2, <3>1 DEF Before
    <3>4. IsFiniteSet(Before(x)')
      BY <1>3, FS_Subset DEF Before
    <3>5. /\ Cardinality(Before(x)) <= Cardinality(Before(x)')
          /\ Cardinality(Before(x)) \in Nat /\ Cardinality(Before(x)') \in Nat
      BY <3>3, <3>4, FS_Subset, FS_CardinalityType
    <3> QED
      BY <1>5, <3>2, <3>5, WalkFields DEF WalkHolds
  <2> QED
    BY <1>3, <2>3, <2>4
<1> QED
  BY <1>4, <1>5

LEMMA LeaveFilterStep ==
  ASSUME ListingInv, NEW r \in Rows, P!LeaveFilter(r)
  PROVE  ListingInv'
<1> USE DEF ListingInv
<1>1. /\ place[r] # 0
      /\ place' = [place EXCEPT ![r] = 0] /\ listing' = listing
      /\ place'[r] = 0
      /\ \A x \in Rows \ {r} : place'[x] = place[x]
  BY DEF P!LeaveFilter, P!TypeOK
<1>2. P!Listed' = P!Listed \ {r} /\ r \in P!Listed /\ P!Listed \subseteq Rows
  BY <1>1 DEF P!Listed
<1>3. IsFiniteSet(P!Listed')
  BY <1>2, FS_Subset
<1>4. CASE walk = P!NoWalk
  <2>1. walk' = P!NoWalk
    BY <1>4 DEF P!LeaveFilter
  <2> QED
    BY <1>1, <1>3, <2>1 DEF P!TypeOK, WalkHolds
<1>5. CASE walk # P!NoWalk
  <2> DEFINE kept == {x \in walk.watched : place[x] < place[r]}
  <2>1. /\ walk' = [walk EXCEPT !.watched = kept]
        /\ kept \subseteq Rows
    BY <1>5, WalkFields DEF P!LeaveFilter
  <2>2. /\ walk'.watched = kept /\ walk'.seen = walk.seen /\ walk'.at = walk.at
        /\ walk'.offset = walk.offset /\ walk'.size = walk.size
        /\ walk' \in [at : {"paging", "ended"}, size : Sizes, offset : Nat,
                     seen : SUBSET Rows, watched : SUBSET Rows]
    BY <1>5, <2>1, WalkFields
  <2>3. P!TypeOK'
    BY <1>1, <2>2 DEF P!TypeOK
  <2>4. WalkHolds'
    <3> SUFFICES ASSUME NEW x \in kept
                 PROVE  /\ x \in P!Distinct(P!Listed)'
                        /\ (listing = "logs" => walk.size <= MaxPage) =>
                              \/ x \in walk.seen
                              \/ walk.at = "paging" /\ walk.offset <= Cardinality(Before(x)')
      BY <1>1, <2>2 DEF WalkHolds, Before, P!Listed
    <3>1. \A o \in P!Listed : place[o] \in Nat
      BY <1>2, PlaceNumbers
    <3>2. /\ x \in P!Listed /\ place[x] < place[r]
          /\ \A o \in P!Listed \ {x} : place[o] # place[x]
      BY <1>5 DEF WalkHolds, P!Distinct
    <3>3. x # r /\ place'[x] = place[x]
      BY <1>1, <1>2, <3>1, <3>2
    <3>4. x \in P!Distinct(P!Listed)'
      <4>1. x \in P!Listed' /\ \A o \in P!Listed' \ {x} : place'[o] # place'[x]
        BY <1>1, <1>2, <3>2, <3>3
      <4> QED
        BY <4>1 DEF P!Distinct
    <3>5. r \notin Before(x)
      BY <1>2, <3>1, <3>2 DEF Before
    <3>6. Before(x)' = Before(x)
      BY <1>1, <1>2, <3>3, <3>5 DEF Before
    <3> QED
      BY <1>5, <3>4, <3>6 DEF WalkHolds
  <2> QED
    BY <1>3, <2>3, <2>4
<1> QED
  BY <1>4, <1>5

LEMMA StartWalkStep ==
  ASSUME ListingInv, NEW size \in Sizes, P!StartWalk(size)
  PROVE  ListingInv'
<1> USE DEF ListingInv
<1>1. /\ walk' = [at |-> "paging", size |-> size, offset |-> 0, seen |-> {},
                  watched |-> P!Distinct(P!Listed)]
      /\ UNCHANGED <<listing, place>>
  BY DEF P!StartWalk
<1>2. P!Distinct(P!Listed) \subseteq P!Listed /\ P!Listed \subseteq Rows
  BY DEF P!Distinct, P!Listed
<1>3. P!TypeOK'
  BY <1>1, <1>2 DEF P!TypeOK
<1>4. P!Listed' = P!Listed /\ P!Distinct(P!Listed)' = P!Distinct(P!Listed)
  BY <1>1 DEF P!Listed, P!Distinct
<1>5. WalkHolds'
  <2> SUFFICES ASSUME NEW x \in P!Distinct(P!Listed)
               PROVE  0 <= Cardinality(Before(x)')
    BY <1>1, <1>4 DEF WalkHolds
  <2>1. Before(x)' \subseteq P!Listed
    BY <1>4 DEF Before
  <2>2. IsFiniteSet(Before(x)')
    BY <2>1, FS_Subset
  <2>3. Cardinality(Before(x)') \in Nat
    BY <2>2, FS_CardinalityType
  <2> QED
    BY <2>3
<1> QED
  BY <1>3, <1>4, <1>5

LEMMA NextPageStep ==
  ASSUME ListingInv, P!NextPage
  PROVE  ListingInv'
<1> USE DEF ListingInv
<1>1. walk.at = "paging" /\ walk # P!NoWalk /\ UNCHANGED <<listing, place>>
  BY DEF P!NextPage, P!NoWalk
<1>2. PICK offset, size, limit, length :
           /\ offset = walk.offset /\ size = walk.size
           /\ limit = P!RowLimit(size) /\ length = P!PageSize(size)
  OBVIOUS
<1>3. /\ offset \in Nat /\ size \in Nat /\ limit \in Nat /\ length \in Nat
      /\ (listing = "logs" => size <= MaxPage) => limit = length
  <2>1. offset \in Nat /\ size \in Nat /\ MaxPage \in Nat
    BY <1>1, <1>2, WalkFields, PageNumbers
  <2>2. P!Capped(size) \in Nat /\ (size <= MaxPage => P!Capped(size) = size)
    BY <2>1 DEF P!Capped
  <2> HIDE DEF ListingInv
  <2>3. limit \in {size, P!Capped(size)} /\ length \in {size, P!Capped(size)}
    BY <1>2 DEF P!RowLimit, P!PageSize
  <2>4. (listing = "logs" => size <= MaxPage) => limit = length
    BY <1>2, <2>2 DEF P!RowLimit, P!PageSize
  <2> QED
    BY <2>1, <2>2, <2>3, <2>4
<1>4. PICK order \in P!Orders :
        LET last == offset + limit
            page == SubSeq(order, offset + 1, IF last > Len(order) THEN Len(order) ELSE last)
            full == Len(page) = length
        IN  walk' = [walk EXCEPT
                !.at = IF full THEN "paging" ELSE "ended",
                !.offset = IF full THEN offset + length ELSE @,
                !.seen = @ \cup P!ToSet(page)]
  BY <1>2 DEF P!NextPage, P!NextOffset
<1>5. PICK end : end = IF offset + limit > Len(order) THEN Len(order) ELSE offset + limit
  OBVIOUS
<1>6. PICK page : page = SubSeq(order, offset + 1, end)
  OBVIOUS
<1>7. walk' = [walk EXCEPT
                !.at = IF Len(page) = length THEN "paging" ELSE "ended",
                !.offset = IF Len(page) = length THEN offset + length ELSE @,
                !.seen = @ \cup P!ToSet(page)]
  BY <1>4, <1>5, <1>6
<1>8. /\ Len(order) \in Nat /\ \A i \in 1..Len(order) : order[i] \in P!Listed
      /\ \A x \in P!Distinct(P!Listed) : \E i \in 1..Len(order) :
            order[i] = x /\ Cardinality(Before(x)) = i - 1
  BY OrderRanks, ElementOfSeq
<1>9. end \in Nat /\ end <= Len(order) /\ end <= offset + limit
  BY <1>3, <1>5, <1>8
<1>10. /\ page \in Seq(P!Listed)
       /\ Len(page) = IF offset + 1 <= end THEN end - (offset + 1) + 1 ELSE 0
       /\ \A i \in 1..(end - (offset + 1) + 1) : page[i] = order[offset + 1 + i - 1]
  <2>1. \A i \in (offset + 1)..end : order[i] \in P!Listed
    BY <1>3, <1>8, <1>9
  <2>2. offset + 1 \in Int /\ end \in Int
    BY <1>3, <1>9
  <2>3. PICK from \in Int : from = offset + 1
    BY <2>2
  <2>4. page = SubSeq(order, from, end) /\ \A i \in from..end : order[i] \in P!Listed
    BY <1>6, <2>1, <2>3
  <2>5. /\ page \in Seq(P!Listed)
        /\ Len(page) = IF from <= end THEN end - from + 1 ELSE 0
        /\ \A i \in 1..(end - from + 1) : page[i] = order[from + i - 1]
    BY <2>2, <2>4, SubSeqProperties
  <2> QED
    BY <2>3, <2>5
<1>11. P!ToSet(page) \subseteq P!Listed /\ P!Listed \subseteq Rows
  BY <1>10, ElementOfSeq, LenProperties DEF P!ToSet, P!Listed
<1>12. /\ walk'.at = IF Len(page) = length THEN "paging" ELSE "ended"
       /\ walk'.offset = IF Len(page) = length THEN offset + length ELSE offset
       /\ walk'.seen = walk.seen \cup P!ToSet(page)
       /\ walk'.size = size /\ walk'.watched = walk.watched
       /\ walk' \in [at : {"paging", "ended"}, size : Sizes, offset : Nat,
                    seen : SUBSET Rows, watched : SUBSET Rows]
  <2>1. PICK at \in {"paging", "ended"}, next \in Nat, seen \in SUBSET Rows :
             /\ at = IF Len(page) = length THEN "paging" ELSE "ended"
             /\ next = IF Len(page) = length THEN offset + length ELSE offset
             /\ seen = walk.seen \cup P!ToSet(page)
    <3>1. (IF Len(page) = length THEN offset + length ELSE offset) \in Nat
      BY <1>3
    <3>2. walk.seen \cup P!ToSet(page) \in SUBSET Rows
      BY <1>1, <1>11, WalkFields
    <3> QED
      BY <3>1, <3>2
  <2>2. walk' = [walk EXCEPT !.at = at, !.offset = next, !.seen = seen]
    BY <1>2, <1>7, <2>1
  <2>3. walk \in [at : {"paging", "ended"}, size : Sizes, offset : Nat,
                 seen : SUBSET Rows, watched : SUBSET Rows]
    BY <1>1, WalkFields
  <2>4. /\ walk'.at = at /\ walk'.offset = next /\ walk'.seen = seen
        /\ walk'.size = walk.size /\ walk'.watched = walk.watched
        /\ walk' \in [at : {"paging", "ended"}, size : Sizes, offset : Nat,
                     seen : SUBSET Rows, watched : SUBSET Rows]
    BY <2>2, <2>3
  <2> QED
    BY <1>2, <2>1, <2>4
<1>13. P!TypeOK' /\ P!Listed' = P!Listed
  BY <1>1, <1>12 DEF P!TypeOK, P!Listed
<1>14. WalkHolds'
  <2> SUFFICES ASSUME NEW x \in walk.watched
               PROVE  /\ x \in P!Distinct(P!Listed)'
                      /\ (listing = "logs" => size <= MaxPage) =>
                            \/ x \in walk'.seen
                            \/ /\ walk'.at = "paging"
                               /\ walk'.offset <= Cardinality(Before(x)')
    BY <1>1, <1>12 DEF WalkHolds
  <2>1. x \in P!Distinct(P!Listed)
    BY <1>1 DEF WalkHolds
  <2>2. P!Distinct(P!Listed)' = P!Distinct(P!Listed) /\ Before(x)' = Before(x)
    BY <1>1 DEF P!Distinct, P!Listed, Before
  <2>3. ASSUME listing = "logs" => size <= MaxPage, x \notin walk'.seen
        PROVE  walk'.at = "paging" /\ walk'.offset <= Cardinality(Before(x))
    <3>1. offset <= Cardinality(Before(x))
      BY <1>1, <1>2, <1>12, <2>3 DEF WalkHolds
    <3>2. PICK i \in 1..Len(order) : order[i] = x /\ Cardinality(Before(x)) = i - 1
      BY <1>8, <2>1
    <3>3. ASSUME i <= end PROVE FALSE
      <4>1. PICK j : j = i - offset
        OBVIOUS
      <4>2. /\ j \in 1..(end - (offset + 1) + 1) /\ offset + 1 + j - 1 = i
            /\ offset + 1 <= end
        BY <1>3, <1>8, <1>9, <3>1, <3>2, <3>3, <4>1
      <4>3. page[j] = x
        BY <1>10, <3>2, <4>2
      <4>4. j \in 1..Len(page) /\ DOMAIN page = 1..Len(page)
        BY <1>10, <4>2, LenProperties
      <4>5. x \in P!ToSet(page)
        BY <4>3, <4>4 DEF P!ToSet
      <4> QED
        BY <1>12, <2>3, <4>5
    <3>4. end = offset + limit /\ end < i /\ limit = length
      BY <1>3, <1>5, <1>8, <1>9, <2>3, <3>3
    <3>5. Len(page) = length
      BY <1>3, <1>10, <3>4
    <3> QED
      BY <1>3, <1>8, <1>12, <3>2, <3>4, <3>5
  <2> QED
    BY <2>1, <2>2, <2>3
<1> QED
  BY <1>13, <1>14

LEMMA ListingStepKeeps ==
  ASSUME ListingInv, P!Next PROVE ListingInv'
<1>1. ASSUME P!LeaveWalk PROVE ListingInv'
  BY <1>1 DEF ListingInv, P!LeaveWalk, P!TypeOK, P!Listed, WalkHolds
<1> QED
  BY <1>1, InsertRowStep, LeaveFilterStep, StartWalkStep, NextPageStep DEF P!Next

LEMMA WalksAreEnough ==
  ASSUME ListingInv PROVE P!WalksMissNothing
BY DEF ListingInv, WalkHolds, P!WalksMissNothing

-----------------------------------------------------------------------------
(* The services side by side                                                *)

IInv == ExplanationInv /\ NotificationInv /\ ListingInv /\ IdentityInv

LEMMA InitInv == Init => IInv
<1> SUFFICES ASSUME Init PROVE IInv
  OBVIOUS
<1>1. ExplanationInv
  <2>1. ledger = [k \in Decided |-> <<>>] /\ announced = {}
    BY DEF Init, L!Init
  <2>2. L!TypeOK
    BY <2>1 DEF L!TypeOK
  <2>3. /\ explanations = [k \in Decided |-> X!Absent]
        /\ explaining = [c \in Explainers |-> X!Idle] /\ raced = {}
    BY DEF Init, X!Init
  <2>4. X!TypeOK
    BY <2>1, <2>3 DEF X!TypeOK, X!CallStates
  <2>5. X!Idle.at = "idle"
    BY DEF X!Idle
  <2> QED
    BY <2>2, <2>3, <2>4, <2>5 DEF ExplanationInv, CallsReport, RowsReport
<1>2. NotificationInv
  <2>1. /\ count = [k \in Channels |-> 0] /\ ttl = [k \in Channels |-> 0]
        /\ sender = [s \in Senders |-> N!Idle]
        /\ admitted = [k \in Channels |-> <<>>]
    BY DEF Init, N!Init
  <2>2. N!TypeOK
    BY <2>1, RateNumbers DEF N!TypeOK
  <2>3. \A k \in Channels : Admissible(k) = {} /\ Len(admitted[k]) = 0 /\ count[k] = 0
    BY <2>1 DEF Admissible
  <2>4. IsFiniteSet({}) /\ Cardinality({}) = 0
    BY FS_EmptySet
  <2>5. CountersHold
    <3> SUFFICES ASSUME NEW k \in Channels
                 PROVE  /\ IsFiniteSet(Admissible(k))
                        /\ Len(admitted[k]) + Cardinality(Admissible(k)) <= count[k]
                        /\ Len(admitted[k]) + Cardinality(Admissible(k)) <= Limit
      BY DEF CountersHold
    <3>1. /\ IsFiniteSet(Admissible(k)) /\ Cardinality(Admissible(k)) = 0
          /\ Len(admitted[k]) = 0 /\ count[k] = 0
      BY <2>3, <2>4
    <3> QED
      BY <3>1, RateNumbers
  <2>6. KeyOutlives
    BY <2>3 DEF KeyOutlives
  <2> QED
    BY <2>2, <2>5, <2>6 DEF NotificationInv
<1>3. ListingInv
  <2>1. /\ listing \in P!Listings /\ place = [r \in Rows |-> 0] /\ walk = P!NoWalk
    BY DEF Init, P!Init
  <2>2. P!Listed = {}
    BY <2>1 DEF P!Listed
  <2> QED
    BY <2>1, <2>2, FS_EmptySet DEF ListingInv, P!TypeOK, WalkHolds
<1>4. IdentityInv
  BY DEF Init, A!Init, IdentityInv, A!TypeOK, A!Account, A!NoCall, ChecksHold,
     A!AllowedIsCurrent
<1> QED
  BY <1>1, <1>2, <1>3, <1>4 DEF IInv

\* What no step of a service changes, its invariant does not notice.
LEMMA ExplanationUntouched ==
  ASSUME ExplanationInv, UNCHANGED <<DecisionVars, ExplanationVars>>
  PROVE  ExplanationInv'
BY DEF DecisionVars, ExplanationVars, ExplanationInv, L!TypeOK, X!TypeOK, CallsReport,
   RowsReport, X!Generating

LEMMA NotificationUntouched ==
  ASSUME NotificationInv, UNCHANGED NotificationVars PROVE NotificationInv'
BY DEF NotificationVars, NotificationInv, N!TypeOK, CountersHold, Admissible, KeyOutlives

LEMMA ListingUntouched ==
  ASSUME ListingInv, UNCHANGED ListingVars PROVE ListingInv'
<1>1. UNCHANGED <<listing, place, walk>>
  BY DEF ListingVars
<1>2. P!Listed' = P!Listed /\ P!Distinct(P!Listed)' = P!Distinct(P!Listed)
      /\ \A x : Before(x)' = Before(x)
  BY <1>1 DEF P!Listed, P!Distinct, Before
<1> QED
  BY <1>1, <1>2 DEF ListingInv, P!TypeOK, WalkHolds

LEMMA IdentityUntouched ==
  ASSUME IdentityInv, UNCHANGED IdentityVars PROVE IdentityInv'
BY DEF IdentityVars, IdentityInv, A!TypeOK, ChecksHold, A!AllowedIsCurrent

LEMMA StepInv == IInv /\ [Next]_vars => IInv'
<1> SUFFICES ASSUME IInv, [Next]_vars PROVE IInv'
  OBVIOUS
<1> USE DEF IInv
<1>1. ASSUME ExplanationStep PROVE IInv'
  <2>1. UNCHANGED <<NotificationVars, ListingVars, IdentityVars>>
    BY <1>1 DEF ExplanationStep
  <2> QED
    BY <1>1, <2>1, ExplanationStepKeeps, NotificationUntouched, ListingUntouched,
       IdentityUntouched
<1>2. ASSUME NotificationStep PROVE IInv'
  BY <1>2, NotificationStepKeeps, ExplanationUntouched, ListingUntouched,
     IdentityUntouched DEF NotificationStep
<1>3. ASSUME ListingStep PROVE IInv'
  BY <1>3, ListingStepKeeps, ExplanationUntouched, NotificationUntouched,
     IdentityUntouched DEF ListingStep
<1>4. ASSUME IdentityStep PROVE IInv'
  BY <1>4, IdentityStepKeeps, ExplanationUntouched, NotificationUntouched,
     ListingUntouched DEF IdentityStep
<1>5. CASE UNCHANGED vars
  BY <1>5, ExplanationUntouched, NotificationUntouched, ListingUntouched,
     IdentityUntouched DEF vars
<1> QED
  BY <1>1, <1>2, <1>3, <1>4, <1>5 DEF Next

LEMMA Invariant == Spec => []IInv
BY InitInv, StepInv, PTL DEF Spec

-----------------------------------------------------------------------------
(* The theorems *)

\* Every decision, explanation, notification, listing, account and call keeps its
\* type, for every number of them.
THEOREM TypeCorrect == Spec => []TypeOK
<1>1. IInv => TypeOK
  BY DEF IInv, ExplanationInv, NotificationInv, ListingInv, IdentityInv, TypeOK
<1> QED
  BY <1>1, Invariant, PTL

\* A stored explanation reports outcomes that its decision has had, and two
\* different ones only if an override fell into its generation (Upsert).
THEOREM TornByRace == Spec => []TornOnlyWhenRaced
<1>1. IInv => TornOnlyWhenRaced
  BY ReportsAreEnough DEF IInv, TornOnlyWhenRaced
<1> QED
  BY <1>1, Invariant, PTL

\* Within any stretch of one window a key admits no more senders than the limit,
\* for every limit, window and number of senders (Allow).
THEOREM RateBounded == Spec => []RateWindowBounded
<1>1. IInv => RateWindowBounded
  BY CountsAreEnough DEF IInv, RateWindowBounded
<1> QED
  BY <1>1, Invariant, PTL

\* A client that reads every page is given each row that was listed when it began,
\* unless rows before it left the filter or one came to share its place, however
\* the pages are cut (QueryLogs below its cap, QueryAuditTrail, ListCases).
THEOREM WalksComplete == Spec => []WalksMissNothing
<1>1. IInv => WalksMissNothing
  BY WalksAreEnough DEF IInv, WalksMissNothing
<1> QED
  BY <1>1, Invariant, PTL

\* A high-stakes action is allowed only to an account that is enabled and in the
\* token's tenant, unless the account changed after the call began; and no action
\* in another tenant but to a platform administrator (Authorize).
THEOREM AllowedCurrent == Spec => []AllowedIsCurrent
<1>1. IInv => AllowedIsCurrent
  BY DEF IInv, IdentityInv, AllowedIsCurrent
<1> QED
  BY <1>1, Invariant, PTL
=============================================================================
