------------------------ MODULE ConfigServicesProofs ------------------------
(***************************************************************************)
(* Proofs about ConfigServices, for every set of tenants, rules, contents, *)
(* templates, transitions and calls, and every bound on the versions. The  *)
(* services take no step of one another, so each has an invariant of its   *)
(* own; only the gateway's cache needs that of the service it asks. The    *)
(* evaluator of rules comes last: what it answers is proved for every tree *)
(* of conditions, by induction on its height.                              *)
(***************************************************************************)
EXTENDS ConfigServices, RuleEvaluator, FiniteSetTheorems, SequenceTheorems,
        WellFoundedInduction, TLAPS

-----------------------------------------------------------------------------
(* The tenant configuration and the gateway's cache of it                   *)

\* Whoever holds a configuration of a tenant (the row, Redis, a call that is
\* about to write it to Redis, a resolver of the gateway) holds one it has had.
HeldWereInForce ==
    /\ \A t \in Tenants :
          /\ config[t] # T!Absent => config[t] \in configPast[t]
          /\ configCache[t] # T!Miss => configCache[t].config \in configPast[t]
    /\ \A u \in Writers :
          /\ configUpdate[u].at \in {"updated", "created"} =>
                configUpdate[u].config \in configPast[configUpdate[u].tenant]
          /\ configUpdate[u].at = "set" =>
                configUpdate[u].record.config \in configPast[configUpdate[u].tenant]
    /\ \A r \in Readers : configRead[r].at = "fetched" =>
                configRead[r].record.config \in configPast[configRead[r].tenant]

ViewWasInForce ==
    /\ \A t \in Tenants : view[t] \subseteq configPast[t]
    /\ \A q \in Queries : query[q] # G!Idle =>
          query[q].key \in Tenants /\ query[q].answer \in configPast[query[q].key]

GatewayTypeOK ==
    view \in [Tenants -> SUBSET T!Config] /\ DOMAIN query = Queries

ConfigInv == T!TypeOK /\ HeldWereInForce
GatewayInv == GatewayTypeOK /\ ViewWasInForce

\* Each control state of an update and of a read carries what its step needs.
LEMMA ConfigCalls ==
  ASSUME T!TypeOK
  PROVE  /\ \A u \in Writers :
              /\ configUpdate[u].at \in {"updated", "created"} =>
                    configUpdate[u] \in T!Updating
              /\ configUpdate[u].at = "set" => configUpdate[u] \in T!Caching
         /\ \A r \in Readers :
              /\ configRead[r].at = "missed" => configRead[r] \in T!Fetching
              /\ configRead[r].at = "fetched" => configRead[r] \in T!Fetched
BY DEF T!TypeOK, T!Idle, T!Updating, T!Caching, T!Fetching, T!Fetched

\* An update changes one field of the row of a tenant that exists.
LEMMA UpdatedRow ==
  ASSUME T!TypeOK, NEW t \in Tenants, config[t].version \in 1..(MaxVersion - 1)
  PROVE  /\ config[t] # T!Absent
         /\ \A s \in RuleSets :
              [config[t] EXCEPT !.ruleSet = s, !.version = @ + 1] \in T!Config
         /\ \A w \in WorkflowTemplates :
              [config[t] EXCEPT !.workflow = w, !.version = @ + 1] \in T!Config
<1>1. config[t] # T!Absent
  BY DEF T!Absent
<1>2. config[t] \in T!Config
  BY <1>1 DEF T!TypeOK
<1>3. config[t].version + 1 \in 1..MaxVersion
  BY MaxVersionAssumption
<1> QED
  BY <1>1, <1>2, <1>3 DEF T!Config

\* A commit puts the row in the history and takes nothing out of it.
LEMMA CommitConfig ==
  ASSUME T!TypeOK, NEW t \in Tenants, NEW row \in T!Config, T!Commit(t, row)
  PROVE  /\ config' \in [Tenants -> {T!Absent} \cup T!Config]
         /\ configPast' \in [Tenants -> SUBSET T!Config]
         /\ row \in configPast'[t]
         /\ \A p \in Tenants : config'[p] = IF p = t THEN row ELSE config[p]
         /\ \A p \in Tenants : configPast[p] \subseteq configPast'[p]
BY DEF T!TypeOK, T!Commit

\* An update of a row that exists.
LEMMA UpdateConfigStep ==
  ASSUME ConfigInv, NEW u \in Writers, NEW t \in Tenants, NEW row \in T!Config,
         T!UpdateConfig(u, t, row)
  PROVE  ConfigInv'
<1> DEFINE call == [at |-> "updated", tenant |-> t, config |-> row]
<1> USE DEF ConfigInv
<1>1. T!Commit(t, row) /\ configUpdate' = [configUpdate EXCEPT ![u] = call]
  BY DEF T!UpdateConfig
<1>2. call \in T!Updating
  BY DEF T!Updating
<1>3. /\ config' \in [Tenants -> {T!Absent} \cup T!Config]
      /\ configPast' \in [Tenants -> SUBSET T!Config]
      /\ row \in configPast'[t]
      /\ \A p \in Tenants : config'[p] = IF p = t THEN row ELSE config[p]
      /\ \A p \in Tenants : configPast[p] \subseteq configPast'[p]
  BY <1>1, CommitConfig
<1>4. T!TypeOK'
  BY <1>1, <1>2, <1>3 DEF T!UpdateConfig, T!TypeOK
<1>5. HeldWereInForce'
  BY <1>1, <1>3 DEF T!UpdateConfig, T!TypeOK, HeldWereInForce,
     T!Updating, T!Caching, T!Fetched, T!Idle, T!Fetching
<1> QED
  BY <1>4, <1>5

\* The service keeps its types and its promise about what is held.
LEMMA ConfigStep ==
  ASSUME ConfigInv, T!Next PROVE ConfigInv'
<1> USE DEF ConfigInv
<1>1. ASSUME NEW u \in Writers, NEW t \in Tenants, NEW s \in RuleSets,
             NEW w \in WorkflowTemplates, T!CreateTenant(u, t, s, w)
      PROVE  ConfigInv'
  <2> DEFINE row == [ruleSet |-> s, workflow |-> w, version |-> 1]
             call == [at |-> "created", tenant |-> t, config |-> row]
  <2>1. row \in T!Config /\ call \in T!Updating
    BY MaxVersionAssumption DEF T!Config, T!Updating
  <2>2. T!Commit(t, row) /\ configUpdate' = [configUpdate EXCEPT ![u] = call]
    BY <1>1 DEF T!CreateTenant
  <2>3. /\ config' \in [Tenants -> {T!Absent} \cup T!Config]
        /\ configPast' \in [Tenants -> SUBSET T!Config]
        /\ row \in configPast'[t]
        /\ \A p \in Tenants : config'[p] = IF p = t THEN row ELSE config[p]
        /\ \A p \in Tenants : configPast[p] \subseteq configPast'[p]
    BY <2>1, <2>2, CommitConfig
  <2>4. T!TypeOK'
    BY <1>1, <2>1, <2>2, <2>3 DEF T!CreateTenant, T!TypeOK
  <2>5. HeldWereInForce'
    BY <1>1, <2>2, <2>3 DEF T!CreateTenant, T!TypeOK, HeldWereInForce,
       T!Updating, T!Caching, T!Fetched, T!Idle, T!Fetching
  <2> QED
    BY <2>4, <2>5
<1>2. ASSUME NEW u \in Writers, NEW flags \in BOOLEAN, T!ReadFlags(u, flags)
      PROVE  ConfigInv'
  <2> DEFINE record == [config |-> configUpdate[u].config, flags |-> flags]
             call == [at |-> "set", tenant |-> configUpdate[u].tenant, record |-> record]
  <2>1. /\ configUpdate[u] \in T!Updating
        /\ configUpdate[u].config \in configPast[configUpdate[u].tenant]
    BY <1>2, ConfigCalls DEF T!ReadFlags, HeldWereInForce
  <2>2. call \in T!Caching
    BY <2>1 DEF T!Updating, T!Caching, T!Record
  <2>3. configUpdate' = [configUpdate EXCEPT ![u] = call]
    BY <1>2 DEF T!ReadFlags
  <2>4. T!TypeOK'
    BY <1>2, <2>2, <2>3 DEF T!ReadFlags, T!TypeOK
  <2>5. HeldWereInForce'
    BY <1>2, <2>1, <2>3 DEF T!ReadFlags, T!TypeOK, HeldWereInForce
  <2> QED
    BY <2>4, <2>5
<1>3. ASSUME NEW u \in Writers, T!ReadAgain(u) PROVE ConfigInv'
  <2> DEFINE record == [config |-> configUpdate[u].config, flags |-> TRUE]
             call == [at |-> "set", tenant |-> configUpdate[u].tenant, record |-> record]
  <2>1. /\ configUpdate[u] \in T!Updating
        /\ configUpdate[u].config \in configPast[configUpdate[u].tenant]
    BY <1>3, ConfigCalls DEF T!ReadAgain, HeldWereInForce
  <2>2. call \in T!Caching
    BY <2>1 DEF T!Updating, T!Caching, T!Record
  <2>3. configUpdate' = [configUpdate EXCEPT ![u] = call]
    BY <1>3 DEF T!ReadAgain
  <2>4. T!TypeOK'
    BY <1>3, <2>2, <2>3 DEF T!ReadAgain, T!TypeOK
  <2>5. HeldWereInForce'
    BY <1>3, <2>1, <2>3 DEF T!ReadAgain, T!TypeOK, HeldWereInForce
  <2> QED
    BY <2>4, <2>5
<1>4. ASSUME NEW u \in Writers, T!ReadAgainFails(u) \/ T!CreateEnds(u)
      PROVE  ConfigInv'
  <2>1. T!TypeOK'
    BY <1>4 DEF T!ReadAgainFails, T!CreateEnds, T!TypeOK
  <2>2. HeldWereInForce'
    BY <1>4 DEF T!ReadAgainFails, T!CreateEnds, T!TypeOK, HeldWereInForce, T!Idle
  <2> QED
    BY <2>1, <2>2
<1>5. ASSUME NEW u \in Writers, T!SetUpdated(u) PROVE ConfigInv'
  <2>1. configUpdate[u] \in T!Caching
    BY <1>5, ConfigCalls DEF T!SetUpdated
  <2>2. configUpdate[u].tenant \in Tenants /\ configUpdate[u].record \in T!Record
    BY <2>1 DEF T!Caching
  <2>3. T!TypeOK'
    BY <1>5, <2>2 DEF T!SetUpdated, T!TypeOK
  <2>4. HeldWereInForce'
    BY <1>5, <2>2 DEF T!SetUpdated, T!TypeOK, HeldWereInForce, T!Idle
  <2> QED
    BY <2>3, <2>4
<1>6. ASSUME NEW r \in Readers, T!GetTenant(r) PROVE ConfigInv'
  <2>1. configRead[r] \in T!Fetching
    BY <1>6, ConfigCalls DEF T!GetTenant
  <2>2. PICK t \in Tenants : t = configRead[r].tenant
    BY <2>1 DEF T!Fetching
  <2> DEFINE record == [config |-> config[t], flags |-> TRUE]
             call == [at |-> "fetched", tenant |-> t, record |-> record]
  <2>3. CASE config[t] = T!Absent
    <3>1. T!TypeOK'
      BY <1>6, <2>2, <2>3 DEF T!GetTenant, T!TypeOK
    <3>2. HeldWereInForce'
      BY <1>6, <2>2, <2>3 DEF T!GetTenant, T!TypeOK, HeldWereInForce, T!Idle
    <3> QED
      BY <3>1, <3>2
  <2>4. CASE config[t] # T!Absent
    <3>1. call \in T!Fetched
      BY <2>4 DEF T!Fetched, T!Record, T!TypeOK
    <3>2. configRead' = [configRead EXCEPT ![r] = call]
      BY <1>6, <2>2, <2>4 DEF T!GetTenant
    <3>3. T!TypeOK'
      BY <1>6, <3>1, <3>2 DEF T!GetTenant, T!TypeOK
    <3>4. HeldWereInForce'
      BY <1>6, <2>4, <3>2 DEF T!GetTenant, T!TypeOK, HeldWereInForce
    <3> QED
      BY <3>3, <3>4
  <2> QED
    BY <2>3, <2>4
<1>7. ASSUME NEW r \in Readers, T!SetRead(r) PROVE ConfigInv'
  <2>1. configRead[r] \in T!Fetched
    BY <1>7, ConfigCalls DEF T!SetRead
  <2>2. configRead[r].tenant \in Tenants /\ configRead[r].record \in T!Record
    BY <2>1 DEF T!Fetched
  <2>3. T!TypeOK'
    BY <1>7, <2>2 DEF T!SetRead, T!TypeOK
  <2>4. HeldWereInForce'
    BY <1>7, <2>2 DEF T!SetRead, T!TypeOK, HeldWereInForce, T!Idle
  <2> QED
    BY <2>3, <2>4
<1>8. ASSUME NEW r \in Readers, NEW t \in Tenants, T!GetMisses(r, t)
      PROVE  ConfigInv'
  <2>1. [at |-> "missed", tenant |-> t] \in T!Fetching
    BY DEF T!Fetching
  <2>2. T!TypeOK'
    BY <1>8, <2>1 DEF T!GetMisses, T!TypeOK
  <2>3. HeldWereInForce'
    BY <1>8 DEF T!GetMisses, T!TypeOK, HeldWereInForce
  <2> QED
    BY <2>2, <2>3
<1>9. ASSUME NEW r \in Readers, T!ReadEnds(r) PROVE ConfigInv'
  <2>1. T!TypeOK'
    BY <1>9 DEF T!ReadEnds, T!TypeOK
  <2>2. HeldWereInForce'
    BY <1>9 DEF T!ReadEnds, T!TypeOK, HeldWereInForce, T!Idle
  <2> QED
    BY <2>1, <2>2
<1>10. ASSUME NEW t \in Tenants, T!Expire(t) PROVE ConfigInv'
  <2>1. T!TypeOK'
    BY <1>10 DEF T!Expire, T!TypeOK
  <2>2. HeldWereInForce'
    BY <1>10 DEF T!Expire, T!TypeOK, HeldWereInForce
  <2> QED
    BY <2>1, <2>2
<1>11. ASSUME NEW u \in Writers, NEW t \in Tenants, NEW s \in RuleSets,
              T!UpdateRuleConfig(u, t, s)
       PROVE  ConfigInv'
  <2> DEFINE row == [config[t] EXCEPT !.ruleSet = s, !.version = @ + 1]
  <2>1. T!UpdateConfig(u, t, row)
    BY <1>11 DEF T!UpdateRuleConfig
  <2>2. row \in T!Config
    BY <2>1, UpdatedRow DEF T!UpdateConfig
  <2> QED
    BY <2>1, <2>2, UpdateConfigStep
<1>12. ASSUME NEW u \in Writers, NEW t \in Tenants, NEW w \in WorkflowTemplates,
              T!UpdateWorkflowConfig(u, t, w)
       PROVE  ConfigInv'
  <2> DEFINE row == [config[t] EXCEPT !.workflow = w, !.version = @ + 1]
  <2>1. T!UpdateConfig(u, t, row)
    BY <1>12 DEF T!UpdateWorkflowConfig
  <2>2. row \in T!Config
    BY <2>1, UpdatedRow DEF T!UpdateConfig
  <2> QED
    BY <2>1, <2>2, UpdateConfigStep
<1> QED
  BY <1>1, <1>2, <1>3, <1>4, <1>5, <1>6, <1>7, <1>8, <1>9, <1>10, <1>11, <1>12
  DEF T!Next, T!UpdateStep, T!ReadStep

\* The history only grows.
LEMMA PastGrows ==
  ASSUME T!TypeOK, T!Next
  PROVE  \A t \in Tenants : configPast[t] \subseteq configPast'[t]
<1>1. ASSUME NEW t \in Tenants, NEW row, T!Commit(t, row)
      PROVE  \A p \in Tenants : configPast[p] \subseteq configPast'[p]
  BY <1>1 DEF T!Commit, T!TypeOK
<1>2. ASSUME NEW u \in Writers, T!UpdateStep(u)
      PROVE  configPast' = configPast \/ \E t \in Tenants : \E row : T!Commit(t, row)
  <2>1. ASSUME NEW t \in Tenants, NEW s \in RuleSets, NEW w \in WorkflowTemplates,
               T!CreateTenant(u, t, s, w)
        PROVE  \E row : T!Commit(t, row)
    BY <2>1 DEF T!CreateTenant
  <2>2. ASSUME NEW t \in Tenants, NEW row, T!UpdateConfig(u, t, row)
        PROVE  T!Commit(t, row)
    BY <2>2 DEF T!UpdateConfig
  <2> QED
    BY <1>2, <2>1, <2>2 DEF T!UpdateStep, T!UpdateRuleConfig, T!UpdateWorkflowConfig,
       T!ReadFlags, T!ReadAgain, T!ReadAgainFails, T!SetUpdated, T!CreateEnds
<1>3. ASSUME NEW r \in Readers, T!ReadStep(r) PROVE configPast' = configPast
  BY <1>3 DEF T!ReadStep, T!GetMisses, T!GetTenant, T!SetRead, T!ReadEnds
<1>4. ASSUME NEW t \in Tenants, T!Expire(t) PROVE configPast' = configPast
  BY <1>4 DEF T!Expire
<1>5. configPast' = configPast \/ \E t \in Tenants : \E row : T!Commit(t, row)
  BY <1>2, <1>3, <1>4 DEF T!Next
<1> QED
  BY <1>1, <1>5

\* The gateway asks for what the service would answer, which was in force.
LEMMA GatewayStepKeeps ==
  ASSUME ConfigInv, GatewayInv, G!Next, UNCHANGED ConfigVars
  PROVE  GatewayInv'
<1> USE DEF GatewayInv, GatewayTypeOK, ViewWasInForce
<1>1. configPast' = configPast
  BY DEF ConfigVars
<1>2. ASSUME NEW q \in Queries, NEW t \in Tenants, G!AskService(q, t)
      PROVE  GatewayInv'
  <2>1. PICK a \in TenantAnswers[t] :
             query' = [query EXCEPT ![q] = [at |-> "asked", key |-> t, answer |-> a]]
    BY <1>2 DEF G!AskService
  <2>2. a \in configPast[t]
    BY <2>1 DEF TenantAnswers, ConfigInv, HeldWereInForce
  <2> QED
    BY <1>1, <1>2, <2>1, <2>2 DEF G!AskService, G!Idle
<1>3. ASSUME NEW q \in Queries, G!SetResult(q) PROVE GatewayInv'
  <2>1. PICK t \in Tenants : t = query[q].key /\ query[q].answer \in configPast[t]
    BY <1>3 DEF G!SetResult
  <2>2. query[q].answer \in T!Config
    BY <2>1 DEF ConfigInv, T!TypeOK
  <2>3. view' \in {view, [view EXCEPT ![t] = {query[q].answer}]}
    BY <1>3, <2>1 DEF G!SetResult
  <2>4. query' = [query EXCEPT ![q] = G!Idle]
    BY <1>3 DEF G!SetResult
  <2> QED
    BY <1>1, <2>1, <2>2, <2>3, <2>4
<1>4. ASSUME NEW t \in Tenants, G!ExpireResult(t) PROVE GatewayInv'
  BY <1>1, <1>4 DEF G!ExpireResult, G!NoResult
<1> QED
  BY <1>2, <1>3, <1>4 DEF G!Next

-----------------------------------------------------------------------------
(* The workflow templates                                                   *)

\* A copy with the transitions of its version or of a later one, of the versions
\* of a template so far.
Forward(versions, last, copy) ==
    /\ copy.version <= last
    /\ copy.transitions \in {versions[w] : w \in copy.version..last}

\* The history has one entry for each version, and the rows are its last one.
RowsAreLast ==
    \A p \in Templates :
        /\ Len(templatePast[p]) = templateVersion[p]
        /\ templateVersion[p] > 0 =>
              templateTransitions[p] = templatePast[p][templateVersion[p]]

\* An update that has locked the row is alone with it, and is about to commit
\* the next version.
LockIsHeld ==
    \A u \in Writers : templateUpdate[u].at = "locked" =>
        /\ templateVersion[templateUpdate[u].template] > 0
        /\ templateUpdate[u].copy.version
              = templateVersion[templateUpdate[u].template] + 1
        /\ \A o \in Writers :
              templateUpdate[o].at = "locked"
              /\ templateUpdate[o].template = templateUpdate[u].template => o = u

\* Every copy that is in Redis, or that a call may set there, looks forward.
CopiesForward ==
    /\ \A p \in Templates : templateCache[p] # W!Miss =>
          Forward(templatePast[p], templateVersion[p], templateCache[p])
    /\ \A u \in Writers : templateUpdate[u].at \in {"invalidate", "set"} =>
          Forward(templatePast[templateUpdate[u].template],
                  templateVersion[templateUpdate[u].template], templateUpdate[u].copy)
    /\ \A r \in Readers :
          /\ templateRead[r].at = "row" =>
                templateRead[r].version <= templateVersion[templateRead[r].template]
          /\ templateRead[r].at = "fetched" =>
                Forward(templatePast[templateRead[r].template],
                        templateVersion[templateRead[r].template], templateRead[r].copy)

TemplateInv == W!TypeOK /\ RowsAreLast /\ LockIsHeld /\ CopiesForward

\* More versions leave what looks forward as it is.
LEMMA ForwardStays ==
  ASSUME NEW copy \in W!Template, NEW old, NEW new, NEW v \in Nat, NEW w \in Nat,
         v <= w, \A i \in 1..v : new[i] = old[i], Forward(old, v, copy)
  PROVE  Forward(new, w, copy)
<1>1. copy.version \in Nat \ {0}
  BY MaxVersionAssumption DEF W!Template, W!Versions
<1> QED
  BY <1>1 DEF Forward

\* Each control state of an update and of a read carries what its step needs.
LEMMA TemplateCalls ==
  ASSUME W!TypeOK
  PROVE  /\ \A u \in Writers : templateUpdate[u].at # "idle" =>
               templateUpdate[u] \in W!Updating
         /\ \A r \in Readers :
              /\ templateRead[r].at = "missed" => templateRead[r] \in W!Fetching
              /\ templateRead[r].at = "row" => templateRead[r] \in W!Halfway
              /\ templateRead[r].at = "fetched" => templateRead[r] \in W!Fetched
BY DEF W!TypeOK, W!Idle, W!Updating, W!Fetching, W!Halfway, W!Fetched

\* The invariant says of the copies a reader can be given what the property does.
LEMMA ForwardIsEnough ==
  ASSUME TemplateInv PROVE W!TearsLookForward
BY DEF TemplateInv, CopiesForward, Forward, W!TearsLookForward, W!CopiesOf,
   W!SinceVersion

-----------------------------------------------------------------------------

\* Steps of reads, and of Redis, which leave the template and its updates alone.
LEMMA TemplateReads ==
  ASSUME TemplateInv, NEW r \in Readers, W!ReadStep(r)
  PROVE  TemplateInv'
<1> USE DEF TemplateInv
<1>1. UNCHANGED <<templateVersion, templateTransitions, templateUpdate, templatePast>>
  BY DEF W!ReadStep, W!GetMisses, W!SelectTemplate, W!ListTransitions, W!SetRead,
     W!ReadEnds
<1>2. RowsAreLast' /\ LockIsHeld'
  BY <1>1 DEF RowsAreLast, LockIsHeld
<1>3. ASSUME NEW p \in Templates, W!GetMisses(r, p)
      PROVE  W!TypeOK' /\ CopiesForward'
  <2>1. [at |-> "missed", template |-> p] \in W!Fetching
    BY DEF W!Fetching
  <2> QED
    BY <1>3, <2>1 DEF W!GetMisses, W!TypeOK, CopiesForward
<1>4. ASSUME W!SelectTemplate(r) PROVE W!TypeOK' /\ CopiesForward'
  <2>1. PICK p \in Templates : p = templateRead[r].template
    BY <1>4, TemplateCalls DEF W!SelectTemplate, W!Fetching
  <2> DEFINE call == [at |-> "row", template |-> p, version |-> templateVersion[p]]
  <2>2. CASE templateVersion[p] = 0
    BY <1>4, <2>1, <2>2 DEF W!SelectTemplate, W!TypeOK, CopiesForward, W!Idle
  <2>3. CASE templateVersion[p] # 0
    <3>1. templateVersion[p] \in 1..MaxVersion
      BY <2>3, MaxVersionAssumption DEF W!TypeOK
    <3>2. call \in W!Halfway
      BY <3>1 DEF W!Halfway, W!Versions
    <3>3. templateRead' = [templateRead EXCEPT ![r] = call]
      BY <1>4, <2>1, <2>3 DEF W!SelectTemplate
    <3> QED
      BY <1>4, <3>1, <3>2, <3>3 DEF W!SelectTemplate, W!TypeOK, CopiesForward
  <2> QED
    BY <2>2, <2>3
<1>5. ASSUME W!ListTransitions(r) PROVE W!TypeOK' /\ CopiesForward'
  <2>1. templateRead[r] \in W!Halfway
    BY <1>5, TemplateCalls DEF W!ListTransitions
  <2>2. PICK p \in Templates, v \in 1..MaxVersion :
             p = templateRead[r].template /\ v = templateRead[r].version
    BY <2>1 DEF W!Halfway, W!Versions
  <2> DEFINE copy == [version |-> v, transitions |-> templateTransitions[p]]
             call == [at |-> "fetched", template |-> p, copy |-> copy]
  <2>3. v <= templateVersion[p]
    BY <1>5, <2>2 DEF W!ListTransitions, CopiesForward
  <2>4. templateVersion[p] \in Nat
    BY DEF W!TypeOK
  <2>5. templateTransitions[p] = templatePast[p][templateVersion[p]]
    BY <2>3, <2>4 DEF RowsAreLast
  <2>6. Forward(templatePast[p], templateVersion[p], copy)
    BY <2>3, <2>4, <2>5 DEF Forward
  <2>7. call \in W!Fetched
    BY DEF W!Fetched, W!Template, W!Versions, W!TypeOK
  <2>8. templateRead' = [templateRead EXCEPT ![r] = call]
    BY <1>5, <2>2 DEF W!ListTransitions
  <2>9. W!TypeOK'
    BY <1>5, <2>7, <2>8 DEF W!ListTransitions, W!TypeOK
  <2>10. CopiesForward'
    BY <1>5, <2>6, <2>8 DEF W!ListTransitions, W!TypeOK, CopiesForward
  <2> QED
    BY <2>9, <2>10
<1>6. ASSUME W!SetRead(r) PROVE W!TypeOK' /\ CopiesForward'
  <2>1. templateRead[r] \in W!Fetched
    BY <1>6, TemplateCalls DEF W!SetRead
  <2>2. PICK p \in Templates, c \in W!Template :
             p = templateRead[r].template /\ c = templateRead[r].copy
    BY <2>1 DEF W!Fetched
  <2>3. Forward(templatePast[p], templateVersion[p], c)
    BY <1>6, <2>2 DEF W!SetRead, CopiesForward
  <2>4. /\ templateCache' = [templateCache EXCEPT ![p] = c]
        /\ templateRead' = [templateRead EXCEPT ![r] = W!Idle]
    BY <1>6, <2>2 DEF W!SetRead
  <2>5. W!TypeOK'
    BY <1>6, <2>4 DEF W!SetRead, W!TypeOK
  <2>6. CopiesForward'
    BY <1>6, <2>3, <2>4 DEF W!SetRead, W!TypeOK, CopiesForward, W!Idle
  <2> QED
    BY <2>5, <2>6
<1>7. ASSUME W!ReadEnds(r) PROVE W!TypeOK' /\ CopiesForward'
  BY <1>7 DEF W!ReadEnds, W!TypeOK, CopiesForward, W!Idle
<1> QED
  BY <1>2, <1>3, <1>4, <1>5, <1>6, <1>7 DEF W!ReadStep

\* The commit of a template's next version.
NextVersion(p, ts) ==
    /\ templateVersion' = [templateVersion EXCEPT ![p] = @ + 1]
    /\ templateTransitions' = [templateTransitions EXCEPT ![p] = ts]
    /\ templatePast' = [templatePast EXCEPT ![p] = Append(@, ts)]

LEMMA NextVersionKeeps ==
  ASSUME TemplateInv, NEW p \in Templates, NEW ts \in SUBSET Transitions,
         templateVersion[p] < MaxVersion, NextVersion(p, ts)
  PROVE  /\ templateVersion' \in [Templates -> 0..MaxVersion]
         /\ templateTransitions' \in [Templates -> SUBSET Transitions]
         /\ templatePast' \in [Templates -> Seq(SUBSET Transitions)]
         /\ RowsAreLast'
         /\ Forward(templatePast'[p], templateVersion'[p],
                    [version |-> templateVersion[p] + 1, transitions |-> ts])
         /\ \A q \in Templates :
              /\ templateVersion[q] <= templateVersion'[q]
              /\ \A c \in W!Template :
                   Forward(templatePast[q], templateVersion[q], c) =>
                     Forward(templatePast'[q], templateVersion'[q], c)
<1> USE DEF TemplateInv
<1> DEFINE n == templateVersion[p]
<1>1. n \in Nat /\ n + 1 \in 0..MaxVersion /\ n = Len(templatePast[p])
  BY MaxVersionAssumption DEF W!TypeOK, RowsAreLast
<1>2. templatePast[p] \in Seq(SUBSET Transitions)
  BY DEF W!TypeOK
<1>3. /\ templateVersion' = [templateVersion EXCEPT ![p] = n + 1]
      /\ templateVersion'[p] = n + 1
      /\ templatePast'[p] = Append(templatePast[p], ts)
      /\ templateTransitions'[p] = ts
      /\ \A q \in Templates \ {p} :
            /\ templateVersion'[q] = templateVersion[q]
            /\ templatePast'[q] = templatePast[q]
            /\ templateTransitions'[q] = templateTransitions[q]
  BY DEF NextVersion, W!TypeOK
<1>4. /\ Append(templatePast[p], ts) \in Seq(SUBSET Transitions)
      /\ Len(templatePast'[p]) = n + 1
      /\ templatePast'[p][n + 1] = ts
      /\ \A i \in 1..n : templatePast'[p][i] = templatePast[p][i]
  BY <1>1, <1>2, <1>3
<1>5. /\ templateVersion' \in [Templates -> 0..MaxVersion]
      /\ templateTransitions' \in [Templates -> SUBSET Transitions]
      /\ templatePast' \in [Templates -> Seq(SUBSET Transitions)]
  BY <1>1, <1>3, <1>4 DEF NextVersion, W!TypeOK
<1>6. RowsAreLast'
  BY <1>1, <1>3, <1>4 DEF RowsAreLast
<1>7. Forward(templatePast'[p], templateVersion'[p],
              [version |-> n + 1, transitions |-> ts])
  BY <1>1, <1>3, <1>4 DEF Forward
<1>8. ASSUME NEW q \in Templates
      PROVE  /\ templateVersion[q] <= templateVersion'[q]
             /\ \A c \in W!Template :
                  Forward(templatePast[q], templateVersion[q], c) =>
                    Forward(templatePast'[q], templateVersion'[q], c)
  <2>1. templateVersion[q] \in Nat /\ templateVersion'[q] \in Nat
    BY <1>5 DEF W!TypeOK
  <2>2. templateVersion[q] <= templateVersion'[q]
    BY <1>1, <1>3, <2>1
  <2>3. \A i \in 1..templateVersion[q] : templatePast'[q][i] = templatePast[q][i]
    BY <1>3, <1>4
  <2> QED
    BY <2>1, <2>2, <2>3, ForwardStays
<1> QED
  BY <1>5, <1>6, <1>7, <1>8

\* Copies that looked forward still do when an update has committed.
LEMMA CopiesStay ==
  ASSUME W!TypeOK, CopiesForward, UNCHANGED <<templateCache, templateRead>>,
         NEW u \in Writers, NEW call \in W!Updating,
         templateUpdate' = [templateUpdate EXCEPT ![u] = call],
         Forward(templatePast'[call.template], templateVersion'[call.template],
                 call.copy),
         \A q \in Templates :
            /\ templateVersion[q] \in Nat /\ templateVersion'[q] \in Nat
            /\ templateVersion[q] <= templateVersion'[q]
            /\ \A c \in W!Template :
                 Forward(templatePast[q], templateVersion[q], c) =>
                   Forward(templatePast'[q], templateVersion'[q], c)
  PROVE  CopiesForward'
<1>1. ASSUME NEW q \in Templates, templateCache'[q] # W!Miss
      PROVE  Forward(templatePast'[q], templateVersion'[q], templateCache'[q])
  <2>1. templateCache[q] \in W!Template /\ templateCache'[q] = templateCache[q]
    BY <1>1 DEF W!TypeOK
  <2> QED
    BY <1>1, <2>1 DEF CopiesForward
<1>2. ASSUME NEW o \in Writers, templateUpdate'[o].at \in {"invalidate", "set"}
      PROVE  Forward(templatePast'[templateUpdate'[o].template],
                     templateVersion'[templateUpdate'[o].template],
                     templateUpdate'[o].copy)
  <2>1. CASE o = u
    BY <2>1 DEF W!TypeOK
  <2>2. CASE o # u
    <3>1. templateUpdate'[o] = templateUpdate[o]
      BY <2>2 DEF W!TypeOK
    <3>2. templateUpdate[o] \in W!Updating
      BY <1>2, <3>1, TemplateCalls
    <3>3. templateUpdate[o].template \in Templates /\ templateUpdate[o].copy \in W!Template
      BY <3>2 DEF W!Updating
    <3> QED
      BY <1>2, <3>1, <3>3 DEF CopiesForward
  <2> QED
    BY <2>1, <2>2
<1>3. ASSUME NEW r \in Readers, templateRead[r].at = "row"
      PROVE  templateRead[r].version <= templateVersion'[templateRead[r].template]
  <2>1. templateRead[r] \in W!Halfway
    BY <1>3, TemplateCalls
  <2>2. templateRead[r].template \in Templates /\ templateRead[r].version \in Nat
    BY <2>1, MaxVersionAssumption DEF W!Halfway, W!Versions
  <2> QED
    BY <1>3, <2>2 DEF CopiesForward
<1>4. ASSUME NEW r \in Readers, templateRead[r].at = "fetched"
      PROVE  Forward(templatePast'[templateRead[r].template],
                     templateVersion'[templateRead[r].template], templateRead[r].copy)
  <2>1. templateRead[r] \in W!Fetched
    BY <1>4, TemplateCalls
  <2>2. templateRead[r].template \in Templates /\ templateRead[r].copy \in W!Template
    BY <2>1 DEF W!Fetched
  <2> QED
    BY <1>4, <2>2 DEF CopiesForward
<1> QED
  BY <1>1, <1>2, <1>3, <1>4 DEF CopiesForward

LEMMA CreateTemplateStep ==
  ASSUME TemplateInv, NEW u \in Writers, NEW p \in Templates,
         NEW ts \in SUBSET Transitions, W!CreateTemplate(u, p, ts)
  PROVE  TemplateInv'
<1> USE DEF TemplateInv
<1> DEFINE copy == [version |-> 1, transitions |-> ts]
           call == [at |-> "set", template |-> p, copy |-> copy]
<1>1. /\ templateVersion[p] = 0
      /\ templateVersion' = [templateVersion EXCEPT ![p] = 1]
      /\ templateTransitions' = [templateTransitions EXCEPT ![p] = ts]
      /\ templatePast' = [templatePast EXCEPT ![p] = <<ts>>]
      /\ templateUpdate' = [templateUpdate EXCEPT ![u] = call]
      /\ UNCHANGED <<templateCache, templateRead>>
  BY DEF W!CreateTemplate
<1>2. templatePast[p] = <<>>
  BY <1>1 DEF RowsAreLast, W!TypeOK
<1>3. NextVersion(p, ts)
  BY <1>1, <1>2 DEF NextVersion
<1>4. call \in W!Updating /\ copy \in W!Template
  BY MaxVersionAssumption DEF W!Updating, W!Template, W!Versions
<1>5. templateVersion[p] < MaxVersion
  BY <1>1, MaxVersionAssumption
<1>6. /\ templateVersion' \in [Templates -> 0..MaxVersion]
      /\ templateTransitions' \in [Templates -> SUBSET Transitions]
      /\ templatePast' \in [Templates -> Seq(SUBSET Transitions)]
      /\ RowsAreLast'
      /\ Forward(templatePast'[p], templateVersion'[p],
                 [version |-> templateVersion[p] + 1, transitions |-> ts])
      /\ \A q \in Templates :
           /\ templateVersion[q] <= templateVersion'[q]
           /\ \A c \in W!Template :
                Forward(templatePast[q], templateVersion[q], c) =>
                  Forward(templatePast'[q], templateVersion'[q], c)
  BY <1>3, <1>5, NextVersionKeeps
<1>7. W!TypeOK'
  BY <1>1, <1>4, <1>6 DEF W!TypeOK
<1>8. LockIsHeld'
  BY <1>1 DEF LockIsHeld, W!TypeOK, W!Updating
<1>9. \A q \in Templates : templateVersion[q] \in Nat /\ templateVersion'[q] \in Nat
  BY <1>6 DEF W!TypeOK
<1>10. Forward(templatePast'[p], templateVersion'[p], copy)
  BY <1>1, <1>6
<1>11. CopiesForward'
  BY <1>1, <1>4, <1>6, <1>9, <1>10, CopiesStay
<1> QED
  BY <1>6, <1>7, <1>8, <1>11

LEMMA CommitTemplateStep ==
  ASSUME TemplateInv, NEW u \in Writers, W!CommitTemplate(u)
  PROVE  TemplateInv'
<1> USE DEF TemplateInv
<1>1. templateUpdate[u].at = "locked" /\ templateUpdate[u] \in W!Updating
  BY TemplateCalls DEF W!CommitTemplate
<1>2. PICK p \in Templates, ts \in SUBSET Transitions, v \in 1..MaxVersion :
           /\ p = templateUpdate[u].template
           /\ ts = templateUpdate[u].copy.transitions
           /\ v = templateUpdate[u].copy.version
           /\ templateUpdate[u].copy = [version |-> v, transitions |-> ts]
  BY <1>1 DEF W!Updating, W!Template, W!Versions
<1>3. v = templateVersion[p] + 1
  BY <1>1, <1>2 DEF LockIsHeld
<1> DEFINE copy == [version |-> v, transitions |-> ts]
           call == [at |-> "invalidate", template |-> p, copy |-> copy]
<1>4. call \in W!Updating /\ copy \in W!Template
  BY DEF W!Updating, W!Template, W!Versions
<1>5. templateUpdate[u] = [at |-> "locked", template |-> p, copy |-> copy]
  BY <1>1, <1>2 DEF W!Updating
<1>6. [templateUpdate[u] EXCEPT !.at = "invalidate"] = call
  BY <1>5
<1>7. templateUpdate' = [templateUpdate EXCEPT ![u] = call]
  BY <1>6 DEF W!CommitTemplate, W!TypeOK
<1>8. NextVersion(p, ts) /\ UNCHANGED <<templateCache, templateRead>>
  BY <1>2, <1>3 DEF W!CommitTemplate, NextVersion, W!TypeOK
<1>9. templateVersion[p] < MaxVersion
  BY <1>3, MaxVersionAssumption DEF W!TypeOK
<1>10. /\ templateVersion' \in [Templates -> 0..MaxVersion]
       /\ templateTransitions' \in [Templates -> SUBSET Transitions]
       /\ templatePast' \in [Templates -> Seq(SUBSET Transitions)]
       /\ RowsAreLast'
       /\ Forward(templatePast'[p], templateVersion'[p],
                  [version |-> templateVersion[p] + 1, transitions |-> ts])
       /\ \A q \in Templates :
            /\ templateVersion[q] <= templateVersion'[q]
            /\ \A c \in W!Template :
                 Forward(templatePast[q], templateVersion[q], c) =>
                   Forward(templatePast'[q], templateVersion'[q], c)
  BY <1>8, <1>9, NextVersionKeeps
<1>11. W!TypeOK'
  BY <1>4, <1>7, <1>8, <1>10 DEF W!TypeOK
<1>12. LockIsHeld'
  <2> SUFFICES ASSUME NEW o \in Writers, templateUpdate'[o].at = "locked"
               PROVE  /\ templateVersion'[templateUpdate'[o].template] > 0
                      /\ templateUpdate'[o].copy.version
                            = templateVersion'[templateUpdate'[o].template] + 1
                      /\ \A x \in Writers :
                            templateUpdate'[x].at = "locked"
                            /\ templateUpdate'[x].template = templateUpdate'[o].template
                              => x = o
    BY DEF LockIsHeld
  <2>1. o # u /\ templateUpdate'[o] = templateUpdate[o]
    BY <1>7 DEF W!TypeOK
  <2>2. templateUpdate[o].template # p
    BY <1>1, <1>2, <2>1 DEF LockIsHeld
  <2>3. \A q \in Templates : q # p => templateVersion'[q] = templateVersion[q]
    BY <1>8 DEF NextVersion, W!TypeOK
  <2>4. templateUpdate[o].template \in Templates
    BY <2>1, TemplateCalls DEF W!Updating
  <2>5. \A x \in Writers : templateUpdate'[x].at = "locked" =>
           templateUpdate'[x] = templateUpdate[x]
    BY <1>7 DEF W!TypeOK
  <2> QED
    BY <2>1, <2>2, <2>3, <2>4, <2>5 DEF LockIsHeld
<1>13. \A q \in Templates : templateVersion[q] \in Nat /\ templateVersion'[q] \in Nat
  BY <1>10 DEF W!TypeOK
<1>14. Forward(templatePast'[p], templateVersion'[p], copy)
  BY <1>3, <1>10
<1>15. CopiesForward'
  BY <1>4, <1>7, <1>8, <1>10, <1>13, <1>14, CopiesStay
<1> QED
  BY <1>10, <1>11, <1>12, <1>15

\* An update's steps: those that commit, and those that only move it on.
LEMMA TemplateUpdates ==
  ASSUME TemplateInv, NEW u \in Writers, W!UpdateStep(u)
  PROVE  TemplateInv'
<1> USE DEF TemplateInv
<1>1. ASSUME NEW p \in Templates, NEW ts \in SUBSET Transitions, W!LockTemplate(u, p, ts)
      PROVE  TemplateInv'
  <2> DEFINE copy == [version |-> templateVersion[p] + 1, transitions |-> ts]
             call == [at |-> "locked", template |-> p, copy |-> copy]
  <2>1. call \in W!Updating
    BY <1>1, MaxVersionAssumption
    DEF W!LockTemplate, W!Updating, W!Template, W!Versions, W!TypeOK
  <2>2. templateUpdate' = [templateUpdate EXCEPT ![u] = call]
    BY <1>1 DEF W!LockTemplate
  <2>3. W!TypeOK' /\ RowsAreLast'
    BY <1>1, <2>1, <2>2 DEF W!LockTemplate, W!TypeOK, RowsAreLast
  <2>4. LockIsHeld'
    BY <1>1, <2>2, MaxVersionAssumption DEF W!LockTemplate, W!TypeOK, LockIsHeld
  <2>5. CopiesForward'
    BY <1>1, <2>2 DEF W!LockTemplate, W!TypeOK, CopiesForward
  <2> QED
    BY <2>3, <2>4, <2>5
<1>2. ASSUME W!Rollback(u) \/ W!UpdateEnds(u) PROVE TemplateInv'
  <2>1. /\ templateUpdate' = [templateUpdate EXCEPT ![u] = W!Idle]
        /\ UNCHANGED <<templateVersion, templateTransitions, templateCache,
                       templateRead, templatePast>>
    BY <1>2 DEF W!Rollback, W!UpdateEnds
  <2>2. W!TypeOK' /\ RowsAreLast'
    BY <2>1 DEF W!TypeOK, RowsAreLast
  <2>3. LockIsHeld'
    BY <2>1 DEF W!TypeOK, LockIsHeld, W!Idle
  <2>4. CopiesForward'
    BY <2>1 DEF W!TypeOK, CopiesForward, W!Idle
  <2> QED
    BY <2>2, <2>3, <2>4
<1>3. ASSUME W!Invalidate(u) PROVE TemplateInv'
  <2>1. templateUpdate[u] \in W!Updating
    BY <1>3, TemplateCalls DEF W!Invalidate
  <2>2. PICK p \in Templates : p = templateUpdate[u].template
    BY <2>1 DEF W!Updating
  <2> DEFINE call == [templateUpdate[u] EXCEPT !.at = "set"]
  <2>3. /\ call \in W!Updating
        /\ call.at = "set" /\ call.template = p /\ call.copy = templateUpdate[u].copy
    BY <2>1, <2>2 DEF W!Updating
  <2>4. /\ templateUpdate' = [templateUpdate EXCEPT ![u] = call]
        /\ templateCache' \in {templateCache, [templateCache EXCEPT ![p] = W!Miss]}
        /\ UNCHANGED <<templateVersion, templateTransitions, templateRead, templatePast>>
    BY <1>3, <2>2 DEF W!Invalidate, W!TypeOK
  <2>5. W!TypeOK' /\ RowsAreLast'
    BY <2>3, <2>4 DEF W!TypeOK, RowsAreLast
  <2>6. LockIsHeld'
    BY <2>3, <2>4 DEF W!TypeOK, LockIsHeld
  <2>7. Forward(templatePast[p], templateVersion[p], templateUpdate[u].copy)
    BY <1>3, <2>2 DEF W!Invalidate, CopiesForward
  <2>8. CopiesForward'
    BY <2>3, <2>4, <2>7 DEF W!TypeOK, CopiesForward
  <2> QED
    BY <2>5, <2>6, <2>8
<1>4. ASSUME W!SetUpdated(u) PROVE TemplateInv'
  <2>1. templateUpdate[u] \in W!Updating
    BY <1>4, TemplateCalls DEF W!SetUpdated
  <2>2. PICK p \in Templates, c \in W!Template :
             p = templateUpdate[u].template /\ c = templateUpdate[u].copy
    BY <2>1 DEF W!Updating
  <2>3. Forward(templatePast[p], templateVersion[p], c)
    BY <1>4, <2>2 DEF W!SetUpdated, CopiesForward
  <2>4. /\ templateUpdate' = [templateUpdate EXCEPT ![u] = W!Idle]
        /\ templateCache' = [templateCache EXCEPT ![p] = c]
        /\ UNCHANGED <<templateVersion, templateTransitions, templateRead, templatePast>>
    BY <1>4, <2>2 DEF W!SetUpdated
  <2>5. W!TypeOK' /\ RowsAreLast' /\ LockIsHeld'
    BY <2>4 DEF W!TypeOK, RowsAreLast, LockIsHeld, W!Idle
  <2>6. CopiesForward'
    BY <2>3, <2>4 DEF W!TypeOK, CopiesForward, W!Idle
  <2> QED
    BY <2>5, <2>6
<1> QED
  BY <1>1, <1>2, <1>3, <1>4, CreateTemplateStep, CommitTemplateStep DEF W!UpdateStep

LEMMA TemplateStep ==
  ASSUME TemplateInv, W!Next PROVE TemplateInv'
<1>1. ASSUME NEW p \in Templates, W!Expire(p) PROVE TemplateInv'
  BY <1>1 DEF W!Expire, TemplateInv, W!TypeOK, RowsAreLast, LockIsHeld, CopiesForward
<1> QED
  BY <1>1, TemplateReads, TemplateUpdates DEF W!Next

-----------------------------------------------------------------------------
(* The rules engine                                                         *)

\* A rule has one archived row and one content for each of its versions, and
\* every archived row holds the content of a version it has had.
HistoryIsTrue ==
    \A r \in Rules : R!Live(r) =>
        /\ Len(archive[r]) = rules[r].version
        /\ Len(rulePast[r]) = rules[r].version
        /\ rulePast[r][rules[r].version] = rules[r].content
        /\ \A i \in 1..Len(archive[r]) :
              /\ archive[r][i].version <= rules[r].version
              /\ rulePast[r][archive[r][i].version] = archive[r][i].content

\* What an update knows of the rule: what it saw is a version the rule has had,
\* a rule it has archived a version of is not deleted, and the one update that
\* has written the row holds the next version.
Knows(e) ==
    LET r == ruleEdit[e].rule IN
    /\ rules[r] # R!Absent
    /\ R!Live(r) =>
          /\ ruleEdit[e].seen.version <= rules[r].version
          /\ rulePast[r][ruleEdit[e].seen.version] = ruleEdit[e].seen.content
          /\ ruleEdit[e].tenant = rules[r].tenant
    /\ ruleEdit[e].at \in {"archived", "written"} => R!Live(r)
    /\ ruleEdit[e].at = "written" =>
          /\ ruleEdit[e].row.version = rules[r].version + 1
          /\ ruleEdit[e].row.tenant = ruleEdit[e].tenant

UpdatesKnow ==
    /\ \A e \in Writers :
          ruleEdit[e].at \in {"selected", "archived", "written"} => Knows(e)
    /\ \A e, o \in Writers :
          ruleEdit[e].at = "written" /\ ruleEdit[o].at = "written"
          /\ ruleEdit[e].rule = ruleEdit[o].rule => e = o

\* Until two updates of a rule overlap there is at most one, and what it saw is
\* the current row.
AloneSeesCurrent ==
    \A r \in Rules \ ruleCrossed : \A e \in Writers : R!Updating(e, r) =>
        /\ R!Live(r) => ruleEdit[e].seen.version = rules[r].version
        /\ \A o \in Writers : R!Updating(o, r) => o = e

\* The list an evaluation holds is the current one until a commit races with it.
ListsCurrent ==
    \A v \in Readers : ruleEval[v].at = "listed" /\ ~ruleEval[v].raced =>
        ruleEval[v].list = R!EnabledIn(rules, ruleEval[v].tenant)

EditsInv == HistoryIsTrue /\ UpdatesKnow /\ AloneSeesCurrent /\ R!SupersededArchived
ListsInv == ListsCurrent /\ R!StaleOnlyWhenRaced
RulesInv == R!TypeOK /\ EditsInv /\ ListsInv

\* Each control state of an edit and of an evaluation carries what its step needs.
LEMMA RuleCalls ==
  ASSUME R!TypeOK
  PROVE  /\ \A e \in Writers :
              /\ ruleEdit[e].at \in {"selected", "archived"} =>
                    ruleEdit[e] \in R!Selected
              /\ ruleEdit[e].at = "written" => ruleEdit[e] \in R!Written
              /\ ruleEdit[e].at = "edited" => ruleEdit[e] \in R!Edited
         /\ \A v \in Readers :
              /\ ruleEval[v].at = "missed" => ruleEval[v] \in R!Listing
              /\ ruleEval[v].at = "listed" => ruleEval[v] \in R!Listed
BY DEF R!TypeOK, R!Idle, R!Selected, R!Written, R!Edited, R!Listing, R!Listed

\* An update names a rule and a tenant, and holds the version it saw.
LEMMA UpdatingCalls ==
  ASSUME R!TypeOK, NEW e \in Writers,
         ruleEdit[e].at \in {"selected", "archived", "written"}
  PROVE  /\ ruleEdit[e].rule \in Rules /\ ruleEdit[e].tenant \in Tenants
         /\ ruleEdit[e].seen \in R!Version
         /\ ruleEdit[e].seen.version \in 1..MaxVersion
BY RuleCalls DEF R!Selected, R!Written, R!Version

\* The rows of a rule and what the rule is.
LEMMA LiveRows ==
  ASSUME R!TypeOK, NEW r \in Rules, R!Live(r)
  PROVE  rules[r] \in R!Row /\ rules[r].version \in 1..MaxVersion
         /\ rules[r].tenant \in Tenants /\ rules[r].content \in Contents
BY DEF R!TypeOK, R!Live, R!Absent, R!Deleted, R!Row

\* The invariant says of the archive what the property does.
LEMMA HistoryIsEnough ==
  ASSUME RulesInv PROVE R!ArchiveIsTrue
BY DEF RulesInv, EditsInv, HistoryIsTrue, R!ArchiveIsTrue

\* The lists of enabled rules are sets of entries.
LEMMA EnabledType ==
  ASSUME R!TypeOK, NEW t \in Tenants
  PROVE  R!EnabledIn(rules, t) \subseteq R!Entry
<1> SUFFICES ASSUME NEW r \in Rules, rules[r].at = "row"
             PROVE  [rule |-> r, version |-> rules[r].version,
                     content |-> rules[r].content] \in R!Entry
  BY DEF R!EnabledIn
<1> QED
  BY LiveRows DEF R!Live, R!Entry

-----------------------------------------------------------------------------

\* Evaluations and Redis leave the store and the edits alone.
LEMMA EditsUntouched ==
  ASSUME EditsInv,
         UNCHANGED <<rules, archive, ruleEdit, rulePast, ruleCrossed>>
  PROVE  EditsInv'
BY DEF EditsInv, HistoryIsTrue, UpdatesKnow, Knows, AloneSeesCurrent,
   R!SupersededArchived, R!Live, R!Updating

LEMMA EvaluationStep ==
  ASSUME RulesInv, NEW v \in Readers, R!EvaluationStep(v)
  PROVE  RulesInv'
<1> USE DEF RulesInv, ListsInv
<1>1. EditsInv'
  BY EditsUntouched DEF R!EvaluationStep, R!GetRulesMisses, R!ListRules, R!SetRules,
     R!EvaluationEnds
<1>2. ASSUME NEW t \in Tenants, R!GetRulesMisses(v, t) PROVE R!TypeOK' /\ ListsInv'
  <2>1. [at |-> "missed", tenant |-> t] \in R!Listing
    BY DEF R!Listing
  <2> QED
    BY <1>2, <2>1 DEF R!GetRulesMisses, R!TypeOK, ListsCurrent, R!StaleOnlyWhenRaced
<1>3. ASSUME R!ListRules(v) PROVE R!TypeOK' /\ ListsInv'
  <2>1. PICK t \in Tenants : t = ruleEval[v].tenant
    BY <1>3, RuleCalls DEF R!ListRules, R!Listing
  <2> DEFINE call == [at |-> "listed", tenant |-> t,
                      list |-> R!EnabledIn(rules, t), raced |-> FALSE]
  <2>2. call \in R!Listed
    BY EnabledType DEF R!Listed
  <2>3. /\ ruleEval' = [ruleEval EXCEPT ![v] = call]
        /\ UNCHANGED <<rules, archive, ruleCache, ruleEdit, rulePast, ruleCrossed,
                       ruleStale>>
    BY <1>3, <2>1 DEF R!ListRules
  <2>4. R!TypeOK'
    BY <2>2, <2>3 DEF R!TypeOK
  <2>5. ListsCurrent'
    BY <2>3 DEF R!TypeOK, ListsCurrent
  <2>6. R!StaleOnlyWhenRaced'
    BY <2>3 DEF R!StaleOnlyWhenRaced
  <2> QED
    BY <2>4, <2>5, <2>6
<1>4. ASSUME R!SetRules(v) PROVE R!TypeOK' /\ ListsInv'
  <2>1. ruleEval[v] \in R!Listed
    BY <1>4, RuleCalls DEF R!SetRules
  <2>2. PICK t \in Tenants, list \in SUBSET R!Entry :
             t = ruleEval[v].tenant /\ list = ruleEval[v].list
    BY <2>1 DEF R!Listed
  <2>3. /\ ruleCache' = [ruleCache EXCEPT ![t] = list]
        /\ ruleStale' = IF ruleEval[v].raced THEN ruleStale \cup {t}
                        ELSE ruleStale \ {t}
        /\ ruleEval' = [ruleEval EXCEPT ![v] = R!Idle]
        /\ UNCHANGED <<rules, archive, ruleEdit, rulePast, ruleCrossed>>
    BY <1>4, <2>2 DEF R!SetRules
  <2>4. R!TypeOK'
    BY <2>3 DEF R!TypeOK
  <2>5. ListsCurrent'
    BY <2>3 DEF R!TypeOK, ListsCurrent, R!Idle
  <2>6. ~ruleEval[v].raced => list = R!EnabledIn(rules, t)
    BY <1>4, <2>2 DEF R!SetRules, ListsCurrent
  <2>7. R!StaleOnlyWhenRaced'
    BY <2>3, <2>6 DEF R!TypeOK, R!StaleOnlyWhenRaced
  <2> QED
    BY <2>4, <2>5, <2>7
<1>5. ASSUME R!EvaluationEnds(v) PROVE R!TypeOK' /\ ListsInv'
  BY <1>5 DEF R!EvaluationEnds, R!TypeOK, ListsCurrent, R!StaleOnlyWhenRaced, R!Idle
<1> QED
  BY <1>1, <1>2, <1>3, <1>4, <1>5 DEF R!EvaluationStep

LEMMA RulesExpire ==
  ASSUME RulesInv, NEW t \in Tenants, R!Expire(t)
  PROVE  RulesInv'
<1>1. EditsInv'
  BY EditsUntouched DEF RulesInv, R!Expire
<1>2. R!TypeOK' /\ ListsInv'
  BY DEF R!Expire, RulesInv, R!TypeOK, ListsInv, ListsCurrent, R!StaleOnlyWhenRaced,
     R!Miss
<1> QED
  BY <1>1, <1>2 DEF RulesInv

\* The steps of an update before its commit do nothing to the lists.
LEMMA ListsUntouched ==
  ASSUME R!TypeOK, ListsInv, UNCHANGED <<rules, ruleCache, ruleEval, ruleStale>>,
         NEW e \in Writers, ruleEdit[e].at # "edited",
         NEW call, ruleEdit' = [ruleEdit EXCEPT ![e] = call]
  PROVE  ListsInv'
<1>1. ListsCurrent'
  BY DEF ListsInv, ListsCurrent
<1>2. \A t \in Tenants :
        (\A o \in Writers : ruleEdit'[o].at = "edited" => ruleEdit'[o].tenant # t) =>
        \A o \in Writers : ruleEdit[o].at = "edited" => ruleEdit[o].tenant # t
  BY DEF R!TypeOK
<1>3. R!StaleOnlyWhenRaced'
  BY <1>2 DEF ListsInv, R!StaleOnlyWhenRaced
<1> QED
  BY <1>1, <1>3 DEF ListsInv

LEMMA SelectStep ==
  ASSUME RulesInv, NEW e \in Writers, NEW r \in Rules, NEW c \in Contents,
         NEW on \in BOOLEAN, R!SelectCurrent(e, r, c, on)
  PROVE  RulesInv'
<1> USE DEF RulesInv
<1> DEFINE seen == [version |-> rules[r].version, content |-> rules[r].content]
           call == [at |-> "selected", rule |-> r, tenant |-> rules[r].tenant,
                    seen |-> seen, content |-> c, enabled |-> on]
<1>1. /\ ruleEdit[e].at = "idle" /\ R!Live(r)
      /\ ruleEdit' = [ruleEdit EXCEPT ![e] = call]
      /\ ruleCrossed' = IF \E o \in Writers : R!Updating(o, r)
                        THEN ruleCrossed \cup {r} ELSE ruleCrossed
      /\ UNCHANGED <<rules, archive, ruleCache, ruleEval, rulePast, ruleStale>>
  BY DEF R!SelectCurrent, R!Idle
<1>2. rules[r] \in R!Row
  BY <1>1, LiveRows
<1>3. call \in R!Selected
  BY <1>2 DEF R!Row, R!Selected, R!Version
<1>4. R!TypeOK'
  BY <1>1, <1>3 DEF R!TypeOK
<1>5. /\ ruleEdit'[e] = call
      /\ \A o \in Writers \ {e} : ruleEdit'[o] = ruleEdit[o]
  BY <1>1 DEF R!TypeOK
<1>6. HistoryIsTrue' /\ R!SupersededArchived'
  BY <1>1 DEF EditsInv, HistoryIsTrue, R!SupersededArchived, R!Live
<1>7. UpdatesKnow'
  <2>1. Knows(e)'
    BY <1>1, <1>2, <1>5 DEF Knows, EditsInv, HistoryIsTrue, R!Live, R!Row, R!Absent
  <2>2. ASSUME NEW o \in Writers, o # e,
               ruleEdit[o].at \in {"selected", "archived", "written"}
        PROVE  Knows(o)'
    BY <1>1, <1>5, <2>2 DEF Knows, EditsInv, UpdatesKnow, R!Live
  <2> QED
    BY <1>5, <2>1, <2>2 DEF EditsInv, UpdatesKnow
<1>8. AloneSeesCurrent'
  <2> SUFFICES ASSUME NEW x \in Rules, x \notin ruleCrossed', NEW o \in Writers,
                      R!Updating(o, x)'
               PROVE  /\ R!Live(x) => ruleEdit'[o].seen.version = rules[x].version
                      /\ \A y \in Writers : R!Updating(y, x)' => y = o
    BY <1>1 DEF AloneSeesCurrent, R!Live
  <2>1. x \notin ruleCrossed
    BY <1>1
  <2>2. \A y \in Writers \ {e} : R!Updating(y, x)' <=> R!Updating(y, x)
    BY <1>5 DEF R!Updating
  <2>3. ~R!Updating(e, x) /\ (R!Updating(e, x)' => x = r)
    BY <1>1, <1>5 DEF R!Updating
  <2>4. CASE x = r
    <3>1. \A y \in Writers : ~R!Updating(y, r)
      BY <1>1, <2>4
    <3> QED
      BY <1>5, <2>2, <2>4, <3>1
  <2>5. CASE x # r
    <3>1. o # e /\ R!Updating(o, x)
      BY <2>2, <2>3, <2>5
    <3> QED
      BY <1>5, <2>1, <2>2, <2>3, <2>5, <3>1 DEF EditsInv, AloneSeesCurrent
  <2> QED
    BY <2>4, <2>5
<1>9. ListsInv'
  BY <1>1, ListsUntouched
<1> QED
  BY <1>4, <1>6, <1>7, <1>8, <1>9 DEF EditsInv

\* An update that moves on, or ends before its commit, with what it saw.
LEMMA UpdateMoves ==
  ASSUME RulesInv, NEW e \in Writers,
         ruleEdit[e].at \in {"selected", "archived", "written"},
         NEW call \in {R!Idle} \cup R!Selected \cup R!Written,
         ruleEdit' = [ruleEdit EXCEPT ![e] = call],
         UNCHANGED <<rules, archive, ruleCache, ruleEval, rulePast, ruleCrossed,
                     ruleStale>>,
         call.at # "idle" =>
            /\ call.rule = ruleEdit[e].rule /\ call.tenant = ruleEdit[e].tenant
            /\ call.seen = ruleEdit[e].seen
            /\ R!Live(call.rule),
         call.at = "written" =>
            /\ call.row.version = rules[call.rule].version + 1
            /\ call.row.tenant = call.tenant
            /\ \A o \in Writers :
                  ruleEdit[o].at = "written" => ruleEdit[o].rule # call.rule
  PROVE  RulesInv'
<1> USE DEF RulesInv
<1>1. R!TypeOK'
  BY DEF R!TypeOK
<1>2. /\ ruleEdit'[e] = call
      /\ \A o \in Writers \ {e} : ruleEdit'[o] = ruleEdit[o]
  BY DEF R!TypeOK
<1>3. HistoryIsTrue' /\ R!SupersededArchived'
  BY DEF EditsInv, HistoryIsTrue, R!SupersededArchived, R!Live
<1>4. UpdatesKnow'
  <2>1. ASSUME call.at # "idle" PROVE Knows(e)'
    BY <1>2, <2>1 DEF Knows, EditsInv, UpdatesKnow, R!Live
  <2>2. ASSUME NEW o \in Writers, o # e,
               ruleEdit[o].at \in {"selected", "archived", "written"}
        PROVE  Knows(o)'
    BY <1>2, <2>2 DEF Knows, EditsInv, UpdatesKnow, R!Live
  <2>3. \A x, y \in Writers :
           ruleEdit'[x].at = "written" /\ ruleEdit'[y].at = "written"
           /\ ruleEdit'[x].rule = ruleEdit'[y].rule => x = y
    BY <1>2 DEF EditsInv, UpdatesKnow
  <2> QED
    BY <1>2, <2>1, <2>2, <2>3 DEF UpdatesKnow
<1>5. AloneSeesCurrent'
  <2>1. \A o \in Writers, x \in Rules : R!Updating(o, x)' =>
           R!Updating(o, x) /\ ruleEdit'[o].seen = ruleEdit[o].seen
    BY <1>2 DEF R!Updating
  <2> QED
    BY <2>1 DEF EditsInv, AloneSeesCurrent, R!Live
<1>6. ListsInv'
  BY ListsUntouched
<1> QED
  BY <1>1, <1>3, <1>4, <1>5, <1>6 DEF EditsInv

LEMMA ArchiveStep ==
  ASSUME RulesInv, NEW e \in Writers, R!ArchiveVersion(e)
  PROVE  RulesInv'
<1>1. ruleEdit[e].at = "selected" /\ ruleEdit[e] \in R!Selected
  BY RuleCalls DEF R!ArchiveVersion, RulesInv
<1>2. /\ [ruleEdit[e] EXCEPT !.at = "archived"] \in R!Selected
      /\ [ruleEdit[e] EXCEPT !.at = "archived"].at = "archived"
      /\ [ruleEdit[e] EXCEPT !.at = "archived"].rule = ruleEdit[e].rule
      /\ [ruleEdit[e] EXCEPT !.at = "archived"].tenant = ruleEdit[e].tenant
      /\ [ruleEdit[e] EXCEPT !.at = "archived"].seen = ruleEdit[e].seen
  BY <1>1 DEF R!Selected
<1>3. PICK call : call = IF R!Live(ruleEdit[e].rule)
                         THEN [ruleEdit[e] EXCEPT !.at = "archived"] ELSE R!Idle
  OBVIOUS
<1>4. /\ ruleEdit' = [ruleEdit EXCEPT ![e] = call]
      /\ UNCHANGED <<rules, archive, ruleCache, ruleEval, rulePast, ruleCrossed,
                     ruleStale>>
  BY <1>3 DEF R!ArchiveVersion, RulesInv, R!TypeOK
<1>5. /\ call \in {R!Idle} \cup R!Selected \cup R!Written
      /\ call.at \in {"idle", "archived"}
      /\ call.at # "idle" =>
            /\ call.rule = ruleEdit[e].rule /\ call.tenant = ruleEdit[e].tenant
            /\ call.seen = ruleEdit[e].seen
            /\ R!Live(call.rule)
  BY <1>2, <1>3 DEF R!Idle
<1> QED
  BY <1>1, <1>4, <1>5, UpdateMoves

LEMMA WriteStep ==
  ASSUME RulesInv, NEW e \in Writers, R!WriteRow(e)
  PROVE  RulesInv'
<1> USE DEF RulesInv
<1>1. /\ ruleEdit[e].at = "archived" /\ ruleEdit[e] \in R!Selected
      /\ ruleEdit[e].rule \in Rules
  BY RuleCalls DEF R!WriteRow, R!Selected
<1>2. PICK r \in Rules : r = ruleEdit[e].rule
  BY <1>1
<1>3. R!Live(r) /\ rules[r].tenant = ruleEdit[e].tenant
  BY <1>1, <1>2 DEF EditsInv, UpdatesKnow, Knows
<1>4. /\ rules[r] \in R!Row /\ rules[r].version < MaxVersion
      /\ \A o \in Writers : ~(ruleEdit[o].at = "written" /\ ruleEdit[o].rule = r)
  BY <1>2, <1>3, LiveRows DEF R!WriteRow
<1>5. PICK row : row = [rules[r] EXCEPT !.version = @ + 1,
                                        !.content = ruleEdit[e].content,
                                        !.enabled = ruleEdit[e].enabled]
  OBVIOUS
<1>6. rules[r].version + 1 \in 1..MaxVersion
  BY <1>4, MaxVersionAssumption DEF R!Row
<1>7. /\ row \in R!Row /\ row.version = rules[r].version + 1
      /\ row.tenant = rules[r].tenant
  BY <1>1, <1>4, <1>5, <1>6 DEF R!Row, R!Selected
<1> DEFINE call == [at |-> "written", rule |-> r, tenant |-> ruleEdit[e].tenant,
                    seen |-> ruleEdit[e].seen, row |-> row]
<1>8. call \in R!Written
  BY <1>1, <1>7 DEF R!Selected, R!Written
<1>9. /\ ruleEdit' = [ruleEdit EXCEPT ![e] = call]
      /\ UNCHANGED <<rules, archive, ruleCache, ruleEval, rulePast, ruleCrossed,
                     ruleStale>>
  BY <1>2, <1>5 DEF R!WriteRow, R!TypeOK
<1> QED
  BY <1>1, <1>2, <1>3, <1>4, <1>7, <1>8, <1>9, UpdateMoves

LEMMA RollbackStep ==
  ASSUME RulesInv, NEW e \in Writers, R!Rollback(e)
  PROVE  RulesInv'
BY UpdateMoves DEF R!Rollback, R!Idle

\* An edit whose cached list is deleted, or may not have been, is over.
LEMMA InvalidateStep ==
  ASSUME RulesInv, NEW e \in Writers, R!Invalidate(e) \/ R!InvalidateFails(e)
  PROVE  RulesInv'
<1> USE DEF RulesInv
<1>1. ruleEdit[e].at = "edited" /\ ruleEdit[e] \in R!Edited
  BY RuleCalls DEF R!Invalidate, R!InvalidateFails
<1>2. PICK t \in Tenants : t = ruleEdit[e].tenant
  BY <1>1 DEF R!Edited
<1>3. /\ ruleEdit' = [ruleEdit EXCEPT ![e] = R!Idle]
      /\ UNCHANGED <<rules, archive, ruleEval, rulePast, ruleCrossed>>
      /\ \/ ruleCache' = [ruleCache EXCEPT ![t] = R!Miss] /\ ruleStale' = ruleStale \ {t}
         \/ ruleCache' = ruleCache /\ ruleStale' = ruleStale \cup {t}
  BY <1>2 DEF R!Invalidate, R!InvalidateFails
<1>4. /\ ruleEdit'[e] = R!Idle
      /\ \A o \in Writers \ {e} : ruleEdit'[o] = ruleEdit[o]
  BY <1>3 DEF R!TypeOK
<1>5. R!TypeOK'
  BY <1>3 DEF R!TypeOK, R!Miss
<1>6. HistoryIsTrue' /\ R!SupersededArchived'
  BY <1>3 DEF EditsInv, HistoryIsTrue, R!SupersededArchived, R!Live
<1>7. \A o \in Writers : ruleEdit'[o].at # "idle" => ruleEdit'[o] = ruleEdit[o]
  BY <1>4 DEF R!Idle
<1>8. UpdatesKnow'
  BY <1>3, <1>7 DEF EditsInv, UpdatesKnow, Knows, R!Live
<1>9. AloneSeesCurrent'
  BY <1>3, <1>7 DEF EditsInv, AloneSeesCurrent, R!Live, R!Updating
<1>10. ListsCurrent'
  BY <1>3 DEF ListsInv, ListsCurrent
<1>11. R!StaleOnlyWhenRaced'
  <2> SUFFICES ASSUME NEW p \in Tenants, p \notin ruleStale',
                      \A o \in Writers : ruleEdit'[o].at = "edited" =>
                         ruleEdit'[o].tenant # p
               PROVE  ruleCache'[p] \in {R!Miss, R!EnabledIn(rules, p)}
    BY <1>3 DEF R!StaleOnlyWhenRaced
  <2>1. CASE p = t
    BY <1>3, <2>1 DEF R!TypeOK
  <2>2. CASE p # t
    <3>1. p \notin ruleStale /\ ruleCache'[p] = ruleCache[p]
      BY <1>3, <2>2 DEF R!TypeOK
    <3>2. \A o \in Writers : ruleEdit[o].at = "edited" => ruleEdit[o].tenant # p
      BY <1>2, <1>4, <2>2
    <3> QED
      BY <3>1, <3>2 DEF ListsInv, R!StaleOnlyWhenRaced
  <2> QED
    BY <2>1, <2>2
<1> QED
  BY <1>5, <1>6, <1>8, <1>9, <1>10, <1>11 DEF EditsInv, ListsInv

-----------------------------------------------------------------------------

\* A commit that changes a rule of tenant t leaves the others' lists as they are.
LEMMA ElsewhereSame ==
  ASSUME R!TypeOK, NEW r \in Rules, NEW t \in Tenants, NEW row,
         rules' = [rules EXCEPT ![r] = row],
         R!Live(r) => rules[r].tenant = t,
         row.at = "row" => row.tenant = t
  PROVE  \A p \in Tenants \ {t} : R!EnabledIn(rules', p) = R!EnabledIn(rules, p)
<1> TAKE p \in Tenants \ {t}
<1>1. rules'[r] = row /\ \A x \in Rules \ {r} : rules'[x] = rules[x]
  BY DEF R!TypeOK
<1> DEFINE On(store) == {x \in Rules : /\ store[x].at = "row"
                                       /\ store[x].tenant = p
                                       /\ store[x].enabled}
<1>2. On(rules') = On(rules) /\ r \notin On(rules)
  BY <1>1 DEF R!Live
<1>3. \A x \in On(rules) : rules'[x] = rules[x]
  BY <1>1, <1>2
<1> QED
  BY <1>2, <1>3 DEF R!EnabledIn

\* The lists after a commit: those of the tenant are marked, in the evaluations by
\* the race and in Redis by the edit that has yet to delete it.
LEMMA CommittedLists ==
  ASSUME R!TypeOK, ListsInv, NEW r \in Rules, NEW t \in Tenants, NEW row,
         R!Committed(t, [rules EXCEPT ![r] = row]),
         R!Live(r) => rules[r].tenant = t,
         row.at = "row" => row.tenant = t,
         NEW e \in Writers, ruleEdit[e].at # "edited",
         ruleEdit' = [ruleEdit EXCEPT ![e] = [at |-> "edited", tenant |-> t]],
         UNCHANGED <<ruleCache, ruleStale>>
  PROVE  /\ ListsInv'
         /\ ruleEval' \in [Readers -> {R!Idle} \cup R!Listing \cup R!Listed]
<1>1. /\ rules' = [rules EXCEPT ![r] = row]
      /\ ruleEval' = [v \in Readers |->
                        IF ruleEval[v].at = "listed" /\ ruleEval[v].tenant = t
                        THEN [ruleEval[v] EXCEPT !.raced = TRUE] ELSE ruleEval[v]]
  BY DEF R!Committed
<1>2. \A p \in Tenants \ {t} : R!EnabledIn(rules', p) = R!EnabledIn(rules, p)
  BY <1>1, ElsewhereSame
<1>3. ASSUME NEW v \in Readers
      PROVE  /\ ruleEval'[v] \in {R!Idle} \cup R!Listing \cup R!Listed
             /\ ruleEval'[v].at = "listed" /\ ~ruleEval'[v].raced =>
                   /\ ruleEval'[v] = ruleEval[v]
                   /\ ruleEval[v].tenant \in Tenants \ {t}
  <2>1. CASE ruleEval[v].at = "listed" /\ ruleEval[v].tenant = t
    <3>1. ruleEval[v] \in R!Listed
      BY <2>1, RuleCalls
    <3>2. /\ [ruleEval[v] EXCEPT !.raced = TRUE] \in R!Listed
          /\ [ruleEval[v] EXCEPT !.raced = TRUE].raced = TRUE
      BY <3>1 DEF R!Listed
    <3> QED
      BY <1>1, <2>1, <3>2
  <2>2. CASE ~(ruleEval[v].at = "listed" /\ ruleEval[v].tenant = t)
    <3>1. ruleEval'[v] = ruleEval[v]
      BY <1>1, <2>2
    <3>2. ruleEval[v].at = "listed" => ruleEval[v].tenant \in Tenants
      BY RuleCalls DEF R!Listed
    <3> QED
      BY <2>2, <3>1, <3>2 DEF R!TypeOK
  <2> QED
    BY <2>1, <2>2
<1>4. ruleEval' \in [Readers -> {R!Idle} \cup R!Listing \cup R!Listed]
  BY <1>1, <1>3
<1>5. ListsCurrent'
  BY <1>2, <1>3 DEF ListsInv, ListsCurrent
<1>6. R!StaleOnlyWhenRaced'
  <2>1. /\ ruleEdit'[e] = [at |-> "edited", tenant |-> t]
        /\ \A o \in Writers : ruleEdit[o].at = "edited" => ruleEdit'[o] = ruleEdit[o]
    BY DEF R!TypeOK
  <2> QED
    BY <1>2, <2>1 DEF ListsInv, R!StaleOnlyWhenRaced, R!TypeOK
<1> QED
  BY <1>4, <1>5, <1>6 DEF ListsInv

LEMMA CreateRuleStep ==
  ASSUME RulesInv, NEW e \in Writers, NEW r \in Rules, NEW t \in Tenants,
         NEW c \in Contents, R!CreateRule(e, r, t, c)
  PROVE  RulesInv'
<1> USE DEF RulesInv
<1> DEFINE row == [at |-> "row", tenant |-> t, version |-> 1,
                   content |-> c, enabled |-> TRUE]
           seen == [version |-> 1, content |-> c]
           call == [at |-> "edited", tenant |-> t]
<1>1. /\ ruleEdit[e].at = "idle" /\ rules[r] = R!Absent
      /\ R!Committed(t, [rules EXCEPT ![r] = row])
      /\ rules' = [rules EXCEPT ![r] = row]
      /\ archive' = [archive EXCEPT ![r] = <<seen>>]
      /\ rulePast' = [rulePast EXCEPT ![r] = <<c>>]
      /\ ruleEdit' = [ruleEdit EXCEPT ![e] = call]
      /\ UNCHANGED <<ruleCache, ruleCrossed, ruleStale>>
  BY DEF R!CreateRule, R!Idle, R!Committed
<1>2. row \in R!Row /\ seen \in R!Version /\ call \in R!Edited
  BY MaxVersionAssumption DEF R!Row, R!Version, R!Edited
<1>3. /\ ListsInv'
      /\ ruleEval' \in [Readers -> {R!Idle} \cup R!Listing \cup R!Listed]
  <2>1. ~R!Live(r) /\ row.tenant = t
    BY <1>1 DEF R!Live, R!Absent
  <2> HIDE DEF row
  <2> QED
    BY <1>1, <2>1, CommittedLists
<1>4. <<seen>> \in Seq(R!Version) /\ <<c>> \in Seq(Contents)
  BY <1>2
<1>5. R!TypeOK'
  BY <1>1, <1>2, <1>3, <1>4 DEF R!TypeOK
<1>6. /\ rules'[r] = row /\ archive'[r] = <<seen>> /\ rulePast'[r] = <<c>>
      /\ \A x \in Rules \ {r} : /\ rules'[x] = rules[x]
                                /\ archive'[x] = archive[x]
                                /\ rulePast'[x] = rulePast[x]
      /\ ruleEdit'[e] = call
      /\ \A o \in Writers \ {e} : ruleEdit'[o] = ruleEdit[o]
  BY <1>1 DEF R!TypeOK
<1>7. HistoryIsTrue'
  <2>1. /\ Len(archive'[r]) = 1 /\ archive'[r][1] = seen
        /\ Len(rulePast'[r]) = 1 /\ rulePast'[r][1] = c
    BY <1>6
  <2>2. /\ rules'[r].version = 1 /\ rules'[r].content = c
        /\ seen.version = 1 /\ seen.content = c
    BY <1>6
  <2> HIDE DEF row, seen
  <2>3. archive'[r][1].version = 1 /\ archive'[r][1].content = c
    BY <2>1, <2>2
  <2>4. \A i \in 1..Len(archive'[r]) : i = 1
    BY <2>1
  <2> SUFFICES ASSUME NEW x \in Rules, rules'[x].at = "row"
               PROVE  /\ Len(archive'[x]) = rules'[x].version
                      /\ Len(rulePast'[x]) = rules'[x].version
                      /\ rulePast'[x][rules'[x].version] = rules'[x].content
                      /\ \A i \in 1..Len(archive'[x]) :
                            /\ archive'[x][i].version <= rules'[x].version
                            /\ rulePast'[x][archive'[x][i].version]
                                  = archive'[x][i].content
    BY DEF HistoryIsTrue, R!Live
  <2>5. CASE x = r
    <3>1. \A i \in 1..Len(archive'[r]) :
             archive'[r][i].version = 1 /\ archive'[r][i].content = c
      BY <2>3, <2>4
    <3>2. \A i \in 1..Len(archive'[r]) :
             /\ archive'[r][i].version <= rules'[r].version
             /\ rulePast'[r][archive'[r][i].version] = archive'[r][i].content
      BY <2>1, <2>2, <3>1
    <3>3. /\ Len(archive'[r]) = rules'[r].version
          /\ Len(rulePast'[r]) = rules'[r].version
          /\ rulePast'[r][rules'[r].version] = rules'[r].content
      BY <2>1, <2>2
    <3> QED
      BY <2>5, <3>2, <3>3
  <2>6. CASE x # r
    BY <1>6, <2>6 DEF EditsInv, HistoryIsTrue, R!Live
  <2> QED
    BY <2>5, <2>6
<1>8. R!SupersededArchived'
  BY <1>1, <1>6 DEF EditsInv, R!SupersededArchived, R!Live
<1>9. \A o \in Writers : ruleEdit'[o].at \in {"selected", "archived", "written"} =>
         o # e /\ ruleEdit'[o] = ruleEdit[o] /\ ruleEdit[o].rule \in Rules \ {r}
  BY <1>1, <1>6, UpdatingCalls DEF EditsInv, UpdatesKnow, Knows
<1>10. UpdatesKnow'
  BY <1>6, <1>9 DEF EditsInv, UpdatesKnow, Knows, R!Live
<1>11. AloneSeesCurrent'
  BY <1>1, <1>6, <1>9 DEF EditsInv, AloneSeesCurrent, R!Live, R!Updating
<1> QED
  BY <1>3, <1>5, <1>7, <1>8, <1>10, <1>11 DEF EditsInv

LEMMA DeleteRuleStep ==
  ASSUME RulesInv, NEW e \in Writers, NEW r \in Rules, R!DeleteRule(e, r)
  PROVE  RulesInv'
<1> USE DEF RulesInv
<1>1. R!Live(r) /\ rules[r].tenant \in Tenants
  BY LiveRows DEF R!DeleteRule
<1>2. PICK t \in Tenants : t = rules[r].tenant
  BY <1>1
<1> DEFINE call == [at |-> "edited", tenant |-> t]
<1>3. /\ ruleEdit[e].at = "idle"
      /\ \A o \in Writers : R!Updating(o, r) => ruleEdit[o].at = "selected"
      /\ R!Committed(t, [rules EXCEPT ![r] = R!Deleted])
      /\ rules' = [rules EXCEPT ![r] = R!Deleted]
      /\ archive' = [archive EXCEPT ![r] = <<>>]
      /\ ruleEdit' = [ruleEdit EXCEPT ![e] = call]
      /\ UNCHANGED <<ruleCache, rulePast, ruleCrossed, ruleStale>>
  BY <1>2 DEF R!DeleteRule, R!Idle, R!Committed
<1>4. /\ ListsInv'
      /\ ruleEval' \in [Readers -> {R!Idle} \cup R!Listing \cup R!Listed]
  BY <1>2, <1>3, CommittedLists DEF R!Deleted
<1>5. call \in R!Edited
  BY DEF R!Edited
<1>6. R!TypeOK'
  BY <1>3, <1>4, <1>5 DEF R!TypeOK
<1>7. /\ rules'[r] = R!Deleted /\ R!Deleted.at = "deleted" /\ R!Deleted # R!Absent
      /\ \A x \in Rules \ {r} : /\ rules'[x] = rules[x]
                                /\ archive'[x] = archive[x]
      /\ ruleEdit'[e] = call
      /\ \A o \in Writers \ {e} : ruleEdit'[o] = ruleEdit[o]
  BY <1>3 DEF R!TypeOK, R!Deleted, R!Absent
<1>8. HistoryIsTrue'
  BY <1>3, <1>7 DEF EditsInv, HistoryIsTrue, R!Live
<1>9. R!SupersededArchived'
  BY <1>3, <1>7 DEF EditsInv, R!SupersededArchived, R!Live
<1>10. \A o \in Writers : ruleEdit'[o].at \in {"selected", "archived", "written"} =>
          /\ ruleEdit'[o] = ruleEdit[o] /\ ruleEdit[o].rule \in Rules
          /\ ruleEdit[o].rule = r => ruleEdit[o].at = "selected"
  BY <1>3, <1>7, UpdatingCalls DEF R!Updating
<1>11. UpdatesKnow'
  BY <1>3, <1>7, <1>10 DEF EditsInv, UpdatesKnow, Knows, R!Live
<1>12. AloneSeesCurrent'
  BY <1>3, <1>7, <1>10 DEF EditsInv, AloneSeesCurrent, R!Live, R!Updating
<1> QED
  BY <1>4, <1>6, <1>8, <1>9, <1>11, <1>12 DEF EditsInv

\* The commit of an update: the next version of the row, what it replaced as the
\* update saw it, and what every other update of the rule still knows.
LEMMA CommitUpdateStep ==
  ASSUME RulesInv, NEW e \in Writers, R!CommitUpdate(e)
  PROVE  RulesInv'
<1> USE DEF RulesInv
<1>1. ruleEdit[e].at = "written" /\ ruleEdit[e] \in R!Written
  BY RuleCalls DEF R!CommitUpdate
<1>2. PICK r \in Rules, t \in Tenants, seen \in R!Version, row \in R!Row :
           /\ r = ruleEdit[e].rule /\ t = ruleEdit[e].tenant
           /\ seen = ruleEdit[e].seen /\ row = ruleEdit[e].row
  BY <1>1 DEF R!Written
<1> DEFINE call == [at |-> "edited", tenant |-> t]
           n == rules[r].version
<1>3. /\ R!Committed(t, [rules EXCEPT ![r] = row])
      /\ rules' = [rules EXCEPT ![r] = row]
      /\ archive' = [archive EXCEPT ![r] = Append(@, seen)]
      /\ rulePast' = [rulePast EXCEPT ![r] = Append(@, row.content)]
      /\ ruleEdit' = [ruleEdit EXCEPT ![e] = call]
      /\ UNCHANGED <<ruleCache, ruleCrossed, ruleStale>>
  BY <1>2 DEF R!CommitUpdate, R!Committed, R!TypeOK
<1>4. /\ R!Live(r) /\ rules[r].tenant = t
      /\ seen.version <= n /\ rulePast[r][seen.version] = seen.content
      /\ row.version = n + 1 /\ row.tenant = t
  BY <1>1, <1>2 DEF EditsInv, UpdatesKnow, Knows
<1>5. \A o \in Writers \ {e} : ruleEdit[o].at = "written" => ruleEdit[o].rule # r
  BY <1>1, <1>2 DEF EditsInv, UpdatesKnow
<1>6. n \in 1..MaxVersion /\ n \in Nat /\ seen.version \in 1..n
  BY <1>4, LiveRows, MaxVersionAssumption DEF R!Version
<1>7. row.at = "row" /\ row.content \in Contents /\ call \in R!Edited
  BY DEF R!Row, R!Edited
<1>8. /\ ListsInv'
      /\ ruleEval' \in [Readers -> {R!Idle} \cup R!Listing \cup R!Listed]
  BY <1>1, <1>3, <1>4, CommittedLists
<1>9. archive[r] \in Seq(R!Version) /\ rulePast[r] \in Seq(Contents)
  BY DEF R!TypeOK
<1>10. /\ Append(archive[r], seen) \in Seq(R!Version)
       /\ Append(rulePast[r], row.content) \in Seq(Contents)
  BY <1>7, <1>9
<1>11. R!TypeOK'
  BY <1>3, <1>7, <1>8, <1>10 DEF R!TypeOK
<1>12. /\ rules'[r] = row
       /\ archive'[r] = Append(archive[r], seen)
       /\ rulePast'[r] = Append(rulePast[r], row.content)
       /\ \A x \in Rules \ {r} : /\ rules'[x] = rules[x]
                                 /\ archive'[x] = archive[x]
                                 /\ rulePast'[x] = rulePast[x]
       /\ ruleEdit'[e] = call
       /\ \A o \in Writers \ {e} : ruleEdit'[o] = ruleEdit[o]
  BY <1>3 DEF R!TypeOK
<1>13. /\ Len(archive[r]) = n /\ Len(rulePast[r]) = n
       /\ \A i \in 1..n : /\ archive[r][i].version <= n
                          /\ rulePast[r][archive[r][i].version] = archive[r][i].content
  BY <1>4 DEF EditsInv, HistoryIsTrue
<1>14. /\ Len(archive'[r]) = n + 1 /\ archive'[r][n + 1] = seen
       /\ Len(rulePast'[r]) = n + 1 /\ rulePast'[r][n + 1] = row.content
       /\ \A i \in 1..n : /\ archive'[r][i] = archive[r][i]
                          /\ rulePast'[r][i] = rulePast[r][i]
  BY <1>6, <1>9, <1>12, <1>13
<1>15. HistoryIsTrue'
  <2>1. ASSUME NEW i \in 1..(n + 1)
        PROVE  /\ archive'[r][i].version <= n + 1
               /\ rulePast'[r][archive'[r][i].version] = archive'[r][i].content
    <3>1. CASE i = n + 1
      <4>1. archive'[r][i] = seen
        BY <1>14, <3>1
      <4>2. seen.version <= n + 1 /\ rulePast'[r][seen.version] = seen.content
        BY <1>4, <1>6, <1>14
      <4> QED
        BY <4>1, <4>2
    <3>2. CASE i \in 1..n
      <4>1. archive[r][i] \in R!Version
        BY <1>9, <1>13, <3>2
      <4>2. PICK w \in 1..MaxVersion : w = archive[r][i].version
        BY <4>1 DEF R!Version
      <4>3. w \in 1..n /\ rulePast[r][w] = archive[r][i].content
        BY <1>6, <1>13, <3>2, <4>2, MaxVersionAssumption
      <4>4. w <= n + 1 /\ rulePast'[r][w] = archive[r][i].content
        BY <1>6, <1>14, <4>3
      <4>5. archive'[r][i] = archive[r][i]
        BY <1>14, <3>2
      <4> QED
        BY <4>2, <4>4, <4>5
    <3> QED
      BY <1>6, <3>1, <3>2
  <2>2. rules'[r].version = n + 1 /\ rules'[r].content = row.content
    BY <1>4, <1>12
  <2> SUFFICES ASSUME NEW x \in Rules, rules'[x].at = "row"
               PROVE  /\ Len(archive'[x]) = rules'[x].version
                      /\ Len(rulePast'[x]) = rules'[x].version
                      /\ rulePast'[x][rules'[x].version] = rules'[x].content
                      /\ \A i \in 1..Len(archive'[x]) :
                            /\ archive'[x][i].version <= rules'[x].version
                            /\ rulePast'[x][archive'[x][i].version]
                                  = archive'[x][i].content
    BY DEF HistoryIsTrue, R!Live
  <2>3. CASE x = r
    BY <1>14, <2>1, <2>2, <2>3
  <2>4. CASE x # r
    BY <1>12, <2>4 DEF EditsInv, HistoryIsTrue, R!Live
  <2> QED
    BY <2>3, <2>4
<1>16. R!SupersededArchived'
  <2> SUFFICES ASSUME NEW x \in Rules \ ruleCrossed, rules'[x].at = "row",
                      NEW v \in 1..(rules'[x].version - 1)
               PROVE  \E i \in 1..Len(archive'[x]) :
                         archive'[x][i] = [version |-> v, content |-> rulePast'[x][v]]
    BY <1>3 DEF R!SupersededArchived, R!Live
  <2>1. CASE x # r
    BY <1>12, <2>1 DEF EditsInv, R!SupersededArchived, R!Live
  <2>2. CASE x = r
    <3>1. v \in 1..n
      BY <1>4, <1>6, <1>12, <2>2
    <3>2. CASE v = n
      <4>1. seen.version = n
        BY <1>1, <1>2, <1>4, <2>2 DEF EditsInv, AloneSeesCurrent, R!Updating
      <4>2. seen = [version |-> n, content |-> rulePast[r][n]]
        BY <1>4, <4>1 DEF R!Version
      <4>3. archive'[r][n + 1] = [version |-> n, content |-> rulePast'[r][n]]
        BY <1>6, <1>14, <4>2
      <4> QED
        BY <1>6, <1>14, <2>2, <3>2, <4>3
    <3>3. CASE v # n
      <4>1. v \in 1..(n - 1)
        BY <1>6, <3>1, <3>3
      <4>2. PICK i \in 1..n : archive[r][i] = [version |-> v, content |-> rulePast[r][v]]
        BY <1>4, <1>13, <2>2, <4>1 DEF EditsInv, R!SupersededArchived
      <4>3. i \in 1..Len(archive'[r])
        BY <1>6, <1>14, <4>2
      <4>4. archive'[r][i] = [version |-> v, content |-> rulePast'[r][v]]
        BY <1>14, <3>1, <4>2
      <4> QED
        BY <2>2, <4>3, <4>4
    <3> QED
      BY <3>2, <3>3
  <2> QED
    BY <2>1, <2>2
<1>17. \A o \in Writers : ruleEdit'[o].at \in {"selected", "archived", "written"} =>
          /\ o # e /\ ruleEdit'[o] = ruleEdit[o]
          /\ ruleEdit[o].rule \in Rules /\ ruleEdit[o].seen.version \in 1..MaxVersion
  BY <1>12, UpdatingCalls
<1>18. UpdatesKnow'
  <2>1. ASSUME NEW o \in Writers,
               ruleEdit'[o].at \in {"selected", "archived", "written"}
        PROVE  Knows(o)'
    <3>1. /\ o # e /\ ruleEdit'[o] = ruleEdit[o]
          /\ ruleEdit[o].rule \in Rules /\ ruleEdit[o].seen.version \in 1..MaxVersion
          /\ Knows(o)
      BY <1>17, <2>1 DEF EditsInv, UpdatesKnow
    <3>2. CASE ruleEdit[o].rule # r
      BY <1>12, <3>1, <3>2 DEF Knows, R!Live
    <3>3. CASE ruleEdit[o].rule = r
      <4>1. ruleEdit[o].at # "written"
        BY <1>5, <3>1, <3>3
      <4>2. /\ ruleEdit[o].seen.version <= n
            /\ rulePast[r][ruleEdit[o].seen.version] = ruleEdit[o].seen.content
            /\ ruleEdit[o].tenant = t
        BY <1>4, <3>1, <3>3 DEF Knows
      <4>3. ruleEdit[o].seen.version \in 1..n
        BY <1>6, <3>1, <4>2, MaxVersionAssumption
      <4>4. /\ rules'[r].at = "row" /\ rules'[r].version = n + 1
            /\ rules'[r].tenant = t /\ rules'[r] # R!Absent
        BY <1>4, <1>7, <1>12 DEF R!Absent
      <4>5. /\ ruleEdit[o].seen.version <= n + 1
            /\ rulePast'[r][ruleEdit[o].seen.version] = ruleEdit[o].seen.content
        BY <1>6, <1>14, <4>2, <4>3
      <4> QED
        BY <3>1, <3>3, <4>1, <4>2, <4>4, <4>5 DEF Knows, R!Live
    <3> QED
      BY <3>2, <3>3
  <2>2. \A x, y \in Writers :
           ruleEdit'[x].at = "written" /\ ruleEdit'[y].at = "written"
           /\ ruleEdit'[x].rule = ruleEdit'[y].rule => x = y
    BY <1>17 DEF EditsInv, UpdatesKnow
  <2> QED
    BY <2>1, <2>2 DEF UpdatesKnow
<1>19. AloneSeesCurrent'
  <2> SUFFICES ASSUME NEW x \in Rules \ ruleCrossed, NEW o \in Writers,
                      R!Updating(o, x)'
               PROVE  /\ rules'[x].at = "row" =>
                            ruleEdit'[o].seen.version = rules'[x].version
                      /\ \A y \in Writers : R!Updating(y, x)' => y = o
    BY <1>3 DEF AloneSeesCurrent, R!Live
  <2>1. \A y \in Writers : R!Updating(y, x)' =>
           y # e /\ ruleEdit'[y] = ruleEdit[y] /\ R!Updating(y, x)
    BY <1>17 DEF R!Updating
  <2>2. x # r
    BY <1>1, <1>2, <2>1 DEF EditsInv, AloneSeesCurrent, R!Updating
  <2> QED
    BY <1>12, <2>1, <2>2 DEF EditsInv, AloneSeesCurrent, R!Live
<1> QED
  BY <1>8, <1>11, <1>15, <1>16, <1>18, <1>19 DEF EditsInv

LEMMA RulesStepKeeps ==
  ASSUME RulesInv, R!Next PROVE RulesInv'
BY CreateRuleStep, SelectStep, ArchiveStep, WriteStep, CommitUpdateStep, RollbackStep,
   DeleteRuleStep, InvalidateStep, EvaluationStep, RulesExpire DEF R!Next, R!EditStep

-----------------------------------------------------------------------------
(* The services side by side                                                *)

IInv == RulesInv /\ TemplateInv /\ ConfigInv /\ GatewayInv

LEMMA InitInv == Init => IInv
<1> SUFFICES ASSUME Init PROVE IInv
  OBVIOUS
<1>1. RulesInv
  BY DEF Init, R!Init, RulesInv, R!TypeOK, EditsInv, HistoryIsTrue, UpdatesKnow,
     AloneSeesCurrent, R!SupersededArchived, ListsInv, ListsCurrent,
     R!StaleOnlyWhenRaced, R!Live, R!Updating, R!Absent, R!Idle, R!Miss
<1>2. TemplateInv
  BY MaxVersionAssumption DEF Init, W!Init, TemplateInv, W!TypeOK, RowsAreLast,
     LockIsHeld, CopiesForward, W!Idle, W!Miss
<1>3. ConfigInv
  BY DEF Init, T!Init, ConfigInv, T!TypeOK, HeldWereInForce, T!Absent, T!Miss, T!Idle
<1>4. GatewayInv
  BY DEF Init, G!Init, GatewayInv, GatewayTypeOK, ViewWasInForce, G!Idle, G!NoResult
<1> QED
  BY <1>1, <1>2, <1>3, <1>4 DEF IInv

\* What no step of a service changes, its invariant does not notice.
LEMMA RulesUntouched ==
  ASSUME RulesInv, UNCHANGED RuleVars PROVE RulesInv'
BY DEF RuleVars, RulesInv, R!TypeOK, EditsInv, HistoryIsTrue, UpdatesKnow, Knows,
   AloneSeesCurrent, R!SupersededArchived, ListsInv, ListsCurrent,
   R!StaleOnlyWhenRaced, R!EnabledIn, R!Live, R!Updating

LEMMA TemplatesUntouched ==
  ASSUME TemplateInv, UNCHANGED TemplateVars PROVE TemplateInv'
BY DEF TemplateVars, TemplateInv, W!TypeOK, RowsAreLast, LockIsHeld, CopiesForward

LEMMA ConfigUntouched ==
  ASSUME ConfigInv, UNCHANGED ConfigVars PROVE ConfigInv'
BY DEF ConfigVars, ConfigInv, T!TypeOK, HeldWereInForce

LEMMA ViewUntouched ==
  ASSUME GatewayInv, UNCHANGED ViewVars,
         \A t \in Tenants : configPast[t] \subseteq configPast'[t]
  PROVE  GatewayInv'
BY DEF ViewVars, GatewayInv, GatewayTypeOK, ViewWasInForce

LEMMA StepInv == IInv /\ [Next]_vars => IInv'
<1> SUFFICES ASSUME IInv, [Next]_vars PROVE IInv'
  OBVIOUS
<1> USE DEF IInv
<1>1. ASSUME RulesStep PROVE IInv'
  BY <1>1, RulesStepKeeps, TemplatesUntouched, ConfigUntouched, ViewUntouched
  DEF RulesStep, ConfigVars
<1>2. ASSUME WorkflowStep PROVE IInv'
  BY <1>2, TemplateStep, RulesUntouched, ConfigUntouched, ViewUntouched
  DEF WorkflowStep, ConfigVars
<1>3. ASSUME TenantStep PROVE IInv'
  BY <1>3, ConfigStep, PastGrows, RulesUntouched, TemplatesUntouched, ViewUntouched
  DEF TenantStep, ConfigInv
<1>4. ASSUME GatewayStep PROVE IInv'
  BY <1>4, GatewayStepKeeps, RulesUntouched, TemplatesUntouched, ConfigUntouched
  DEF GatewayStep
<1>5. CASE UNCHANGED vars
  BY <1>5, RulesUntouched, TemplatesUntouched, ConfigUntouched, ViewUntouched
  DEF vars, ConfigVars
<1> QED
  BY <1>1, <1>2, <1>3, <1>4, <1>5 DEF Next

LEMMA Invariant == Spec => []IInv
BY InitInv, StepInv, PTL DEF Spec

-----------------------------------------------------------------------------
(* The theorems *)

\* Every rule, template, configuration and call of the three services keeps its
\* type, for every number of calls and every bound on the versions.
THEOREM TypeCorrect == Spec => []TypeOK
<1>1. IInv => TypeOK
  BY DEF IInv, RulesInv, TemplateInv, ConfigInv, TypeOK
<1> QED
  BY <1>1, Invariant, PTL

\* However the updates of a rule overlap, each of its commits has archived one
\* row, and every archived row is what the rule was at that version (UpdateRule).
THEOREM ArchiveTrue == Spec => []ArchiveIsTrue
<1>1. IInv => ArchiveIsTrue
  BY HistoryIsEnough DEF IInv, ArchiveIsTrue
<1> QED
  BY <1>1, Invariant, PTL

\* A rule no two updates of which have overlapped can be read back at every
\* version it has had.
THEOREM SupersededRead == Spec => []SupersededArchived
<1>1. IInv => SupersededArchived
  BY DEF IInv, RulesInv, EditsInv, SupersededArchived
<1> QED
  BY <1>1, Invariant, PTL

\* The list of rules in Redis is the current one unless an edit has yet to delete
\* it, the deletion failed, or a commit raced with an evaluation's read.
THEOREM StaleOnlyByRace == Spec => []StaleOnlyWhenRaced
<1>1. IInv => StaleOnlyWhenRaced
  BY DEF IInv, RulesInv, ListsInv, StaleOnlyWhenRaced
<1> QED
  BY <1>1, Invariant, PTL

\* A copy of a template never carries transitions that the version it reports had
\* replaced, nor a mixture of two versions (GetTemplate's two queries).
THEOREM TearsForward == Spec => []TearsLookForward
<1>1. IInv => TearsLookForward
  BY ForwardIsEnough DEF IInv, TearsLookForward
<1> QED
  BY <1>1, Invariant, PTL

\* What the tenant service's cache holds, and what the gateway's cache filled from
\* it holds, are configurations that the tenant has had.
THEOREM CachedInForce == Spec => []CachedConfigWasInForce
<1>1. IInv => CachedConfigWasInForce
  BY DEF IInv, ConfigInv, HeldWereInForce, GatewayInv, ViewWasInForce,
     CachedConfigWasInForce, T!CachedConfigWasInForce
<1> QED
  BY <1>1, Invariant, PTL

-----------------------------------------------------------------------------
(* Rules                                                                    *)

Answers == {"match", "no", "error"}

\* A set of natural numbers that is not empty has a smallest.
LEMMA SmallestOf ==
  ASSUME NEW S \in SUBSET Nat, S # {}
  PROVE  \E n \in S : \A m \in S : n <= m
<1> DEFINE Earlier == {ss \in Nat \X Nat : ss[1] < ss[2]}
<1>1. IsWellFoundedOn(Earlier, Nat)
  BY NatLessThanWellFounded DEF OpToRel
<1>2. PICK n \in S : \A m \in S : ~(<<m, n>> \in Earlier)
  <2> HIDE DEF Earlier
  <2> QED
    BY <1>1, WFMin
<1>3. ASSUME NEW m \in S PROVE n <= m
  <2>1. m \in Nat /\ n \in Nat /\ ~(<<m, n>> \in Earlier)
    BY <1>2
  <2> QED
    BY <2>1
<1> QED
  BY <1>3

\* An evaluation that stops early answers what one of the conditions does, or
\* has found them all of the other mind.
LEMMA FirstOtherIsOne ==
  ASSUME NEW answers \in Seq(Answers), NEW go
  PROVE  \/ FirstOther(answers, go) = go /\ \A i \in 1..Len(answers) : answers[i] = go
         \/ \E i \in 1..Len(answers) :
               FirstOther(answers, go) = answers[i] /\ answers[i] # go
<1> DEFINE stops == {i \in DOMAIN answers : answers[i] # go}
<1>1. DOMAIN answers = 1..Len(answers) /\ stops \in SUBSET Nat
  OBVIOUS
<1>2. stops # {} => SetsExt!Min(stops) \in stops
  BY <1>1, SmallestOf DEF SetsExt!Min
<1> QED
  BY <1>1, <1>2 DEF FirstOther

\* One node of a rule: if no condition below it has its answer turned around by an
\* error, neither has the node, for any number of conditions in any order (evalAnd,
\* evalOr, evalNot).
THEOREM NodesNeverFlip ==
  ASSUME NEW answers \in Seq(Answers), NEW reference \in [1..Len(answers) -> Answers],
         \A i \in 1..Len(answers) : NeverFlipped(answers[i], reference[i])
  PROVE  LET expected == {reference[i] : i \in 1..Len(answers)} IN
         /\ NeverFlipped(andOf(answers), KleeneOf("and", expected))
         /\ NeverFlipped(orOf(answers), KleeneOf("or", expected))
         /\ \A i \in 1..Len(answers) :
               NeverFlipped(Negate(answers[i]), Negate(reference[i]))
<1> DEFINE expected == {reference[i] : i \in 1..Len(answers)}
<1>1. \A i \in 1..Len(answers) : /\ answers[i] \in Answers
                                 /\ answers[i] \in {"error", reference[i]}
  BY ElementOfSeq DEF NeverFlipped
<1>2. NeverFlipped(andOf(answers), KleeneOf("and", expected))
  <2>1. CASE andOf(answers) = "match" /\ \A i \in 1..Len(answers) : answers[i] = "match"
    <3>1. expected \subseteq {"match"}
      BY <1>1, <2>1
    <3> QED
      BY <2>1, <3>1 DEF NeverFlipped, KleeneOf, Negate
  <2>2. ASSUME NEW i \in 1..Len(answers), andOf(answers) = answers[i], answers[i] # "match"
        PROVE  NeverFlipped(andOf(answers), KleeneOf("and", expected))
    BY <1>1, <2>2 DEF Answers, NeverFlipped, KleeneOf
  <2> QED
    BY <2>1, <2>2, FirstOtherIsOne DEF andOf
<1>3. NeverFlipped(orOf(answers), KleeneOf("or", expected))
  <2>1. CASE orOf(answers) = "no" /\ \A i \in 1..Len(answers) : answers[i] = "no"
    <3>1. expected \subseteq {"no"}
      BY <1>1, <2>1
    <3> QED
      BY <2>1, <3>1 DEF NeverFlipped, KleeneOf, Negate
  <2>2. ASSUME NEW i \in 1..Len(answers), orOf(answers) = answers[i], answers[i] # "no"
        PROVE  NeverFlipped(orOf(answers), KleeneOf("or", expected))
    BY <1>1, <2>2 DEF Answers, NeverFlipped, KleeneOf
  <2> QED
    BY <2>1, <2>2, FirstOtherIsOne DEF orOf
<1>4. \A i \in 1..Len(answers) : NeverFlipped(Negate(answers[i]), Negate(reference[i]))
  BY <1>1 DEF Answers, NeverFlipped, Negate
<1> QED
  BY <1>2, <1>3, <1>4

\* Every number up to the largest float64 has one below it or equal, nearest to it
\* from there, and one above.
LEMMA FloatsAround ==
  ASSUME NEW n \in 0..MaxFloat
  PROVE  LET below == SetsExt!Max({f \in Floats : f <= n})
             above == SetsExt!Min({f \in Floats : n <= f})
         IN  /\ below \in Nat /\ below \in Floats /\ below <= n
             /\ above \in Nat /\ above \in Floats /\ n <= above
             /\ \A f \in Floats : f <= below \/ above <= f
<1> USE FloatsAssumption
<1>1. Floats \in SUBSET Nat
  BY DEF Floats
<1>2. 0 \in Floats /\ MaxFloat \in Floats
  BY DEF Floats, MaxFloat
<1> DEFINE Lower == {f \in Floats : f <= n}
           Upper == {f \in Floats : n <= f}
           Gaps == {n - f : f \in Lower}
<1>3. PICK low \in Lower : \A f \in Lower : low >= f
  <2>1. Gaps \in SUBSET Nat /\ Gaps # {}
    BY <1>1, <1>2
  <2>2. PICK gap \in Gaps : \A g \in Gaps : gap <= g
    <3> HIDE DEF Gaps
    <3> QED
      BY <2>1, SmallestOf
  <2>3. PICK low \in Lower : gap = n - low
    OBVIOUS
  <2>4. \A f \in Lower : low >= f
    BY <1>1, <2>2, <2>3
  <2> QED
    BY <2>4
<1>4. PICK high \in Upper : \A f \in Upper : high <= f
  <2>1. Upper \in SUBSET Nat
    BY <1>1
  <2>2. n <= MaxFloat
    OBVIOUS
  <2>3. MaxFloat \in Upper
    BY <1>2, <2>2
  <2> HIDE DEF Upper
  <2> QED
    BY <2>1, <2>3, SmallestOf
<1>5. /\ SetsExt!Max(Lower) \in Lower
      /\ \A f \in Lower : SetsExt!Max(Lower) >= f
  <2> HIDE DEF Lower
  <2> QED
    BY <1>3 DEF SetsExt!Max
<1>6. /\ SetsExt!Min(Upper) \in Upper
      /\ \A f \in Upper : SetsExt!Min(Upper) <= f
  <2> HIDE DEF Upper
  <2> QED
    BY <1>4 DEF SetsExt!Min
<1> DEFINE below == SetsExt!Max(Lower)
           above == SetsExt!Min(Upper)
<1>7. /\ below \in Floats /\ below <= n /\ below \in Nat
      /\ above \in Floats /\ n <= above /\ above \in Nat
  BY <1>1, <1>5, <1>6
<1>8. ASSUME NEW f \in Floats PROVE f <= below \/ above <= f
  <2>1. CASE f <= n
    BY <1>5, <1>7, <2>1
  <2>2. CASE n <= f
    BY <1>6, <1>7, <2>2
  <2> QED
    BY <1>1, <2>1, <2>2
<1> HIDE DEF below, above
<1> QED
  BY <1>7, <1>8 DEF below, above

\* float64 may make different amounts equal and never changes their order.
LEMMA FloatKeepsOrder ==
  ASSUME NEW a \in 0..MaxFloat, NEW n \in 0..MaxFloat, a <= n
  PROVE  Float(a) \in Nat /\ Float(n) \in Nat /\ Float(a) <= Float(n)
<1> USE FloatsAssumption
<1> DEFINE Lower(k) == SetsExt!Max({f \in Floats : f <= k})
           Upper(k) == SetsExt!Min({f \in Floats : k <= f})
           Digit(low, high) == (low \div (high - low)) % 2
           Near(k, low, high) ==
               \/ Distance(k, low) < Distance(k, high)
               \/ Distance(k, low) = Distance(k, high) /\ Digit(low, high) = 0
<1>1. ASSUME NEW k \in 0..MaxFloat
      PROVE  /\ Lower(k) \in Nat /\ Lower(k) \in Floats /\ Lower(k) <= k
             /\ Upper(k) \in Nat /\ Upper(k) \in Floats /\ k <= Upper(k)
             /\ \A f \in Floats : f <= Lower(k) \/ Upper(k) <= f
  BY FloatsAround
<1>2. ASSUME NEW k \in 0..MaxFloat
      PROVE  Float(k) = IF k \in Floats THEN k
                        ELSE IF Near(k, Lower(k), Upper(k)) THEN Lower(k) ELSE Upper(k)
  BY DEF Float
<1> HIDE DEF Lower, Upper, Near
<1>3. ASSUME NEW k \in 0..MaxFloat
      PROVE  Float(k) \in Nat /\ Lower(k) <= Float(k) /\ Float(k) <= Upper(k)
  BY <1>1, <1>2
<1>4. CASE a = n
  BY <1>3, <1>4
<1>5. CASE a < n /\ Upper(a) <= Lower(n)
  BY <1>1, <1>3, <1>5
<1>6. CASE a < n /\ ~(Upper(a) <= Lower(n))
  <2>1. Lower(a) = Lower(n) /\ Upper(a) = Upper(n)
    <3>1. Lower(n) <= Lower(a) \/ Upper(a) <= Lower(n)
      BY <1>1
    <3>2. Lower(a) <= Lower(n) \/ Upper(n) <= Lower(a)
      BY <1>1
    <3>3. Upper(a) <= Lower(n) \/ Upper(n) <= Upper(a)
      BY <1>1
    <3>4. Upper(n) <= Lower(a) \/ Upper(a) <= Upper(n)
      BY <1>1
    <3> QED
      BY <1>1, <1>6, <3>1, <3>2, <3>3, <3>4
  <2>2. a \notin Floats \/ a = Lower(n)
    BY <1>1, <1>6, <2>1
  <2>3. n \notin Floats \/ n = Upper(a)
    BY <1>1, <1>6, <2>1
  <2>4. Near(n, Lower(n), Upper(n)) => Near(a, Lower(n), Upper(n))
    <3>1. PICK low \in Nat, high \in Nat : low = Lower(n) /\ high = Upper(n)
      BY <1>1
    <3>2. low <= a /\ a < n /\ n <= high
      BY <1>1, <1>6, <2>1, <3>1
    <3> QED
      BY <3>1, <3>2 DEF Near, Distance
  <2>5. CASE a \in Floats
    BY <1>1, <1>3, <2>1, <2>2, <2>5, <1>2
  <2>6. CASE n \in Floats
    BY <1>1, <1>3, <2>1, <2>3, <2>6, <1>2
  <2>7. CASE a \notin Floats /\ n \notin Floats
    BY <1>1, <1>2, <1>3, <2>1, <2>4, <2>7
  <2> QED
    BY <1>3, <2>5, <2>6, <2>7
<1> QED
  BY <1>3, <1>4, <1>5, <1>6

\* A comparison of an amount with a number is right where they are equal, and
\* beyond 2^53 too it never puts the smaller of them above the other (applyOp).
THEOREM ComparisonsRight ==
  ASSUME NEW op \in Ordering, NEW a \in 0..MaxFloat, NEW n \in 0..MaxFloat
  PROVE  KeepsOrder(op, a, n, compareNumbers(op, Int64(a), Number(n)))
<1> USE FloatsAssumption
<1>1. compareNumbers(op, Int64(a), Number(n)) = Answer(Compare(op, Float(a), Float(n)))
  BY DEF compareNumbers, isNumeric, toFloat64, Int64, Number
<1>2. Float(a) \in Int /\ Float(n) \in Int
  BY FloatKeepsOrder
<1>3. /\ a <= n => Float(a) <= Float(n)
      /\ n <= a => Float(n) <= Float(a)
  BY FloatKeepsOrder
<1>4. PICK fa \in Int, fn \in Int : fa = Float(a) /\ fn = Float(n)
  BY <1>2
<1>5. /\ a = n => fa = fn
      /\ a <= n => fa <= fn
      /\ n <= a => fn <= fa
      /\ compareNumbers(op, Int64(a), Number(n)) = Answer(Compare(op, fa, fn))
  BY <1>1, <1>3, <1>4
<1>6. CASE op = "gt"
  BY <1>5, <1>6 DEF KeepsOrder, Answer, Compare
<1>7. CASE op = "gte"
  BY <1>5, <1>7 DEF KeepsOrder, Answer, Compare
<1>8. CASE op = "lt"
  BY <1>5, <1>8 DEF KeepsOrder, Answer, Compare
<1>9. CASE op = "lte"
  BY <1>5, <1>9 DEF KeepsOrder, Answer, Compare
<1> QED
  BY <1>6, <1>7, <1>8, <1>9 DEF Ordering

-----------------------------------------------------------------------------
(* Trees. A definition by recursion over the conditions of a rule defines a  *)
(* function, and what holds of a condition whenever it holds of those below  *)
(* it holds of all: conditions are heights high, and heights are natural     *)
(* numbers. A set of conditions stands for a property of them.               *)

\* Induction on the height of the elements of D.
LEMMA HeightInduction ==
  ASSUME NEW D, NEW H \in [D -> Nat], NEW Good,
         \A x \in D : (\A y \in D : H[y] < H[x] => y \in Good) => x \in Good
  PROVE  \A x \in D : x \in Good
<1> SUFFICES ASSUME NEW z \in D, z \notin Good PROVE FALSE
  OBVIOUS
<1> DEFINE Heights == {H[x] : x \in D \ Good}
<1>1. Heights \in SUBSET Nat /\ Heights # {}
  OBVIOUS
<1>2. PICK n \in Heights : \A m \in Heights : n <= m
  <2> HIDE DEF Heights
  <2> QED
    BY <1>1, SmallestOf
<1>3. PICK x \in D \ Good : H[x] = n
  BY <1>2
<1>4. ASSUME NEW y \in D, H[y] < H[x] PROVE y \in Good
  <2> SUFFICES ASSUME y \notin Good PROVE FALSE
    OBVIOUS
  <2>1. H[y] \in Nat /\ H[x] \in Nat /\ n <= H[y]
    BY <1>2
  <2> QED
    BY <1>3, <1>4, <2>1
<1> QED
  BY <1>3, <1>4

\* B[x][f], what a recursive definition of a function on D says of x, asks the
\* function f only about elements that are less high than x.
IsRecursion(B, D, H, V) ==
    /\ H \in [D -> Nat] /\ B \in [D -> [[D -> V] -> V]]
    /\ \A x \in D : \A f, g \in [D -> V] :
          (\A y \in D : H[y] < H[x] => f[y] = g[y]) => B[x][f] = B[x][g]

\* Two functions that satisfy the definition up to some height agree up to it.
Satisfies(f, B, D, H, n) == \A x \in D : H[x] < n => f[x] = B[x][f]

LEMMA RecursionUnique ==
  ASSUME NEW D, NEW H, NEW V, NEW B, IsRecursion(B, D, H, V)
  PROVE  \A f, g \in [D -> V], m, n \in Nat :
            Satisfies(f, B, D, H, m) /\ Satisfies(g, B, D, H, n) =>
               \A x \in D : H[x] < m /\ H[x] < n => f[x] = g[x]
<1> USE DEF IsRecursion
<1> SUFFICES ASSUME NEW f \in [D -> V], NEW m \in Nat, Satisfies(f, B, D, H, m),
                    NEW g \in [D -> V], NEW n \in Nat, Satisfies(g, B, D, H, n)
             PROVE  \A x \in D : H[x] < m /\ H[x] < n => f[x] = g[x]
  OBVIOUS
<1> DEFINE Good == {x \in D : H[x] < m /\ H[x] < n => f[x] = g[x]}
<1>1. ASSUME NEW x \in D, \A y \in D : H[y] < H[x] => y \in Good PROVE x \in Good
  <2> SUFFICES ASSUME H[x] < m, H[x] < n PROVE f[x] = g[x]
    OBVIOUS
  <2>1. \A y \in D : H[y] < H[x] => f[y] = g[y]
    <3> SUFFICES ASSUME NEW y \in D, H[y] < H[x] PROVE f[y] = g[y]
      OBVIOUS
    <3>1. H[y] \in Nat /\ H[x] \in Nat
      OBVIOUS
    <3>2. H[y] < m /\ H[y] < n
      BY <3>1
    <3> QED
      BY <1>1, <3>2
  <2>2. B[x][f] = B[x][g]
    BY <2>1
  <2> QED
    BY <2>2 DEF Satisfies
<1>2. \A x \in D : x \in Good
  <2> HIDE DEF Good
  <2> QED
    BY <1>1, HeightInduction
<1> QED
  BY <1>2

\* A definition by recursion is satisfied up to every height ...
LEMMA RecursionBounded ==
  ASSUME NEW D, NEW H, NEW V, NEW v \in V, NEW B, IsRecursion(B, D, H, V)
  PROVE  \A n \in Nat : \E f \in [D -> V] : Satisfies(f, B, D, H, n)
<1> USE DEF IsRecursion
<1> DEFINE Good == {n \in Nat : \E f \in [D -> V] : Satisfies(f, B, D, H, n)}
           Itself == [n \in Nat |-> n]
<1>1. ASSUME NEW n \in Nat, \A k \in Nat : Itself[k] < Itself[n] => k \in Good
      PROVE  n \in Good
  <2>1. CASE n = 0
    <3>1. [x \in D |-> v] \in [D -> V]
      OBVIOUS
    <3>2. Satisfies([x \in D |-> v], B, D, H, n)
      BY <2>1 DEF Satisfies
    <3> QED
      BY <3>1, <3>2
  <2>2. CASE n # 0
    <3>1. PICK f \in [D -> V] : Satisfies(f, B, D, H, n - 1)
      BY <1>1, <2>2
    <3> DEFINE g == [x \in D |-> B[x][f]]
    <3>2. g \in [D -> V]
      OBVIOUS
    <3>3. ASSUME NEW x \in D, H[x] < n PROVE g[x] = B[x][g]
      <4>1. ASSUME NEW y \in D, H[y] < H[x] PROVE f[y] = g[y]
        <5>1. H[y] < n - 1
          BY <3>3, <4>1
        <5> QED
          BY <3>1, <5>1 DEF Satisfies
      <4> HIDE DEF g
      <4>2. B[x][f] = B[x][g]
        BY <3>2, <4>1
      <4> QED
        BY <4>2 DEF g
    <3>4. Satisfies(g, B, D, H, n)
      BY <3>3 DEF Satisfies
    <3> QED
      BY <3>2, <3>4
  <2> QED
    BY <2>1, <2>2
<1>2. Itself \in [Nat -> Nat]
  OBVIOUS
<1>3. \A n \in Nat : n \in Good
  <2> HIDE DEF Good, Itself
  <2> QED
    BY <1>1, <1>2, HeightInduction
<1> QED
  BY <1>3

\* ... and so it is satisfied everywhere.
LEMMA RecursionExists ==
  ASSUME NEW D, NEW H, NEW V, NEW v \in V, NEW B, IsRecursion(B, D, H, V)
  PROVE  \E f \in [D -> V] : \A x \in D : f[x] = B[x][f]
<1>1. \A f, g \in [D -> V], m, n \in Nat :
         Satisfies(f, B, D, H, m) /\ Satisfies(g, B, D, H, n) =>
            \A x \in D : H[x] < m /\ H[x] < n => f[x] = g[x]
  BY RecursionUnique
<1> DEFINE Upto(n) == CHOOSE f \in [D -> V] : Satisfies(f, B, D, H, n)
           h == [x \in D |-> Upto(H[x] + 1)[x]]
<1>2. ASSUME NEW n \in Nat
      PROVE  Upto(n) \in [D -> V] /\ Satisfies(Upto(n), B, D, H, n)
  <2>1. \E f \in [D -> V] : Satisfies(f, B, D, H, n)
    BY RecursionBounded
  <2> QED
    BY <2>1
<1> HIDE DEF Upto
<1>3. ASSUME NEW m \in Nat, NEW n \in Nat, NEW x \in D, H[x] < m, H[x] < n
      PROVE  Upto(m)[x] = Upto(n)[x]
  <2>1. \A k \in Nat : Upto(k) \in [D -> V] /\ Satisfies(Upto(k), B, D, H, k)
    BY <1>2
  <2> QED
    BY <1>1, <2>1, <1>3
<1> USE DEF IsRecursion
<1>4. h \in [D -> V]
  BY <1>2
<1>5. ASSUME NEW x \in D PROVE h[x] = B[x][h]
  <2> DEFINE f == Upto(H[x] + 1)
  <2>1. f \in [D -> V] /\ Satisfies(f, B, D, H, H[x] + 1)
    BY <1>2
  <2>2. ASSUME NEW y \in D, H[y] < H[x] PROVE f[y] = h[y]
    <3> DEFINE g == Upto(H[y] + 1)
    <3>1. H[y] < H[x] + 1 /\ H[y] < H[y] + 1
      BY <2>2
    <3>2. H[x] + 1 \in Nat /\ H[y] + 1 \in Nat
      OBVIOUS
    <3>3. h[y] = g[y]
      OBVIOUS
    <3>4. f[y] = g[y]
      BY <1>3, <3>1, <3>2
    <3> QED
      BY <3>3, <3>4
  <2>3. h[x] = f[x]
    OBVIOUS
  <2>4. f[x] = B[x][f]
    BY <2>1 DEF Satisfies
  <2> HIDE DEF f, h
  <2>5. B[x][f] = B[x][h]
    BY <1>4, <2>1, <2>2
  <2> QED
    BY <2>3, <2>4, <2>5
<1> QED
  BY <1>4, <1>5

-----------------------------------------------------------------------------
(* The evaluator: its definition by recursion over a tree is satisfied       *)

LEMMA LeafAnswers ==
  ASSUME NEW op, NEW actual, NEW expected
  PROVE  applyOp(op, actual, expected) \in Answers
BY DEF applyOp, compareNumbers, Answer, Answers, Ordering

LEMMA NegateAnswers ==
  ASSUME NEW a PROVE Negate(a) \in Answers
BY DEF Negate, Answers

\* The loop over a tenant's rules takes an action that no rule that matches
\* exceeds, and one of them or approve, wherever they stand in the list and however
\* many there are (EvaluateRules, actionPriority).
THEOREM SeverestTaken ==
  ASSUME NEW actions \in Seq(DOMAIN Severity), NEW matched \in SUBSET DOMAIN actions
  PROVE  LET taken == ActionTaken(actions, matched)
         IN  /\ taken \in {"approve"} \cup {actions[i] : i \in matched}
             /\ \A i \in matched : Severity[actions[i]] <= Severity[taken]
<1> DEFINE Steps == 0..Len(actions)
           Here(i, f) == IF i = 0 THEN "approve"
                         ELSE IF i \in matched /\ Severity[actions[i]] > Severity[f[i - 1]]
                         THEN actions[i] ELSE f[i - 1]
           V == DOMAIN Severity
           H == [i \in Steps |-> i]
           B == [i \in Steps |-> [f \in [Steps -> V] |-> Here(i, f)]]
           taken == CHOOSE f : f = [i \in Steps |-> Here(i, f)]
<1>1. /\ Len(actions) \in Nat /\ DOMAIN actions = 1..Len(actions)
      /\ \A i \in 1..Len(actions) : actions[i] \in V
  OBVIOUS
<1>2. "approve" \in V
  BY DEF Severity
<1>3. IsRecursion(B, Steps, H, V)
  <2>1. ASSUME NEW i \in Steps, NEW f \in [Steps -> V] PROVE Here(i, f) \in V
    BY <1>1, <1>2
  <2>2. ASSUME NEW i \in Steps, NEW f \in [Steps -> V], NEW g \in [Steps -> V],
               \A j \in Steps : H[j] < H[i] => f[j] = g[j]
        PROVE  Here(i, f) = Here(i, g)
    <3>1. CASE i = 0
      BY <3>1
    <3>2. CASE i # 0
      <4>1. i - 1 \in Steps /\ i - 1 < i
        BY <1>1, <3>2
      <4>2. f[i - 1] = g[i - 1]
        BY <2>2, <4>1
      <4> QED
        BY <4>2
    <3> QED
      BY <3>1, <3>2
  <2>3. H \in [Steps -> Nat]
    BY <1>1
  <2> HIDE DEF Here, H, Steps, V
  <2>4. B \in [Steps -> [[Steps -> V] -> V]]
    BY <2>1
  <2> QED
    BY <2>2, <2>3, <2>4 DEF IsRecursion
<1>4. taken = [i \in Steps |-> Here(i, taken)]
  <2>1. PICK f \in [Steps -> V] : \A i \in Steps : f[i] = B[i][f]
    <3> HIDE DEF B, Steps, H, V
    <3> QED
      BY <1>2, <1>3, RecursionExists
  <2>2. f = [i \in Steps |-> Here(i, f)]
    <3> HIDE DEF Here, Steps, V
    <3> QED
      BY <2>1
  <2> HIDE DEF Here, Steps
  <2> QED
    BY <2>2
<1>5. ActionTaken(actions, matched) = taken[Len(actions)]
  BY DEF ActionTaken
<1> DEFINE Good == {i \in Steps : /\ taken[i] \in V
                                /\ taken[i] \in {"approve"} \cup {actions[j] : j \in matched}
                                /\ \A j \in matched :
                                      j <= i => Severity[actions[j]] <= Severity[taken[i]]}
<1>6. \A a \in V : Severity[a] \in Nat
  BY DEF Severity
<1>7. ASSUME NEW i \in Steps, \A k \in Steps : H[k] < H[i] => k \in Good
      PROVE  i \in Good
  <2>1. taken[i] = Here(i, taken)
    <3> HIDE DEF taken, Here, Steps
    <3> QED
      BY <1>4
  <2> HIDE DEF taken
  <2>2. CASE i = 0
    <3>1. taken[i] = "approve"
      BY <2>1, <2>2
    <3>2. \A j \in matched : ~(j <= i)
      BY <1>1, <2>2
    <3> QED
      BY <1>2, <3>1, <3>2
  <2>3. CASE i # 0
    <3>1. /\ i \in 1..Len(actions) /\ actions[i] \in V
          /\ i - 1 \in Steps /\ H[i - 1] < H[i]
      BY <1>1, <2>3
    <3>2. /\ taken[i - 1] \in V
          /\ taken[i - 1] \in {"approve"} \cup {actions[j] : j \in matched}
          /\ \A j \in matched :
                j <= i - 1 => Severity[actions[j]] <= Severity[taken[i - 1]]
      <4>1. i - 1 \in Good
        BY <1>7, <3>1
      <4> QED
        BY <4>1
    <3>3. taken[i] \in V
      BY <2>1, <2>3, <3>1, <3>2
    <3>4. taken[i] \in {"approve"} \cup {actions[j] : j \in matched}
      BY <2>1, <2>3, <3>2
    <3>5. /\ Severity[taken[i - 1]] <= Severity[taken[i]]
          /\ i \in matched => Severity[actions[i]] <= Severity[taken[i]]
      <4>1. Severity[actions[i]] \in Nat /\ Severity[taken[i - 1]] \in Nat
        BY <1>6, <3>1, <3>2
      <4> QED
        BY <2>1, <2>3, <4>1
    <3>6. ASSUME NEW j \in matched, j <= i
          PROVE  Severity[actions[j]] <= Severity[taken[i]]
      <4>1. j \in 1..Len(actions) /\ actions[j] \in V
        BY <1>1
      <4>2. /\ Severity[actions[j]] \in Nat /\ Severity[taken[i - 1]] \in Nat
            /\ Severity[taken[i]] \in Nat
        BY <1>6, <3>2, <3>3, <4>1
      <4>3. CASE j = i
        BY <3>5, <4>3
      <4>4. CASE j # i
        <5>1. j <= i - 1
          BY <1>1, <3>6, <4>1, <4>4
        <5> QED
          BY <3>2, <3>5, <4>2, <5>1
      <4> QED
        BY <4>3, <4>4
    <3> QED
      BY <3>3, <3>4, <3>6
  <2> QED
    BY <2>2, <2>3
<1>8. H \in [Steps -> Nat]
  BY <1>1
<1>9. \A i \in Steps : i \in Good
  <2> HIDE DEF Good, Steps, H
  <2> QED
    BY <1>7, <1>8, HeightInduction
<1>10. Len(actions) \in Steps /\ \A j \in matched : j <= Len(actions)
  BY <1>1
<1> HIDE DEF taken
<1> QED
  BY <1>5, <1>9, <1>10

\* A node has the answer of a list, of the node below it, or of a leaf.
LEMMA NodeAnswers ==
  ASSUME NEW node \in Expressions, NEW p, NEW f,
         \A c \in Below(node) : f[c] \in Answers
  PROVE  /\ evalNode(node, p, f) \in Answers
         /\ KleeneAt(node, p, f) \in Answers
<1>1. CASE node.op \in {"and", "or"}
  <2> DEFINE list == [i \in DOMAIN node.conds |-> f[node.conds[i]]]
  <2>1. node.conds \in Seq(Expressions)
    BY <1>1, TreesAssumption
  <2>2. list \in Seq(Answers)
    BY <1>1, <2>1 DEF Below
  <2>3. FirstOther(list, "match") \in Answers /\ FirstOther(list, "no") \in Answers
    <3> HIDE DEF list
    <3>1. \A i \in 1..Len(list) : list[i] \in Answers
      BY <2>2
    <3>2. "match" \in Answers /\ "no" \in Answers
      BY DEF Answers
    <3> QED
      BY <2>2, <3>1, <3>2, FirstOtherIsOne
  <2>4. evalNode(node, p, f) \in {"error", andOf(list), orOf(list)}
    BY <1>1 DEF evalNode
  <2>5. evalNode(node, p, f) \in Answers
    <3> HIDE DEF list
    <3> QED
      BY <2>3, <2>4 DEF andOf, orOf, Answers
  <2>6. \A S : KleeneOf(node.op, S) \in Answers
    BY DEF KleeneOf, Negate, Answers
  <2>7. KleeneAt(node, p, f) \in Answers
    BY <1>1, <2>6 DEF KleeneAt
  <2> QED
    BY <2>5, <2>7
<1>2. CASE node.op = "not"
  BY <1>2, NegateAnswers DEF evalNode, KleeneAt
<1>3. CASE node.op \notin {"and", "or", "not"}
  BY <1>3, LeafAnswers DEF evalNode, KleeneAt, Answers
<1> QED
  BY <1>1, <1>2, <1>3

\* A node asks only about the nodes below it.
LEMMA NodeLooksBelow ==
  ASSUME NEW node \in Expressions, NEW p, NEW f, NEW g,
         \A c \in Below(node) : f[c] = g[c]
  PROVE  /\ evalNode(node, p, f) = evalNode(node, p, g)
         /\ KleeneAt(node, p, f) = KleeneAt(node, p, g)
<1>1. CASE node.op \in {"and", "or"}
  <2>1. \A i \in DOMAIN node.conds : f[node.conds[i]] = g[node.conds[i]]
    BY <1>1 DEF Below
  <2>2. [i \in DOMAIN node.conds |-> f[node.conds[i]]]
          = [i \in DOMAIN node.conds |-> g[node.conds[i]]]
    BY <2>1
  <2>3. evalNode(node, p, f) = evalNode(node, p, g)
    BY <1>1, <2>2 DEF evalNode
  <2>4. {f[c] : c \in Below(node)} = {g[c] : c \in Below(node)}
    OBVIOUS
  <2> QED
    BY <1>1, <2>3, <2>4 DEF KleeneAt
<1>2. CASE node.op = "not"
  <2>1. f[node.cond] = g[node.cond]
    BY <1>2 DEF Below
  <2> QED
    BY <1>2, <2>1 DEF evalNode, KleeneAt
<1>3. CASE node.op \notin {"and", "or", "not"}
  BY <1>3 DEF evalNode, KleeneAt
<1> QED
  BY <1>1, <1>2, <1>3

LEMMA LowerAgree ==
  ASSUME NEW node \in Expressions, NEW f, NEW g,
         \A y \in Expressions : Height[y] < Height[node] => f[y] = g[y]
  PROVE  \A c \in Below(node) : f[c] = g[c]
BY TreesAssumption

\* So every tree has an answer, and it is what the code computes.
THEOREM TreesAreEvaluated ==
  ASSUME NEW p \in Payments
  PROVE  /\ AnswersTo[p] \in [Expressions -> Answers]
         /\ \A node \in Expressions :
               AnswersTo[p][node] = evalNode(node, p, AnswersTo[p])
<1> DEFINE B == [node \in Expressions |->
                   [f \in [Expressions -> Answers] |-> evalNode(node, p, f)]]
<1>1. IsRecursion(B, Expressions, Height, Answers)
  <2>1. B \in [Expressions -> [[Expressions -> Answers] -> Answers]]
    <3>1. \A node \in Expressions : Below(node) \subseteq Expressions
      BY TreesAssumption
    <3>2. \A node \in Expressions, f \in [Expressions -> Answers] :
             evalNode(node, p, f) \in Answers
      BY <3>1, NodeAnswers
    <3> QED
      BY <3>2
  <2>2. ASSUME NEW x \in Expressions,
               NEW f \in [Expressions -> Answers], NEW g \in [Expressions -> Answers],
               \A y \in Expressions : Height[y] < Height[x] => f[y] = g[y]
        PROVE  B[x][f] = B[x][g]
    <3>1. \A c \in Below(x) : f[c] = g[c]
      BY <2>2, LowerAgree
    <3>2. evalNode(x, p, f) = evalNode(x, p, g)
      BY <3>1, NodeLooksBelow
    <3> QED
      BY <3>2
  <2> HIDE DEF B
  <2> QED
    BY <2>1, <2>2, TreesAssumption DEF IsRecursion
<1>2. PICK f \in [Expressions -> Answers] : \A x \in Expressions : f[x] = B[x][f]
  <2> HIDE DEF B
  <2>1. "no" \in Answers
    BY DEF Answers
  <2> QED
    BY <1>1, <2>1, RecursionExists
<1>3. f = [node \in Expressions |-> evalNode(node, p, f)]
  BY <1>2
<1> DEFINE IsAnswers(g) == g = [node \in Expressions |-> evalNode(node, p, g)]
<1>4. IsAnswers(f)
  BY <1>3
<1>5. AnswersTo[p] = CHOOSE g : IsAnswers(g)
  BY DEF AnswersTo
<1>6. IsAnswers(AnswersTo[p])
  <2> HIDE DEF IsAnswers
  <2> QED
    BY <1>4, <1>5
<1> HIDE DEF B
<1>7. /\ AnswersTo[p] = [node \in Expressions |-> AnswersTo[p][node]]
      /\ \A node \in Expressions :
            AnswersTo[p][node] = evalNode(node, p, AnswersTo[p])
  BY <1>6
<1>8. \A node \in Expressions : AnswersTo[p][node] \in Answers
  <2> DEFINE Good == {node \in Expressions : AnswersTo[p][node] \in Answers}
  <2>1. ASSUME NEW x \in Expressions,
               \A y \in Expressions : Height[y] < Height[x] => y \in Good
        PROVE  x \in Good
    <3>1. \A c \in Below(x) : AnswersTo[p][c] \in Answers
      BY <2>1, TreesAssumption
    <3> QED
      BY <1>7, <3>1, NodeAnswers
  <2>2. \A x \in Expressions : x \in Good
    <3> HIDE DEF Good
    <3> QED
      BY <2>1, TreesAssumption, HeightInduction
  <2> QED
    BY <2>2
<1> QED
  BY <1>7, <1>8

\* The same of the reference.
LEMMA KleeneDefined ==
  ASSUME NEW p \in Payments
  PROVE  /\ Kleene[p] \in [Expressions -> Answers]
         /\ \A node \in Expressions : Kleene[p][node] = KleeneAt(node, p, Kleene[p])
<1> DEFINE B == [node \in Expressions |->
                   [f \in [Expressions -> Answers] |-> KleeneAt(node, p, f)]]
<1>1. IsRecursion(B, Expressions, Height, Answers)
  <2>1. B \in [Expressions -> [[Expressions -> Answers] -> Answers]]
    <3>1. \A node \in Expressions : Below(node) \subseteq Expressions
      BY TreesAssumption
    <3>2. \A node \in Expressions, f \in [Expressions -> Answers] :
             KleeneAt(node, p, f) \in Answers
      BY <3>1, NodeAnswers
    <3> QED
      BY <3>2
  <2>2. ASSUME NEW x \in Expressions,
               NEW f \in [Expressions -> Answers], NEW g \in [Expressions -> Answers],
               \A y \in Expressions : Height[y] < Height[x] => f[y] = g[y]
        PROVE  B[x][f] = B[x][g]
    <3>1. \A c \in Below(x) : f[c] = g[c]
      BY <2>2, LowerAgree
    <3>2. KleeneAt(x, p, f) = KleeneAt(x, p, g)
      BY <3>1, NodeLooksBelow
    <3> QED
      BY <3>2
  <2> HIDE DEF B
  <2> QED
    BY <2>1, <2>2, TreesAssumption DEF IsRecursion
<1>2. PICK f \in [Expressions -> Answers] : \A x \in Expressions : f[x] = B[x][f]
  <2> HIDE DEF B
  <2>1. "no" \in Answers
    BY DEF Answers
  <2> QED
    BY <1>1, <2>1, RecursionExists
<1>3. f = [node \in Expressions |-> KleeneAt(node, p, f)]
  BY <1>2
<1> DEFINE IsAnswers(g) == g = [node \in Expressions |-> KleeneAt(node, p, g)]
<1>4. IsAnswers(f)
  BY <1>3
<1>5. Kleene[p] = CHOOSE g : IsAnswers(g)
  BY DEF Kleene
<1>6. IsAnswers(Kleene[p])
  <2> HIDE DEF IsAnswers
  <2> QED
    BY <1>4, <1>5
<1> HIDE DEF B
<1>7. /\ Kleene[p] = [node \in Expressions |-> Kleene[p][node]]
      /\ \A node \in Expressions : Kleene[p][node] = KleeneAt(node, p, Kleene[p])
  BY <1>6
<1>8. \A node \in Expressions : Kleene[p][node] \in Answers
  <2> DEFINE Good == {node \in Expressions : Kleene[p][node] \in Answers}
  <2>1. ASSUME NEW x \in Expressions,
               \A y \in Expressions : Height[y] < Height[x] => y \in Good
        PROVE  x \in Good
    <3>1. \A c \in Below(x) : Kleene[p][c] \in Answers
      BY <2>1, TreesAssumption
    <3> QED
      BY <1>7, <3>1, NodeAnswers
  <2>2. \A x \in Expressions : x \in Good
    <3> HIDE DEF Good
    <3> QED
      BY <2>1, TreesAssumption, HeightInduction
  <2> QED
    BY <2>2
<1> QED
  BY <1>7, <1>8

-----------------------------------------------------------------------------
(* The evaluator: what it answers about trees, and takes of lists of rules   *)

\* If no answer below a node is turned around, neither is that of the node.
LEMMA NodeFollows ==
  ASSUME NEW node \in Expressions, NEW p \in Payments,
         \A c \in Below(node) : NeverFlipped(AnswersTo[p][c], Kleene[p][c])
  PROVE  NeverFlipped(AnswersTo[p][node], Kleene[p][node])
<1> DEFINE answers == AnswersTo[p]
           reference == Kleene[p]
<1>1. /\ answers \in [Expressions -> Answers] /\ reference \in [Expressions -> Answers]
      /\ answers[node] = evalNode(node, p, answers)
      /\ reference[node] = KleeneAt(node, p, reference)
  BY TreesAreEvaluated, KleeneDefined
<1>2. \A c \in Below(node) : c \in Expressions /\ NeverFlipped(answers[c], reference[c])
  BY TreesAssumption
<1> HIDE DEF answers, reference
<1>3. CASE node.op \in {"and", "or"}
  <2> DEFINE list == [i \in DOMAIN node.conds |-> answers[node.conds[i]]]
             ref == [i \in 1..Len(list) |-> reference[node.conds[i]]]
  <2>1. /\ node.conds \in Seq(Expressions) /\ DOMAIN node.conds = 1..Len(node.conds)
        /\ Below(node) = {node.conds[i] : i \in DOMAIN node.conds}
    BY <1>3, TreesAssumption DEF Below
  <2>2. list \in Seq(Answers) /\ Len(list) = Len(node.conds)
    BY <1>1, <2>1
  <2>3. /\ ref \in [1..Len(list) -> Answers]
        /\ {ref[i] : i \in 1..Len(list)} = {reference[c] : c \in Below(node)}
    <3>1. 1..Len(list) = DOMAIN node.conds
      BY <2>1, <2>2
    <3>2. \A i \in 1..Len(list) : /\ node.conds[i] \in Below(node)
                                  /\ reference[node.conds[i]] \in Answers
      BY <1>1, <1>2, <2>1, <3>1
    <3> HIDE DEF list
    <3>3. \A i \in 1..Len(list) : ref[i] = reference[node.conds[i]]
      OBVIOUS
    <3>4. ref \in [1..Len(list) -> Answers]
      BY <3>2
    <3>5. \A c \in Below(node) : \E i \in 1..Len(list) : c = node.conds[i]
      BY <2>1, <3>1
    <3> HIDE DEF ref
    <3> QED
      BY <3>2, <3>3, <3>4, <3>5
  <2>4. \A i \in 1..Len(list) : NeverFlipped(list[i], ref[i])
    BY <1>2, <2>1, <2>2
  <2>5. /\ evalNode(node, p, answers) = "error" \/ ~HasJunk(node.conds)
        /\ ~HasJunk(node.conds) => evalNode(node, p, answers) =
              IF node.op = "and" THEN andOf(list) ELSE orOf(list)
    BY <1>3 DEF evalNode
  <2>6. KleeneAt(node, p, reference) = KleeneOf(node.op, {ref[i] : i \in 1..Len(list)})
    BY <1>3, <2>3 DEF KleeneAt
  <2> HIDE DEF list, ref
  <2>7. /\ NeverFlipped(andOf(list), KleeneOf("and", {ref[i] : i \in 1..Len(list)}))
        /\ NeverFlipped(orOf(list), KleeneOf("or", {ref[i] : i \in 1..Len(list)}))
    BY <2>2, <2>3, <2>4, NodesNeverFlip
  <2>8. CASE HasJunk(node.conds)
    BY <1>1, <2>5, <2>8 DEF NeverFlipped, answers
  <2>9. CASE ~HasJunk(node.conds) /\ node.op = "and"
    BY <1>1, <2>5, <2>6, <2>7, <2>9 DEF answers, reference
  <2>10. CASE ~HasJunk(node.conds) /\ node.op = "or"
    BY <1>1, <2>5, <2>6, <2>7, <2>10 DEF answers, reference
  <2> QED
    BY <1>3, <2>8, <2>9, <2>10
<1>4. CASE node.op = "not"
  <2>1. node.cond \in Below(node)
    BY <1>4 DEF Below
  <2>2. /\ answers[node] = Negate(answers[node.cond])
        /\ reference[node] = Negate(reference[node.cond])
    BY <1>1, <1>4 DEF evalNode, KleeneAt
  <2>3. NeverFlipped(answers[node], reference[node])
    BY <1>2, <2>1, <2>2 DEF NeverFlipped, Negate
  <2> QED
    BY <2>3 DEF answers, reference
<1>5. CASE node.op \notin {"and", "or", "not"}
  <2>1. Below(node) = {}
    BY <1>5 DEF Below
  <2>2. evalNode(node, p, answers) = evalNode(node, p, reference)
    BY <2>1, NodeLooksBelow
  <2>3. KleeneAt(node, p, reference) = evalNode(node, p, reference)
    BY <1>5 DEF KleeneAt
  <2> QED
    BY <1>1, <2>2, <2>3 DEF NeverFlipped, answers, reference
<1> QED
  BY <1>3, <1>4, <1>5

\* Nowhere in a tree is an answer turned around.
LEMMA TreesNeverFlip ==
  ASSUME NEW p \in Payments, NEW tree \in Expressions
  PROVE  NeverFlipped(AnswersTo[p][tree], Kleene[p][tree])
<1> DEFINE Good == {x \in Expressions : NeverFlipped(AnswersTo[p][x], Kleene[p][x])}
<1>1. ASSUME NEW x \in Expressions,
             \A y \in Expressions : Height[y] < Height[x] => y \in Good
      PROVE  x \in Good
  BY <1>1, TreesAssumption, NodeFollows
<1>2. \A x \in Expressions : x \in Good
  <2> HIDE DEF Good
  <2> QED
    BY <1>1, TreesAssumption, HeightInduction
<1> QED
  BY <1>2

\* A call has the answer that the operators above define.
EvaluatorInv ==
    \/ evaluated = NotCalled
    \/ \E x \in Expressions, p \in Payments :
          evaluated = [call |-> "simulate", expression |-> x, payment |-> p,
                       answer |-> AnswersTo[p][x]]
    \/ \E list \in RuleLists, p \in Payments :
          evaluated = [call |-> "evaluate", list |-> list, payment |-> p,
                       answer |-> aggregateAction(list, p)]

LEMMA EvaluatorInvariant == EvaluatorSpec => []EvaluatorInv
<1>1. NoCallYet => EvaluatorInv
  BY DEF NoCallYet, EvaluatorInv
<1>2. EvaluatorInv /\ [Evaluate]_evaluated => EvaluatorInv'
  BY DEF EvaluatorInv, Evaluate, SimulateRule, EvaluateRules
<1> QED
  BY <1>1, <1>2, PTL DEF EvaluatorSpec

\* The calls of each kind, one at a time.
LEMMA Simulated ==
  ASSUME EvaluatorInv, evaluated.call = "simulate"
  PROVE  /\ evaluated.expression \in Expressions /\ evaluated.payment \in Payments
         /\ evaluated.answer = AnswersTo[evaluated.payment][evaluated.expression]
BY DEF EvaluatorInv, NotCalled

LEMMA RulesEvaluated ==
  ASSUME EvaluatorInv, evaluated.call = "evaluate"
  PROVE  /\ evaluated.list \in RuleLists /\ evaluated.payment \in Payments
         /\ evaluated.answer = aggregateAction(evaluated.list, evaluated.payment)
BY DEF EvaluatorInv, NotCalled

\* Whatever tree SimulateRule is given, of any depth, with any number of
\* conditions in any order and errors anywhere in it: if it answers, the answer
\* is that of three-valued logic (evalNode, evalAnd, evalOr, evalNot).
THEOREM ErrorsHarmless == EvaluatorSpec => []ErrorsNeverFlip
<1>1. EvaluatorInv => ErrorsNeverFlip
  BY Simulated, TreesNeverFlip DEF ErrorsNeverFlip
<1> QED
  BY <1>1, EvaluatorInvariant, PTL

LEMMA OrderingCompares ==
  ASSUME NEW op \in Ordering, NEW actual, NEW expected
  PROVE  applyOp(op, actual, expected) = compareNumbers(op, actual, expected)
BY DEF applyOp, Ordering

\* A comparison of the amount with a number is right where the two are equal and
\* never puts the smaller above the other, beyond 2^53 too (applyOp, toFloats).
THEOREM OrderKept == EvaluatorSpec => []ComparisonsKeepOrder
<1>1. EvaluatorInv => ComparisonsKeepOrder
  <2> SUFFICES ASSUME EvaluatorInv, evaluated.call = "simulate",
                      evaluated.expression.op \in Ordering,
                      evaluated.expression.field = "amount",
                      evaluated.expression.value.kind = "number"
               PROVE  KeepsOrder(evaluated.expression.op, evaluated.payment.amount,
                                 evaluated.expression.value.n, evaluated.answer)
    BY DEF ComparisonsKeepOrder
  <2> DEFINE x == evaluated.expression
             p == evaluated.payment
  <2>1. x \in Expressions /\ p \in Payments /\ evaluated.answer = AnswersTo[p][x]
    BY Simulated
  <2>2. evaluated.answer = evalNode(x, p, AnswersTo[p])
    BY <2>1, TreesAreEvaluated
  <2>3. p.amount \in 0..MaxFloat /\ x.value.n \in 0..MaxFloat
    BY <2>1, NumbersAssumption
  <2> HIDE DEF x, p
  <2>4. x.op \in Ordering /\ x.field = "amount" /\ x.value.kind = "number"
    BY DEF x
  <2>5. x.op \notin {"and", "or", "not", "junk", "eq", "neq"}
    BY <2>4 DEF Ordering
  <2>6. evaluated.answer = applyOp(x.op, resolveField(x.field, p), x.value)
    BY <2>2, <2>5 DEF evalNode
  <2>7. evaluated.answer = compareNumbers(x.op, Int64(p.amount), x.value)
    <3>1. resolveField(x.field, p) = Int64(p.amount)
      BY <2>4 DEF resolveField
    <3> QED
      BY <2>4, <2>6, <3>1, OrderingCompares
  <2>8. compareNumbers(x.op, Int64(p.amount), x.value)
          = compareNumbers(x.op, Int64(p.amount), Number(x.value.n))
    BY <2>4 DEF compareNumbers, isNumeric, toFloat64, Number
  <2> QED
    BY <2>3, <2>4, <2>7, <2>8, ComparisonsRight DEF x, p
<1> QED
  BY <1>1, EvaluatorInvariant, PTL

\* However many rules a tenant has, and whichever of them fail: the action taken
\* is at least as severe as that of every rule that matches and can be evaluated,
\* and it is that of a rule that matches, or approve (EvaluateRules).
THEOREM SeverestWins == EvaluatorSpec => []SeverestMatchWins
<1>1. EvaluatorInv => SeverestMatchWins
  <2> SUFFICES ASSUME EvaluatorInv, evaluated.call = "evaluate"
               PROVE  SeverestMatchWins
    BY DEF SeverestMatchWins
  <2>1. PICK list \in RuleLists, p \in Payments :
           /\ list = evaluated.list /\ p = evaluated.payment
           /\ evaluated.answer = aggregateAction(list, p)
    BY RulesEvaluated
  <2> DEFINE Told(i) == AnswersTo[p][list[i].expression]
             chosen == {i \in Considered(list, p) : Told(i) = "match"}
             actions == {list[i].action : i \in chosen}
  <2>2. list \in Seq(Rule)
    BY RulesAssumption
  <2>3. \A i \in DOMAIN list : /\ list[i].expression \in Expressions
                               /\ list[i].action \in DOMAIN Severity
    <3> SUFFICES ASSUME NEW i \in DOMAIN list
                 PROVE  /\ list[i].expression \in Expressions
                        /\ list[i].action \in DOMAIN Severity
      OBVIOUS
    <3>1. list[i] \in Rule
      BY <2>2
    <3> QED
      BY <3>1 DEF Rule
  <2>4. chosen = {i \in DOMAIN list : Told(i) = "match"}
    BY DEF Considered
  <2>5. /\ evaluated.answer \in {"approve"} \cup actions
        /\ \A a \in actions : Severity[a] <= Severity[evaluated.answer]
    <3> DEFINE each == [i \in DOMAIN list |-> list[i].action]
    <3>1. each \in Seq(DOMAIN Severity) /\ DOMAIN each = DOMAIN list
      BY <2>2, <2>3
    <3>2. chosen \in SUBSET DOMAIN each
      BY <2>4
    <3>3. evaluated.answer = ActionTaken(each, chosen)
      BY <2>1 DEF aggregateAction
    <3>4. actions = {each[i] : i \in chosen}
      BY <2>4
    <3> HIDE DEF actions, each, chosen
    <3>5. /\ evaluated.answer \in {"approve"} \cup {each[i] : i \in chosen}
          /\ \A i \in chosen : Severity[each[i]] <= Severity[evaluated.answer]
      BY <3>1, <3>2, <3>3, SeverestTaken
    <3> QED
      BY <3>4, <3>5
  <2>6. \A i \in DOMAIN list : /\ Told(i) \in Answers
                               /\ NeverFlipped(Told(i), Kleene[p][list[i].expression])
    BY <2>3, TreesAreEvaluated, TreesNeverFlip
  <2>7. ASSUME NEW i \in DOMAIN list, Told(i) = "match"
        PROVE  Kleene[p][list[i].expression] = "match"
    BY <2>6, <2>7 DEF NeverFlipped
  <2>8. ASSUME NEW i \in DOMAIN list, Told(i) # "error",
               Kleene[p][list[i].expression] = "match"
        PROVE  Told(i) = "match"
    BY <2>6, <2>8 DEF NeverFlipped
  <2> QED
    BY <2>1, <2>4, <2>5, <2>7, <2>8 DEF SeverestMatchWins
<1> QED
  BY <1>1, EvaluatorInvariant, PTL
=============================================================================
