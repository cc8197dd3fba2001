--------------------------- MODULE ConfigServices ---------------------------
(***************************************************************************)
(* The services an operator configures, side by side: the rules engine,    *)
(* the workflow service, and the tenant configuration with the gateway's   *)
(* cache of it on top. They share no variable but the configurations the   *)
(* gateway reads.                                                          *)
(***************************************************************************)
EXTENDS Naturals

CONSTANTS Tenants, Rules, Contents,
          Templates, Transitions,
          RuleSets, WorkflowTemplates,
          Writers,    \* the calls that change a configuration
          Readers,    \* the calls that read one
          Queries,    \* the gateway's resolvers
          MaxVersion  \* bound: versions of a rule, a template, a configuration

ASSUME MaxVersionAssumption == MaxVersion \in Nat \ {0}

VARIABLES rules, archive, ruleCache, ruleEdit, ruleEval,
          rulePast, ruleCrossed, ruleStale,
          templateVersion, templateTransitions, templateCache,
          templateUpdate, templateRead, templatePast,
          config, configCache, configUpdate, configRead, configPast,
          view, query

RuleVars == <<rules, archive, ruleCache, ruleEdit, ruleEval, rulePast, ruleCrossed,
              ruleStale>>
TemplateVars == <<templateVersion, templateTransitions, templateCache,
                  templateUpdate, templateRead, templatePast>>
ConfigVars == <<config, configCache, configUpdate, configRead, configPast>>
ViewVars == <<view, query>>

vars == <<RuleVars, TemplateVars, ConfigVars, ViewVars>>

R == INSTANCE RulesEngine WITH
        Editors <- Writers, Evaluations <- Readers, cache <- ruleCache,
        edit <- ruleEdit, eval <- ruleEval, past <- rulePast,
        crossed <- ruleCrossed, stale <- ruleStale

W == INSTANCE Workflow WITH
        Updaters <- Writers, version <- templateVersion,
        transitions <- templateTransitions, cache <- templateCache,
        update <- templateUpdate, read <- templateRead, committed <- templatePast

T == INSTANCE TenantConfig WITH
        Updaters <- Writers, cache <- configCache, update <- configUpdate,
        read <- configRead, past <- configPast

\* What GetTenantConfig answers: the record in Redis, or the row.
TenantAnswers ==
    [t \in Tenants |->
        IF config[t] = T!Absent THEN {}
        ELSE {config[t]} \cup (IF configCache[t] = T!Miss THEN {} ELSE {configCache[t].config})]

G == INSTANCE QueryCache WITH Keys <- Tenants, answers <- TenantAnswers

Init == R!Init /\ W!Init /\ T!Init /\ G!Init

RulesStep    == R!Next /\ UNCHANGED <<TemplateVars, ConfigVars, ViewVars>>
WorkflowStep == W!Next /\ UNCHANGED <<RuleVars, ConfigVars, ViewVars>>
TenantStep   == T!Next /\ UNCHANGED <<RuleVars, TemplateVars, ViewVars>>
GatewayStep  == G!Next /\ UNCHANGED <<RuleVars, TemplateVars, ConfigVars>>

Next == RulesStep \/ WorkflowStep \/ TenantStep \/ GatewayStep

Fairness == R!Fairness /\ W!Fairness /\ T!Fairness /\ G!Fairness

Spec == Init /\ [][Next]_vars /\ Fairness

-----------------------------------------------------------------------------
(* Properties *)

TypeOK == R!TypeOK /\ W!TypeOK /\ T!TypeOK

\* Every archived version holds what the rule was at that version, one for each
\* commit, however updates overlap (UpdateRule).
ArchiveIsTrue == R!ArchiveIsTrue

\* A rule whose updates never overlapped can be read back at every version it has
\* had (UpdateRule's archive).
SupersededArchived == R!SupersededArchived

\* The rules in Redis are the current ones unless an edit raced or Redis failed
\* (Invalidate after every edit).
StaleOnlyWhenRaced == R!StaleOnlyWhenRaced

\* The transitions of a template's copy are those of its version or of a later one
\* (GetTemplate's two queries).
TearsLookForward == W!TearsLookForward

\* The record in Redis is a configuration the tenant has had, and so is the result
\* that the gateway keeps of it: two caches, one filled from the other, never
\* serve a mixture (UpdateRuleConfig's returned row and the row read again, the
\* gateway's tenantConfig).
CachedConfigWasInForce ==
    /\ T!CachedConfigWasInForce
    /\ \A t \in Tenants : view[t] \subseteq configPast[t]

\* Once the edits stop, every cache comes to hold nothing or the current rules,
\* template and configuration, whatever races, failures and crashes left in it;
\* and so does the gateway's, which is filled from the tenant service's cache.
CachesSettle ==
    /\ R!RulesSettle
    /\ W!TemplatesSettle
    /\ T!ConfigsSettle
    /\ \A t \in Tenants : <>[](view[t] \in {{}, {config[t]}})
=============================================================================
