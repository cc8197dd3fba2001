---------------------------- MODULE TenantConfig ----------------------------
(***************************************************************************)
(* The tenant configuration service: one row of configuration per tenant,  *)
(* and the record of it that Redis holds.                                  *)
(*                                                                         *)
(* An update of the rule set or of the workflow is one statement; the      *)
(* handler then reads the tenant, its configuration and its flags again,   *)
(* and returns, caches and announces the row its own statement returned.   *)
(* When that read fails the caller is told of an error, nothing is cached  *)
(* and nothing announced, and the update stands. The events, tenant.created*)
(* and tenant.config.updated, have no consumer and are left out.           *)
(***************************************************************************)
EXTENDS Naturals

CONSTANTS Tenants,
          RuleSets,
          WorkflowTemplates,
          Updaters,   \* CreateTenant and UpdateTenant...Config calls
          Readers,    \* GetTenantConfig calls
          MaxVersion  \* bound: versions of a configuration

VARIABLES config,    \* the committed row of each tenant
          cache,     \* the record Redis holds of it
          update,    \* where each update stands
          read,      \* where each read stands
          past       \* history: the configurations each tenant has had

vars == <<config, cache, update, read, past>>

-----------------------------------------------------------------------------
(* Rows, records and calls *)

Config == [ruleSet : RuleSets, workflow : WorkflowTemplates, version : 1..MaxVersion]
Absent == [version |-> 0]

\* A cached record. Name and status never change; the feature flags are those
\* of the tenant's creation, or none when CreateTenant failed to read them.
Record == [config : Config, flags : BOOLEAN]
Miss == [flags |-> FALSE]

Idle     == [at |-> "idle"]
Updating == [at : {"updated", "created"}, tenant : Tenants, config : Config]
Caching  == [at : {"set"}, tenant : Tenants, record : Record]
Fetching == [at : {"missed"}, tenant : Tenants]
Fetched  == [at : {"fetched"}, tenant : Tenants, record : Record]

Init ==
    /\ config = [t \in Tenants |-> Absent]
    /\ cache = [t \in Tenants |-> Miss]
    /\ update = [u \in Updaters |-> Idle]
    /\ read = [r \in Readers |-> Idle]
    /\ past = [t \in Tenants |-> {}]

Commit(t, row) ==
    /\ config' = [config EXCEPT ![t] = row]
    /\ past' = [past EXCEPT ![t] = @ \cup {row}]

-----------------------------------------------------------------------------
(* CreateTenant: tenant, configuration and flags in one transaction *)

CreateTenant(u, t, ruleSet, workflow) ==
    LET row == [ruleSet |-> ruleSet, workflow |-> workflow, version |-> 1] IN
    /\ update[u] = Idle
    /\ config[t] = Absent
    /\ Commit(t, row)
    /\ update' = [update EXCEPT ![u] = [at |-> "created", tenant |-> t, config |-> row]]
    /\ UNCHANGED <<cache, read>>

\* GetFeatureFlags, whose error is dropped.
ReadFlags(u, flags) ==
    /\ update[u].at = "created"
    /\ update' = [update EXCEPT ![u] =
           [at |-> "set", tenant |-> @.tenant,
            record |-> [config |-> @.config, flags |-> flags]]]
    /\ UNCHANGED <<config, cache, read, past>>

-----------------------------------------------------------------------------
(* UpdateTenantRuleConfig, UpdateTenantWorkflowConfig *)

UpdateConfig(u, t, row) ==
    /\ update[u] = Idle
    /\ config[t].version \in 1..(MaxVersion - 1)
    /\ Commit(t, row)
    /\ update' = [update EXCEPT ![u] = [at |-> "updated", tenant |-> t, config |-> row]]
    /\ UNCHANGED <<cache, read>>

UpdateRuleConfig(u, t, ruleSet) ==
    UpdateConfig(u, t, [config[t] EXCEPT !.ruleSet = ruleSet, !.version = @ + 1])

UpdateWorkflowConfig(u, t, workflow) ==
    UpdateConfig(u, t, [config[t] EXCEPT !.workflow = workflow, !.version = @ + 1])

\* Fault: the handler goes on with the row read again, under its own version.
ReadAgain_Mixed(u) ==
    LET t == update[u].tenant IN
    /\ update[u].at = "updated"
    /\ update' = [update EXCEPT ![u] =
           [at |-> "set", tenant |-> t,
            record |-> [config |-> [config[t] EXCEPT !.version = update[u].config.version],
                        flags |-> TRUE]]]
    /\ UNCHANGED <<config, cache, read, past>>

\* GetTenant, of which only the tenant and its flags are kept.
ReadAgain(u) ==
    /\ update[u].at = "updated"
    /\ update' = [update EXCEPT ![u] =
           [at |-> "set", tenant |-> @.tenant,
            record |-> [config |-> @.config, flags |-> TRUE]]]
    /\ UNCHANGED <<config, cache, read, past>>

\* GetTenant fails: the caller gets an error for an update that stands.
ReadAgainFails(u) ==
    /\ update[u].at = "updated"
    /\ update' = [update EXCEPT ![u] = Idle]
    /\ UNCHANGED <<config, cache, read, past>>

\* Set, which may fail; the answer goes out with or without it.
SetUpdated(u) ==
    /\ update[u].at = "set"
    /\ cache' \in {cache, [cache EXCEPT ![update[u].tenant] = update[u].record]}
    /\ update' = [update EXCEPT ![u] = Idle]
    /\ UNCHANGED <<config, read, past>>

\* The process stops after the commit of a new tenant.
CreateEnds(u) ==
    /\ update[u].at = "created"
    /\ update' = [update EXCEPT ![u] = Idle]
    /\ UNCHANGED <<config, cache, read, past>>

-----------------------------------------------------------------------------
(* GetTenantConfig. A record found in Redis is returned and changes nothing;  *)
(* an error of Redis is a miss.                                               *)

GetMisses(r, t) ==
    /\ read[r] = Idle
    /\ read' = [read EXCEPT ![r] = [at |-> "missed", tenant |-> t]]
    /\ UNCHANGED <<config, cache, update, past>>

GetTenant(r) ==
    LET t == read[r].tenant IN
    /\ read[r].at = "missed"
    /\ read' = [read EXCEPT ![r] =
           IF config[t] = Absent THEN Idle
           ELSE [at |-> "fetched", tenant |-> t,
                 record |-> [config |-> config[t], flags |-> TRUE]]]
    /\ UNCHANGED <<config, cache, update, past>>

SetRead(r) ==
    /\ read[r].at = "fetched"
    /\ cache' = [cache EXCEPT ![read[r].tenant] = read[r].record]
    /\ read' = [read EXCEPT ![r] = Idle]
    /\ UNCHANGED <<config, update, past>>

\* The store or Redis fails, or the process stops.
ReadEnds(r) ==
    /\ read[r] # Idle
    /\ read' = [read EXCEPT ![r] = Idle]
    /\ UNCHANGED <<config, cache, update, past>>

Expire(t) ==
    /\ cache[t] # Miss
    /\ cache' = [cache EXCEPT ![t] = Miss]
    /\ UNCHANGED <<config, update, read, past>>

-----------------------------------------------------------------------------
(* The specification *)

UpdateStep(u) ==
    \/ \E t \in Tenants, s \in RuleSets, w \in WorkflowTemplates : CreateTenant(u, t, s, w)
    \/ \E flags \in BOOLEAN : ReadFlags(u, flags)
    \/ \E t \in Tenants, s \in RuleSets : UpdateRuleConfig(u, t, s)
    \/ \E t \in Tenants, w \in WorkflowTemplates : UpdateWorkflowConfig(u, t, w)
    \/ ReadAgain(u)
    \/ ReadAgainFails(u)
    \/ SetUpdated(u)
    \/ CreateEnds(u)

ReadStep(r) ==
    \/ \E t \in Tenants : GetMisses(r, t)
    \/ GetTenant(r)
    \/ SetRead(r)
    \/ ReadEnds(r)

Next ==
    \/ \E u \in Updaters : UpdateStep(u)
    \/ \E r \in Readers : ReadStep(r)
    \/ \E t \in Tenants : Expire(t)

\* Redis drops a key when its time is over, and a call that has begun ends.
Fairness ==
    /\ \A t \in Tenants : WF_vars(Expire(t))
    /\ \A u \in Updaters : WF_vars(\/ \E flags \in BOOLEAN : ReadFlags(u, flags)
                                   \/ ReadAgain(u) \/ ReadAgainFails(u)
                                   \/ SetUpdated(u) \/ CreateEnds(u))
    /\ \A r \in Readers : WF_vars(GetTenant(r) \/ SetRead(r) \/ ReadEnds(r))

Spec == Init /\ [][Next]_vars /\ Fairness

-----------------------------------------------------------------------------
(* Properties *)

TypeOK ==
    /\ config \in [Tenants -> {Absent} \cup Config]
    /\ cache \in [Tenants -> {Miss} \cup Record]
    /\ update \in [Updaters -> {Idle} \cup Updating \cup Caching]
    /\ read \in [Readers -> {Idle} \cup Fetching \cup Fetched]
    /\ past \in [Tenants -> SUBSET Config]

\* Whatever updates and reads race, the record Redis holds of a tenant pairs the
\* rule set and the workflow that were configured together, under the version
\* they had: a reader is never shown a combination that nobody configured.
CachedConfigWasInForce ==
    \A t \in Tenants : cache[t] # Miss => cache[t].config \in past[t]

\* When a tenant's configuration is no longer updated, the records that racing
\* calls left behind, those of updates that failed half way, and those without
\* the feature flags are gone.
ConfigsSettle ==
    \A t \in Tenants :
        <>[](cache[t] = Miss \/ cache[t] = [config |-> config[t], flags |-> TRUE])
=============================================================================
