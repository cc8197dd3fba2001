--------------------------- MODULE Authorization ---------------------------
(***************************************************************************)
(* The identity service. A token carries the tenant and the roles its      *)
(* user had at the login; Authorize decides by it, and for the actions of  *)
(* highStakesActions asks Keycloak twice before: whether the account is    *)
(* enabled, then for its tenant. Keycloak's administrators change accounts *)
(* at any moment, between those two requests too.                          *)
(*                                                                         *)
(* Left out: the signature, issuer and audience of a token, and the events *)
(* the service publishes, which no service of the repository reads.        *)
(***************************************************************************)
EXTENDS FiniteSets, Naturals

CONSTANTS Users, Tenants, Roles, Actions,
          AnyTenant, \* the empty resource_tenant_id
          Calls,     \* Authorize calls that may run at once
          MaxTokens  \* bound: tokens that are valid at once

VARIABLES account, \* Keycloak: the account of each user
          tokens,  \* the tokens that are valid
          call     \* what each call is doing, or has answered

vars == <<account, tokens, call>>

Account == [enabled : BOOLEAN, tenant : Tenants, roles : SUBSET Roles]
Token == [user : Users, tenant : Tenants, roles : SUBSET Roles]

highStakesActions == {"decision:override", "case:escalate", "workflow:approve"}

\* rolePerms, of which every role not named has none.
rolePerms == [platform_admin |-> {"*"},
              tenant_admin   |-> {"case:read", "case:write", "workflow:read",
                                  "workflow:write", "decision:read"},
              analyst        |-> {"case:read", "case:write", "decision:read"},
              merchant_user  |-> {"transaction:read", "decision:read"},
              ops_admin      |-> {"ops:read", "audit:read"}]

EffectivePermissions(token) ==
    UNION {rolePerms[role] : role \in token.roles \cap DOMAIN rolePerms}

\* The administrators of the platform act for every tenant.
Can(token, action, resource) ==
    /\ \/ resource \in {AnyTenant, token.tenant}
       \/ "platform_admin" \in token.roles
    /\ {"*", action} \cap EffectivePermissions(token) # {}

NoCall == [at |-> "none"]
Started == [at : {"status", "tenant"}, token : Token, action : Actions,
            resource : Tenants \cup {AnyTenant}, changed : BOOLEAN]
Answered == [at : {"answered"}, token : Token, action : Actions,
             resource : Tenants \cup {AnyTenant}, changed : BOOLEAN, allowed : BOOLEAN]

Init ==
    /\ account \in [Users -> [enabled : {TRUE}, tenant : Tenants, roles : {{}}]]
    /\ tokens = {}
    /\ call = [c \in Calls |-> NoCall]

-----------------------------------------------------------------------------
(* Keycloak *)

\* changed is history: the account is no longer what it was when the call began.
ChangeAccount(u, new) ==
    /\ account[u] # new
    /\ account' = [account EXCEPT ![u] = new]
    /\ call' = [c \in Calls |->
                  IF call[c] # NoCall /\ call[c].token.user = u
                  THEN [call[c] EXCEPT !.changed = TRUE] ELSE call[c]]
    /\ UNCHANGED tokens

Login(u) ==
    /\ account[u].enabled
    /\ Cardinality(tokens) < MaxTokens
    /\ tokens' = tokens \cup
           {[user |-> u, tenant |-> account[u].tenant, roles |-> account[u].roles]}
    /\ UNCHANGED <<account, call>>

TokenExpires(token) ==
    /\ token \in tokens
    /\ tokens' = tokens \ {token}
    /\ UNCHANGED <<account, call>>

-----------------------------------------------------------------------------
(* Authorize *)

Answer(c, token, action, resource, changed, allowed) ==
    call' = [call EXCEPT ![c] =
        [at |-> "answered", token |-> token, action |-> action, resource |-> resource,
         changed |-> changed, allowed |-> allowed]]

\* ValidateAccessToken; an action that is not of high stakes is decided at once.
Authorize(c, token, action, resource) ==
    /\ call[c] = NoCall
    /\ token \in tokens
    /\ IF action \in highStakesActions
       THEN call' = [call EXCEPT ![c] =
                [at |-> "status", token |-> token, action |-> action,
                 resource |-> resource, changed |-> FALSE]]
       ELSE Answer(c, token, action, resource, FALSE, Can(token, action, resource))
    /\ UNCHANGED <<account, tokens>>

Refuse(c) == Answer(c, call[c].token, call[c].action, call[c].resource, call[c].changed, FALSE)

IsUserEnabled(c) ==
    /\ call[c].at = "status"
    /\ IF account[call[c].token.user].enabled
       THEN call' = [call EXCEPT ![c].at = "tenant"]
       ELSE Refuse(c)
    /\ UNCHANGED <<account, tokens>>

\* Fault: the claim of the token is trusted.
GetUserTenantID_Claimed(c) ==
    /\ call[c].at = "tenant"
    /\ Answer(c, call[c].token, call[c].action, call[c].resource, call[c].changed,
              Can(call[c].token, call[c].action, call[c].resource))
    /\ UNCHANGED <<account, tokens>>

\* The tenant of the account must be the token's, then Can decides.
GetUserTenantID(c) ==
    /\ call[c].at = "tenant"
    /\ IF account[call[c].token.user].tenant = call[c].token.tenant
       THEN Answer(c, call[c].token, call[c].action, call[c].resource, call[c].changed,
                   Can(call[c].token, call[c].action, call[c].resource))
       ELSE Refuse(c)
    /\ UNCHANGED <<account, tokens>>

\* The caller has its answer, or an error of Keycloak.
CallEnds(c) ==
    /\ call[c] # NoCall
    /\ call' = [call EXCEPT ![c] = NoCall]
    /\ UNCHANGED <<account, tokens>>

Next ==
    \/ \E u \in Users :
        \/ \E new \in Account : ChangeAccount(u, new)
        \/ Login(u)
    \/ \E token \in tokens : TokenExpires(token)
    \/ \E c \in Calls :
        \/ \E token \in tokens, action \in Actions, resource \in Tenants \cup {AnyTenant} :
            Authorize(c, token, action, resource)
        \/ IsUserEnabled(c)
        \/ GetUserTenantID(c)
        \/ CallEnds(c)

-----------------------------------------------------------------------------
(* Properties *)

TypeOK ==
    /\ account \in [Users -> Account]
    /\ tokens \subseteq Token
    /\ call \in [Calls -> {NoCall} \cup Started \cup Answered]

\* An action is allowed only within the tenant of the login, but for platform
\* administrators; and one of high stakes only to an account that is enabled and
\* still in that tenant, unless it changed after the call began. (The roles are
\* those of the login in either case.)
AllowedIsCurrent ==
    \A c \in Calls : (call[c] # NoCall /\ call[c].at = "answered" /\ call[c].allowed) =>
        LET now == account[call[c].token.user] IN
        /\ call[c].resource \notin {AnyTenant, call[c].token.tenant} =>
               "platform_admin" \in call[c].token.roles
        /\ (call[c].action \in highStakesActions /\ ~call[c].changed) =>
               now.enabled /\ now.tenant = call[c].token.tenant
=============================================================================
