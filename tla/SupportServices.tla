-------------------------- MODULE SupportServices --------------------------
(***************************************************************************)
(* The services around a decision that has been taken, side by side: the   *)
(* explanations of it, the notifications about it, the listings it is      *)
(* found in, and the identity service that says who may touch it. The      *)
(* explanation service reads the decision service's ledger; the others     *)
(* share nothing.                                                          *)
(***************************************************************************)
EXTENDS Naturals, Sequences

CONSTANTS Decided, Outcome, MaxOverrides, Explainers,
          Channels, Senders, Limit, Window, MaxCount,
          Rows, Places, Sizes, MaxPage,
          Users, Tenants, Roles, Actions, AnyTenant, Calls, MaxTokens

ASSUME RateAssumption == {Limit, Window} \subseteq Nat \ {0} /\ MaxCount \in Nat
ASSUME PlacesAssumption ==
    /\ Places \subseteq Nat \ {0} /\ Sizes \subseteq Nat \ {0}
    /\ MaxPage \in Nat \ {0}
ASSUME AnyTenantAssumption == AnyTenant \notin Tenants

VARIABLES ledger, announced, explanations, explaining, raced,
          count, ttl, sender, admitted,
          listing, place, walk,
          account, tokens, authorizing

DecisionVars == <<ledger, announced>>
ExplanationVars == <<explanations, explaining, raced>>
NotificationVars == <<count, ttl, sender, admitted>>
ListingVars == <<listing, place, walk>>
IdentityVars == <<account, tokens, authorizing>>

vars == <<DecisionVars, ExplanationVars, NotificationVars, ListingVars, IdentityVars>>

L == INSTANCE DecisionLedger WITH Keys <- Decided
X == INSTANCE Explanation WITH Keys <- Decided, Callers <- Explainers, call <- explaining
N == INSTANCE Notification
P == INSTANCE PagedListing
A == INSTANCE Authorization WITH call <- authorizing

Init == L!Init /\ X!Init /\ N!Init /\ P!Init /\ A!Init

\* An override takes effect in the decision service alone: nothing tells the
\* explanation service.
OverrideStep(k, o) ==
    /\ Len(ledger[k]) <= MaxOverrides
    /\ L!Override(k, o)
    /\ X!Overridden(k)

ExplanationStep ==
    /\ \/ \E k \in Decided, o \in Outcome :
              \/ L!Record(k, o) /\ UNCHANGED ExplanationVars
              \/ OverrideStep(k, o)
       \/ X!Next /\ UNCHANGED DecisionVars
    /\ UNCHANGED <<NotificationVars, ListingVars, IdentityVars>>

NotificationStep ==
    N!Next /\ UNCHANGED <<DecisionVars, ExplanationVars, ListingVars, IdentityVars>>
ListingStep ==
    P!Next /\ UNCHANGED <<DecisionVars, ExplanationVars, NotificationVars, IdentityVars>>
IdentityStep ==
    A!Next /\ UNCHANGED <<DecisionVars, ExplanationVars, NotificationVars, ListingVars>>

Next == ExplanationStep \/ NotificationStep \/ ListingStep \/ IdentityStep

Spec == Init /\ [][Next]_vars

-----------------------------------------------------------------------------
(* Properties *)

\* The variables of each service keep their types.
TypeOK == L!TypeOK /\ X!TypeOK /\ N!TypeOK /\ P!TypeOK /\ A!TypeOK

\* An explanation reports outcomes its decision has had, and of two different ones
\* only if an override fell into its generation (Upsert's ON CONFLICT).
TornOnlyWhenRaced == X!TornOnlyWhenRaced

\* Within any one window a key admits no more than the limit (Allow).
RateWindowBounded == N!RateWindowBounded

\* A walk through the pages returns what was there when it began (QueryLogs,
\* QueryAuditTrail, ListCases).
WalksMissNothing == P!WalksMissNothing

\* What is allowed is allowed to the account as it is when the call begins
\* (Authorize's live checks).
AllowedIsCurrent == A!AllowedIsCurrent
=============================================================================
