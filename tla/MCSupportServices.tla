------------------------- MODULE MCSupportServices -------------------------
(***************************************************************************)
(* A small instance of the services around a decision. They share no       *)
(* variable but the ledger the explanations are made from: a behaviour of  *)
(* all of them is an interleaving of one of each, and it is enough that    *)
(* one at a time has left its initial states.                              *)
(***************************************************************************)
EXTENDS SupportServices, TLC

CONSTANTS ta, tb, none, x1, x2, s1, s2, r1, r2, r3, r4, u1, a1, p1, all, s3

MCDecided == {[payment |-> p1, tenant |-> ta], [payment |-> p1, tenant |-> tb]}
MCExplainers == {x1, x2}
MCChannels == {all}
MCSenders == {s1, s2, s3}
MCRows == {r1, r2, r3, r4}
MCPlaces == 1..3
MCSizes == 1..3
MCUsers == {u1}
MCTenants == {ta, tb}
MCRoles == {"platform_admin", "analyst"}
MCActions == {"decision:override", "case:read"}
MCCalls == {a1}

ExplanationQuiet == L!Init /\ X!Init
NotificationQuiet == N!Init
ListingQuiet == P!Init
IdentityQuiet == A!Init

MCNext ==
    \/ NotificationQuiet /\ ListingQuiet /\ IdentityQuiet /\ ExplanationStep
    \/ ExplanationQuiet /\ ListingQuiet /\ IdentityQuiet /\ NotificationStep
    \/ ExplanationQuiet /\ NotificationQuiet /\ IdentityQuiet /\ ListingStep
    \/ ExplanationQuiet /\ NotificationQuiet /\ ListingQuiet /\ IdentityStep

MCSpec == Init /\ [][MCNext]_vars

MCSymmetry == Permutations(MCExplainers) \cup Permutations(MCTenants)
=============================================================================
