----------------------------- MODULE TokenPolicy ----------------------------
(***************************************************************************)
(* Granting the mail permissions to the deploy token:                      *)
(* scripts/grant_email_permissions.py --apply.                             *)
(*                                                                         *)
(* A run reads the token's policies and the account's catalogue of         *)
(* permission groups, probes what the token can reach, puts the whole list *)
(* back with what is missing appended, and probes again.  Its workflow     *)
(* runs once at a time, but people edit the same token in the dashboard.   *)
(*                                                                         *)
(* A group is an id, with the scope the catalogue gives it.  What a probe  *)
(* reaches is anything: the edge goes by policies of some while ago, may   *)
(* ignore what a token grants itself, and any of the calls may fail.  Dry  *)
(* runs, and finding the token's own id, change nothing and are left out.  *)
(***************************************************************************)
EXTENDS Naturals, Sequences, SequencesExt

CONSTANTS
    Groups,         \* the permission groups there are
    Want,           \* the groups to grant
    AccountScoped,  \* those of them whose scope is the account; the rest a zone's
    Found,          \* the policy lists the token may be found with
    MaxEdits        \* bound on the edits in the dashboard

Resources == {"account", "zone"}

Policy == [effect : {"allow", "deny"}, resource : Resources, groups : SUBSET Groups]

ASSUME PolicyAssumption ==
    /\ AccountScoped \subseteq Want /\ Want \subseteq Groups
    /\ Found \subseteq Seq(Policy)
    /\ MaxEdits \in Nat

VARIABLES
    policies,   \* the token's policies
    grant,      \* the state of the run
    edits       \* the edits so far

policyVars == <<policies, grant, edits>>

\* PROBES: those that the mail products answer, and the others.
Capabilities == {"Email Routing", "Email Sending", "R2"}

\* `offered` is what the catalogue had of Want; `edited` is history: somebody
\* edited the token since the run read it.
NoGrant == [phase |-> "idle", seen |-> <<>>, offered |-> {}, before |-> {}, edited |-> FALSE]

PolicyInit ==
    /\ policies \in Found
    /\ grant = NoGrant
    /\ edits = 0

(***************************************************************************)
(* The merge.                                                              *)
(***************************************************************************)

\* Mutant: every group in the zone's policy.
AllOnZone(groups, resource) == IF resource = "zone" THEN groups ELSE {}

\* split_by_scope: a group does nothing under the other resource.
SplitByScope(groups, resource) ==
    IF resource = "account" THEN groups \cap AccountScoped ELSE groups \ AccountScoped

\* _allows: one policy that covers them all, on that very resource.
Allows(list, groups, resource) ==
    groups = {} \/ \E i \in DOMAIN list :
        /\ list[i].effect = "allow"
        /\ list[i].resource = resource
        /\ groups \subseteq list[i].groups

AlreadyGranted(list, groups) ==
    \A r \in Resources : Allows(list, SplitByScope(groups, r), r)

Missing(list, groups, resource) ==
    IF Allows(list, SplitByScope(groups, resource), resource) THEN <<>>
    ELSE <<[effect |-> "allow", resource |-> resource, groups |-> SplitByScope(groups, resource)]>>

Merged(list, groups) == list \o Missing(list, groups, "account") \o Missing(list, groups, "zone")

(***************************************************************************)
(* The run.                                                                *)
(***************************************************************************)

Granting == grant.phase \in {"catalogue", "before", "putting", "after"}

ReadPolicies ==
    /\ ~ Granting
    /\ grant' = [NoGrant EXCEPT !.phase = "catalogue", !.seen = policies]
    /\ UNCHANGED <<policies, edits>>

\* What the account does not offer is named and not granted; nothing of it, or
\* a catalogue that cannot be read, is a failure (GrantFails).
ReadCatalogue ==
    /\ grant.phase = "catalogue"
    /\ \E offered \in SUBSET Want \ {{}} :
            grant' = [grant EXCEPT !.offered = offered,
                        !.phase = IF AlreadyGranted(grant.seen, offered) THEN "exit0" ELSE "before"]
    /\ UNCHANGED <<policies, edits>>

ProbeBefore ==
    /\ grant.phase = "before"
    /\ \E reached \in SUBSET Capabilities :
            grant' = [grant EXCEPT !.phase = "putting", !.before = reached]
    /\ UNCHANGED <<policies, edits>>

\* Refused (GrantFails), accepted, or accepted and the answer lost.
PutPolicies ==
    /\ grant.phase = "putting"
    /\ policies' = Merged(grant.seen, grant.offered)
    /\ \E phase \in {"after", "exit1"} : grant' = [grant EXCEPT !.phase = phase]
    /\ UNCHANGED edits

\* Up to seven probes ten seconds apart; the last one is judged.
ProbeAfter ==
    /\ grant.phase = "after"
    /\ \E reached \in SUBSET Capabilities :
            grant' = [grant EXCEPT !.phase =
                        IF grant.before \cup {"Email Routing", "Email Sending"} \subseteq reached
                        THEN "exit0" ELSE "exit1"]
    /\ UNCHANGED <<policies, edits>>

GrantFails ==
    /\ Granting
    /\ grant' = [grant EXCEPT !.phase = "exit1"]
    /\ UNCHANGED <<policies, edits>>

\* The token's owner adds a policy, or takes one away.
DashboardEdit ==
    /\ edits < MaxEdits
    /\ edits' = edits + 1
    /\ \/ \E list \in Found, i \in 1 .. 2 : i \in DOMAIN list /\ policies' = Append(policies, list[i])
       \/ \E i \in DOMAIN policies : policies' = RemoveAt(policies, i)
    /\ grant' = [grant EXCEPT !.edited = Granting]

PolicyNext ==
    \/ ReadPolicies \/ ReadCatalogue \/ ProbeBefore \/ PutPolicies \/ ProbeAfter \/ GrantFails
    \/ DashboardEdit

PolicySpec == PolicyInit /\ [][PolicyNext]_policyVars

-----------------------------------------------------------------------------
(***************************************************************************)
(* Property.                                                               *)
(***************************************************************************)

OwnResource(g) == IF g \in AccountScoped THEN "account" ELSE "zone"

\* While nobody else edits the token, every policy that the run read stays on it
\* at its place, through the put that replaces the whole list, so no capability
\* of another workflow goes with it; and a run that ends 0 leaves every group the
\* account offers named by an allowing policy on the resource of the group's own
\* scope (grant_email_permissions.py:100, :168).  That is the grant as it is
\* stored.  A denial that was found stays too and may still outweigh it, and a
\* run that finds the grant stored ends 0 without a probe (:289).
GrantOnlyAdds ==
    [][Granting /\ ~ grant'.edited =>
        /\ IsPrefix(grant.seen, policies')
        /\ grant'.phase = "exit0" =>
            \A g \in grant'.offered : \E i \in DOMAIN policies' :
                /\ policies'[i].effect = "allow"
                /\ policies'[i].resource = OwnResource(g)
                /\ g \in policies'[i].groups]_policyVars
=============================================================================
