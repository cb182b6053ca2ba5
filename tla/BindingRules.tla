---------------------------- MODULE BindingRules ----------------------------
(***************************************************************************)
(* core/binding_rules.py: the one decision whether somebody may bind a     *)
(* policy, or take a binding away - "allow", "forward" for review, "deny". *)
(*                                                                         *)
(* An actor is [id, profile, allowed, denied]: the user id, the role       *)
(* profile and the capabilities the user's deviations allow and deny.  A   *)
(* policy is [owner, mandated, type].  Texts and lists of rules are left   *)
(* out, and every actor is active: others make no requests.                *)
(***************************************************************************)
RoleProfiles == {"administrator", "operator", "member", "viewer"}
PolicyTypes == {"rule", "preference", "decision", "plan_binding"}
TargetKinds == {"agent", "process", "template", "skill", "domain"}
ScopeLevels == {"user", "other_user", "department", "organization"}
Verdicts == {"allow", "forward", "deny"}

\* The shipped grants, as far as bindings ask for them.
Capabilities ==
  {"policy.bind.user", "policy.bind.user.foreign", "policy.bind.department",
   "policy.bind.organization", "policy.edit.foreign", "template.edit.foreign",
   "approval.decide"}

Grants ==
  [administrator |-> Capabilities,
   operator |-> {"policy.bind.user", "policy.bind.user.foreign", "policy.edit.foreign",
                 "template.edit.foreign", "approval.decide"},
   member |-> {"policy.bind.user"},
   viewer |-> {}]

\* explain_capability: a deviation is asked before the profile.
Refused(actor, capability) == capability \in actor.denied
Granted(actor, capability) ==
  \/ capability \in actor.allowed
  \/ ~Refused(actor, capability) /\ capability \in Grants[actor.profile]

IsAdministrator(actor) == actor.profile = "administrator"

-----------------------------------------------------------------------------
BindCapability ==
  [user |-> "policy.bind.user", other_user |-> "policy.bind.user.foreign",
   department |-> "policy.bind.department", organization |-> "policy.bind.organization"]

\* R1: what the profile and the deviations say of the reach.
ReachVerdict(actor, scope) ==
  IF Granted(actor, BindCapability[scope]) THEN "allow"
  ELSE IF Refused(actor, BindCapability[scope]) THEN "deny" ELSE "forward"

\* R2: an organization's own policies are its administrators' affair.
MandateNeedsReview(actor, policy) == policy.mandated /\ ~IsAdministrator(actor)

\* R3: a policy is no way around the rights on its target.
TargetNeedsReview(actor, kind, scope, targetOwner) ==
  \/ kind = "domain" /\ ~IsAdministrator(actor)
  \/ /\ kind = "template" /\ targetOwner # actor.id
     /\ ~Granted(actor, "template.edit.foreign")
  \/ /\ kind \in {"agent", "process", "skill"} /\ scope # "user"
     /\ ~IsAdministrator(actor)

\* R4: principles for everyone and plans are acts of governance.
TypeNeedsReview(actor, policy, kind, scope, targetOwner) ==
  \/ /\ policy.type = "decision" /\ scope = "organization"
     /\ ~IsAdministrator(actor)
  \/ /\ policy.type = "plan_binding" /\ kind = "template" /\ targetOwner # actor.id
     /\ ~IsAdministrator(actor) /\ ~Granted(actor, "template.edit.foreign")

\* R7: the strictest rule decides.
Strictest(verdicts) ==
  IF "deny" \in verdicts THEN "deny"
  ELSE IF "forward" \in verdicts THEN "forward" ELSE "allow"

\* R5 comes before all others.
BindVerdict(actor, policy, kind, scope, targetOwner) ==
  IF actor.profile = "viewer" THEN "deny"
  ELSE Strictest({ReachVerdict(actor, scope)} \cup
                 IF \/ MandateNeedsReview(actor, policy)
                    \/ TargetNeedsReview(actor, kind, scope, targetOwner)
                    \/ TypeNeedsReview(actor, policy, kind, scope, targetOwner)
                 THEN {"forward"} ELSE {})

\* R6: removal has rights of its own.
RemoveVerdict(actor, policy, boundBy) ==
  IF actor.profile = "viewer" THEN "deny"
  ELSE IF policy.owner = actor.id /\ boundBy = actor.id /\ ~policy.mandated THEN "allow"
  ELSE IF Granted(actor, "policy.edit.foreign")
          /\ (IsAdministrator(actor) \/ ~policy.mandated) THEN "allow"
  ELSE IF Granted(actor, "policy.edit.foreign")
          \/ Refused(actor, "policy.edit.foreign") THEN "deny"
  ELSE "forward"

-----------------------------------------------------------------------------
\* What the matrix of 320 cells in tests/test_policy_users.py:190-216 expects
\* of users without deviations for policies of their own and targets that are
\* somebody else's.
MatrixCell(profile, type, kind, scope) ==
  IF profile = "viewer" THEN "deny"
  ELSE IF profile = "administrator" THEN "allow"
  ELSE IF \/ scope \in {"department", "organization"}
          \/ scope = "other_user" /\ profile = "member"
          \/ kind = "domain"
          \/ kind \in {"agent", "process", "skill"} /\ scope # "user"
          \/ kind = "template" /\ profile = "member"
          \/ type = "decision" /\ scope = "organization"
       THEN "forward" ELSE "allow"
=============================================================================
