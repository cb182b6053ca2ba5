-------------------------- MODULE MCPolicyBindings --------------------------
EXTENDS PolicyBindings, TLC

CONSTANTS administrator, operator, member, organization, b1, b2

Actor(id, profile) == [id |-> id, profile |-> profile, allowed |-> {}, denied |-> {}]

\* One actor for each role that may ask for anything.
MCActors ==
  {Actor(administrator, "administrator"), Actor(operator, "operator"),
   Actor(member, "member")}

\* A projected rule of the organization and a policy of a user.
MCPolicies ==
  {[owner |-> organization, mandated |-> TRUE, type |-> "rule", shared |-> TRUE],
   [owner |-> member, mandated |-> FALSE, type |-> "preference", shared |-> TRUE]}

\* Binding ids are drawn at random and carry no order.
BindingSymmetry == Permutations(Bindings)
=============================================================================
