--------------------------- MODULE PolicyBindings ---------------------------
(***************************************************************************)
(* core/policy_catalog.py with the tickets of uas/ticket_master.py: how a  *)
(* binding of a policy is requested, forwarded for review, decided,        *)
(* withdrawn and removed, inside one organization (requests that cross an  *)
(* organization are refused before they change anything).                  *)
(*                                                                         *)
(* A handler runs from its request to its answer without an await, but it  *)
(* writes two stores one after the other: a failing second write, or a     *)
(* crash, leaves the first.  Such a request is an action of its own.       *)
(***************************************************************************)
EXTENDS BindingRules, Naturals, Sequences, FiniteSets

CONSTANTS
  Actors,            \* actors, as in BindingRules, one per user id
  Policies,          \* policies, as in BindingRules; shared ones are visible to all
  Bindings,          \* binding ids
  Nobody,            \* an empty field of a binding or a ticket
  Targets,           \* the kinds of targets that are bound
  MaxTickets,        \* bound on tickets
  MaxInterruptions   \* bound on handlers that stop between their writes

Ids == {actor.id : actor \in Actors}

ASSUME BindingAssumption ==
  /\ Actors \subseteq [id : Ids, profile : RoleProfiles,
                       allowed : SUBSET Capabilities, denied : SUBSET Capabilities]
  /\ \A p \in Policies : p.mandated \in BOOLEAN /\ p.type \in PolicyTypes
  /\ Nobody \notin Ids
  /\ Targets \subseteq TargetKinds
  /\ MaxTickets \in Nat /\ MaxInterruptions \in Nat

VARIABLES
  binding,   \* the row of each binding, or Nobody
  tickets,   \* the policy tickets, in the order they were opened
  lost       \* the tickets of interrupted handlers

vars == <<binding, tickets, lost>>

TicketIds == DOMAIN tickets
TicketNames == 0 .. MaxTickets

\* A ticket field of 0 is an empty one.
BindingRows ==
  [policy : Policies, by : Ids, state : {"active", "pending_forward", "rejected", "removed"},
   ticket : TicketNames,
   removal : {"none", "pending_forward", "approved", "rejected"}, removalTicket : TicketNames]

TicketRows ==
  [status : {"pending", "approved", "rejected"}, by : Ids,
   user : Ids \cup {Nobody}, asks : {"bind", "remove"}, binding : Bindings]

ASSUME NobodyAssumption == Nobody \notin BindingRows

TypeOK ==
  /\ binding \in [Bindings -> BindingRows \cup {Nobody}]
  /\ tickets \in Seq(TicketRows) /\ Len(tickets) <= MaxTickets
  /\ lost \subseteq TicketIds /\ Cardinality(lost) <= MaxInterruptions
  /\ \A b \in Bindings :
       binding[b] # Nobody =>
         {binding[b].ticket, binding[b].removalTicket} \subseteq TicketIds \cup {0}

Init ==
  /\ binding = [b \in Bindings |-> Nobody]
  /\ tickets = <<>>
  /\ lost = {}

-----------------------------------------------------------------------------
\* The console offers the projected policies, shared ones and one's own.
Visible(actor, policy) == policy.mandated \/ policy.shared \/ policy.owner = actor.id

\* A ticket is for one user or, with nobody named, for the administrators.
Open(ticket) ==
  /\ Len(tickets) < MaxTickets
  /\ tickets' = Append(tickets, ticket)

Ticket(actor, user, asks, b) ==
  [status |-> "pending", by |-> actor.id, user |-> user, asks |-> asks, binding |-> b]

Interrupted(t) ==
  /\ Cardinality(lost) < MaxInterruptions
  /\ lost' = lost \cup {t}

NewRow(policy, actor, state, ticket) ==
  [policy |-> policy, by |-> actor.id, state |-> state, ticket |-> ticket,
   removal |-> "none", removalTicket |-> 0]

Reviewer(scope, targetUser) == IF scope = "other_user" THEN targetUser ELSE Nobody

\* POST /api/policies/{id}/bindings.
Bind(actor, policy, b, kind, scope, owner, targetUser) ==
  /\ binding[b] = Nobody /\ Visible(actor, policy)
  /\ \/ /\ BindVerdict(actor, policy, kind, scope, owner) = "allow"
        /\ binding' = [binding EXCEPT ![b] = NewRow(policy, actor, "active", 0)]
        /\ UNCHANGED <<tickets, lost>>
     \/ /\ BindVerdict(actor, policy, kind, scope, owner) = "forward"
        /\ Open(Ticket(actor, Reviewer(scope, targetUser), "bind", b))
        /\ binding' = [binding EXCEPT ![b] =
                         NewRow(policy, actor, "pending_forward", Len(tickets'))]
        /\ UNCHANGED lost

\* The ticket is opened and its binding never stored.
BindInterrupted(actor, policy, b, kind, scope, owner, targetUser) ==
  /\ binding[b] = Nobody /\ Visible(actor, policy)
  /\ BindVerdict(actor, policy, kind, scope, owner) = "forward"
  /\ Open(Ticket(actor, Reviewer(scope, targetUser), "bind", b))
  /\ Interrupted(Len(tickets'))
  /\ UNCHANGED binding

-----------------------------------------------------------------------------
(* DELETE /api/policy-bindings/{id}.                                        *)

Removable(actor, b) ==
  /\ binding[b] # Nobody /\ binding[b].state \in {"active", "pending_forward"}
  /\ binding[b].removal # "pending_forward"
  /\ binding[b].state = "pending_forward" => actor.id = binding[b].by

Verdict(actor, b) == RemoveVerdict(actor, binding[b].policy, binding[b].by)

\* Mistake: the request of a withdrawn binding stays open.
NotWithdrawn(b) == tickets

\* The open request of a binding that is withdrawn is rejected with it.
Withdrawn(b) ==
  LET t == binding[b].ticket
  IN  IF binding[b].state = "pending_forward" /\ tickets[t].status = "pending"
      THEN [tickets EXCEPT ![t].status = "rejected"] ELSE tickets

Remove(actor, b) ==
  /\ Removable(actor, b) /\ Verdict(actor, b) = "allow"
  /\ tickets' = Withdrawn(b)
  /\ binding' = [binding EXCEPT ![b].state = "removed", ![b].removal = "approved"]
  /\ UNCHANGED lost

\* The request is withdrawn and its binding stays as it was.
RemoveInterrupted(actor, b) ==
  /\ Removable(actor, b) /\ Verdict(actor, b) = "allow"
  /\ tickets' = Withdrawn(b) /\ tickets' # tickets
  /\ Interrupted(binding[b].ticket)
  /\ UNCHANGED binding

AskForRemoval(actor, b) ==
  /\ Removable(actor, b) /\ Verdict(actor, b) = "forward"
  /\ Open(Ticket(actor, Nobody, "remove", b))
  /\ binding' = [binding EXCEPT ![b].removal = "pending_forward",
                                ![b].removalTicket = Len(tickets')]
  /\ UNCHANGED lost

AskInterrupted(actor, b) ==
  /\ Removable(actor, b) /\ Verdict(actor, b) = "forward"
  /\ Open(Ticket(actor, Nobody, "remove", b))
  /\ Interrupted(Len(tickets'))
  /\ UNCHANGED binding

-----------------------------------------------------------------------------
(* POST /api/tickets/{id}/approve and /reject.                              *)

\* Only its user, or an administrator, and only with the right to decide.
MayDecide(actor, ticket) ==
  /\ ticket.status = "pending"
  /\ Granted(actor, "approval.decide")
  /\ IF ticket.user = Nobody THEN IsAdministrator(actor) ELSE ticket.user = actor.id

Answered(t, answer) == [tickets EXCEPT ![t].status = answer]

\* Mistake: a decision carries even if the binding is no longer waiting for it.
FollowAlways(row, t, answer) ==
  IF row.removalTicket = t
  THEN [row EXCEPT !.removal = answer,
                   !.state = IF answer = "approved" THEN "removed" ELSE @]
  ELSE [row EXCEPT !.state = IF answer = "approved" THEN "active" ELSE "rejected"]

\* Mistake: every decision of a removal ends the binding.
FollowDecided(row, t, answer) ==
  IF row.removalTicket = t
  THEN IF row.state = "active" /\ row.removal = "pending_forward"
       THEN [row EXCEPT !.removal = answer, !.state = "removed"] ELSE row
  ELSE IF row.state = "pending_forward"
       THEN [row EXCEPT !.state = "active"] ELSE row

\* resolve_forward, on the binding that names the ticket.
Followed(row, t, answer) ==
  IF row.removalTicket = t
  THEN IF row.state = "active" /\ row.removal = "pending_forward"
       THEN [row EXCEPT !.removal = answer,
                        !.state = IF answer = "approved" THEN "removed" ELSE @]
       ELSE row
  ELSE IF row.state = "pending_forward"
       THEN [row EXCEPT !.state = IF answer = "approved" THEN "active" ELSE "rejected"]
       ELSE row

Names(b, t) == binding[b] # Nobody /\ t \in {binding[b].ticket, binding[b].removalTicket}

Decide(actor, t, answer) ==
  /\ MayDecide(actor, tickets[t])
  /\ tickets' = Answered(t, answer)
  /\ binding' = [b \in Bindings |->
                   IF Names(b, t) THEN Followed(binding[b], t, answer) ELSE binding[b]]
  /\ UNCHANGED lost

\* The ticket is decided and its binding does not follow.
DecideInterrupted(actor, t, answer) ==
  /\ MayDecide(actor, tickets[t])
  /\ tickets' = Answered(t, answer)
  /\ Interrupted(t)
  /\ UNCHANGED binding

-----------------------------------------------------------------------------
\* The owner of a target counts only where it is the actor's own or not.
Next ==
  \E actor \in Actors :
    \/ \E b \in Bindings :
         \/ \E policy \in Policies, kind \in Targets, scope \in ScopeLevels,
               owner \in {actor.id, Nobody}, targetUser \in Ids :
              \/ Bind(actor, policy, b, kind, scope, owner, targetUser)
              \/ BindInterrupted(actor, policy, b, kind, scope, owner, targetUser)
         \/ Remove(actor, b) \/ RemoveInterrupted(actor, b)
         \/ AskForRemoval(actor, b) \/ AskInterrupted(actor, b)
    \/ \E t \in TicketIds, answer \in {"approved", "rejected"} :
         Decide(actor, t, answer) \/ DecideInterrupted(actor, t, answer)

Spec == Init /\ [][Next]_vars

-----------------------------------------------------------------------------
\* Unless a handler was interrupted over it, a request for a binding and the
\* binding agree: while the request is open the binding waits, once it is
\* approved the binding was in force, once it is rejected it never is
\* (policy_catalog.py:565-606).
DecisionIsCarriedOut ==
  \A b \in Bindings :
    LET row == binding[b]
    IN  row # Nobody /\ row.ticket \in TicketIds \ lost =>
          LET status == tickets[row.ticket].status
          IN  /\ status = "pending" => row.state = "pending_forward"
              /\ status = "approved" => row.state \in {"active", "removed"}
              /\ status = "rejected" => row.state \in {"rejected", "removed"}

\* A request that was forwarded is in force only after its approval, whatever
\* is interrupted (policy_catalog.py:594-606).
ForceNeedsApproval ==
  \A b \in Bindings :
    binding[b] # Nobody /\ binding[b].state = "active" /\ binding[b].ticket # 0 =>
      tickets[binding[b].ticket].status = "approved"

\* At most one removal of a binding is under review (policy_catalog.py:487-488).
RemovalIsSingleFlight ==
  \A b \in Bindings :
    Cardinality({t \in TicketIds \ lost :
                   /\ tickets[t].binding = b /\ tickets[t].asks = "remove"
                   /\ tickets[t].status = "pending"}) <= 1

\* What was rejected or removed stays so, and so does a decided ticket
\* (policy_catalog.py:485-490, 579, 594).
EndedIsFinal ==
  [][/\ \A b \in Bindings :
          binding[b] # Nobody /\ binding[b].state \in {"rejected", "removed"} =>
            binding'[b].state = binding[b].state
     /\ \A t \in TicketIds :
          tickets[t].status # "pending" => tickets'[t] = tickets[t]]_vars
=============================================================================
