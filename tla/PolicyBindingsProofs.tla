------------------------ MODULE PolicyBindingsProofs ------------------------
(***************************************************************************)
(* The verdicts of the binding rules for every actor, policy and target,   *)
(* what PolicyBindings promises for any number of bindings, tickets and    *)
(* interrupted handlers, and what UserAdmin promises for any users,        *)
(* organizations and profiles.                                             *)
(***************************************************************************)
EXTENDS PolicyBindings, UserAdmin, FiniteSetTheorems, TLAPS

\* An actor with a shipped role and no deviations, as in the documented matrix.
Plain(id, role) == [id |-> id, profile |-> role, allowed |-> {}, denied |-> {}]

LEMMA PlainGrants ==
  ASSUME NEW id, NEW capability \in Capabilities
  PROVE  /\ Granted(Plain(id, "administrator"), capability)
         /\ Granted(Plain(id, "operator"), capability) <=>
              capability \notin {"policy.bind.department", "policy.bind.organization"}
         /\ Granted(Plain(id, "member"), capability) <=> capability = "policy.bind.user"
         /\ \A role : ~Refused(Plain(id, role), capability)
  BY DEF Granted, Refused, Plain, Grants, Capabilities

\* For every shipped role, kind of policy, kind of target and reach, the rules
\* give the verdict the documented matrix lists, whoever the actor and the
\* target's owner are (tests/test_policy_users.py:167-216).
THEOREM VerdictsFollowTheMatrix ==
  ASSUME NEW id, NEW other, other # id, NEW role \in RoleProfiles,
         NEW type \in PolicyTypes, NEW kind \in TargetKinds, NEW scope \in ScopeLevels
  PROVE  BindVerdict(Plain(id, role), [owner |-> id, mandated |-> FALSE, type |-> type],
                     kind, scope, other)
           = MatrixCell(role, type, kind, scope)
<1> DEFINE actor == Plain(id, role)
           policy == [owner |-> id, mandated |-> FALSE, type |-> type]
<1>1. /\ BindCapability[scope] \in Capabilities /\ "template.edit.foreign" \in Capabilities
      /\ actor.id = id /\ actor.profile = role
      /\ policy.type = type /\ ~policy.mandated
  BY DEF ScopeLevels, BindCapability, Capabilities, Plain
<1>2. CASE role = "administrator"
  <2>1. ReachVerdict(actor, scope) = "allow"
    BY <1>1, <1>2, PlainGrants DEF ReachVerdict
  <2>2. Granted(actor, "template.edit.foreign")
    BY <1>1, <1>2, PlainGrants
  <2> QED
    BY <1>1, <1>2, <2>1, <2>2
    DEF BindVerdict, MatrixCell, Strictest, MandateNeedsReview, TargetNeedsReview,
        TypeNeedsReview, IsAdministrator
<1>3. CASE role = "operator"
  <2>1. ReachVerdict(actor, scope) =
          IF scope \in {"department", "organization"} THEN "forward" ELSE "allow"
    BY <1>1, <1>3, PlainGrants DEF ReachVerdict, BindCapability, ScopeLevels
  <2>2. Granted(actor, "template.edit.foreign")
    BY <1>1, <1>3, PlainGrants
  <2> QED
    BY <1>1, <1>3, <2>1, <2>2
    DEF BindVerdict, MatrixCell, Strictest, MandateNeedsReview, TargetNeedsReview,
        TypeNeedsReview, IsAdministrator
<1>4. CASE role = "member"
  <2>1. ReachVerdict(actor, scope) = IF scope = "user" THEN "allow" ELSE "forward"
    BY <1>1, <1>4, PlainGrants DEF ReachVerdict, BindCapability, ScopeLevels
  <2>2. ~Granted(actor, "template.edit.foreign")
    BY <1>1, <1>4, PlainGrants
  <2> QED
    BY <1>1, <1>4, <2>1, <2>2
    DEF BindVerdict, MatrixCell, Strictest, MandateNeedsReview, TargetNeedsReview,
        TypeNeedsReview, IsAdministrator, ScopeLevels, TargetKinds
<1>5. CASE role = "viewer"
  BY <1>1, <1>5 DEF BindVerdict, MatrixCell
<1> QED
  BY <1>2, <1>3, <1>4, <1>5 DEF RoleProfiles

\* Nothing is bound without review by an actor who lacks the right to its
\* reach or to its target, whatever deviations the actor has: no rule loosens
\* what another one requires (binding_rules.py:199-201).
THEOREM NoRuleLoosensAnother ==
  ASSUME NEW actor, NEW policy, NEW kind, NEW scope, NEW owner,
         BindVerdict(actor, policy, kind, scope, owner) = "allow"
  PROVE  /\ actor.profile # "viewer"
         /\ Granted(actor, BindCapability[scope])
         /\ policy.mandated \/ kind = "domain" => IsAdministrator(actor)
         /\ kind = "template" /\ owner # actor.id => Granted(actor, "template.edit.foreign")
  BY DEF BindVerdict, Strictest, ReachVerdict, MandateNeedsReview, TargetNeedsReview

-----------------------------------------------------------------------------
(* The inductive invariant.  A binding names only tickets that were opened  *)
(* for it and for the question it asks; a removal under review is the one   *)
(* its binding names.                                                       *)

Linked ==
  \A b \in Bindings : binding[b] # Nobody =>
    LET row == binding[b]
    IN  /\ row.ticket # 0 => tickets[row.ticket].asks = "bind" /\ tickets[row.ticket].binding = b
        /\ row.removalTicket # 0 =>
             /\ tickets[row.removalTicket].asks = "remove"
             /\ tickets[row.removalTicket].binding = b
        /\ row.state = "pending_forward" => row.ticket # 0

RemovalInFlight ==
  \A t \in TicketIds \ lost :
    tickets[t].asks = "remove" /\ tickets[t].status = "pending" =>
      /\ binding[tickets[t].binding] # Nobody
      /\ binding[tickets[t].binding].removalTicket = t
      /\ binding[tickets[t].binding].removal = "pending_forward"

IInv ==
  /\ TypeOK /\ Linked /\ RemovalInFlight
  /\ DecisionIsCarriedOut /\ ForceNeedsApproval

\* Opening a ticket adds one and leaves the others alone.
LEMMA Opening ==
  ASSUME TypeOK, NEW ticket \in TicketRows, Open(ticket)
  PROVE  /\ tickets' \in Seq(TicketRows) /\ Len(tickets') <= MaxTickets
         /\ Len(tickets') = Len(tickets) + 1 /\ Len(tickets') \in TicketNames \ {0}
         /\ TicketIds' = TicketIds \cup {Len(tickets')} /\ Len(tickets') \notin TicketIds
         /\ 0 \notin TicketIds'
         /\ \A t \in TicketIds : tickets'[t] = tickets[t]
         /\ tickets'[Len(tickets')] = ticket
  BY BindingAssumption DEF TypeOK, Open, TicketIds, TicketNames

\* Answering one keeps them all, but for its status.
LEMMA Answering ==
  ASSUME TypeOK, NEW t \in TicketIds, NEW answer \in {"approved", "rejected"},
         tickets' = Answered(t, answer)
  PROVE  /\ tickets' \in Seq(TicketRows) /\ Len(tickets') <= MaxTickets
         /\ TicketIds' = TicketIds /\ 0 \notin TicketIds
         /\ \A s \in TicketIds \ {t} : tickets'[s] = tickets[s]
         /\ tickets'[t] \in TicketRows /\ tickets'[t].status = answer
         /\ tickets'[t].asks = tickets[t].asks /\ tickets'[t].binding = tickets[t].binding
<1>1. /\ tickets \in Seq(TicketRows) /\ Len(tickets) \in Nat /\ Len(tickets) <= MaxTickets
      /\ t \in 1 .. Len(tickets) /\ TicketIds = 1 .. Len(tickets)
  BY DEF TypeOK, TicketIds
<1>2. tickets[t] \in TicketRows
  BY <1>1
<1> DEFINE row == [tickets[t] EXCEPT !.status = answer]
<1>3. /\ row \in TicketRows /\ row.status = answer
      /\ row.asks = tickets[t].asks /\ row.binding = tickets[t].binding
  BY <1>2 DEF TicketRows
<1>4. tickets' = [tickets EXCEPT ![t] = row]
  BY DEF Answered
<1> HIDE DEF row
<1> QED BY <1>1, <1>3, <1>4 DEF TicketIds

LEMMA Interrupting ==
  ASSUME TypeOK, NEW t, Interrupted(t), t \in TicketIds', TicketIds \subseteq TicketIds'
  PROVE  lost' \subseteq TicketIds' /\ Cardinality(lost') <= MaxInterruptions
<1>1. IsFiniteSet(lost)
  <2>1. TicketIds = 1 .. Len(tickets) /\ Len(tickets) \in Nat
    BY DEF TypeOK, TicketIds
  <2>2. IsFiniteSet(TicketIds)
    BY <2>1, FS_Interval
  <2> QED BY <2>2, FS_Subset DEF TypeOK
<1>2. Cardinality(lost) \in Nat
  BY <1>1, FS_CardinalityType
<1>3. Cardinality(lost') <= Cardinality(lost) + 1
  <2>1. lost' = lost \cup {t}
    BY DEF Interrupted
  <2>2. Cardinality(lost \cup {t}) =
          IF t \in lost THEN Cardinality(lost) ELSE Cardinality(lost) + 1
    BY <1>1, FS_AddElement
  <2> QED BY <1>2, <2>1, <2>2
<1>4. Cardinality(lost') \in Nat
  BY <1>1, FS_AddElement, FS_CardinalityType DEF Interrupted
<1> QED BY <1>2, <1>3, <1>4, BindingAssumption DEF Interrupted, TypeOK

\* A ticket and a new row are well typed.
LEMMA TicketType ==
  ASSUME NEW actor \in Actors, NEW person \in Ids \cup {Nobody},
         NEW asks \in {"bind", "remove"}, NEW b \in Bindings
  PROVE  /\ Ticket(actor, person, asks, b) \in TicketRows
         /\ Ticket(actor, person, asks, b).status = "pending"
         /\ Ticket(actor, person, asks, b).asks = asks
         /\ Ticket(actor, person, asks, b).binding = b
<1>1. actor.id \in Ids
  BY DEF Ids
<1> QED BY <1>1 DEF Ticket, TicketRows

LEMMA NewRowType ==
  ASSUME NEW actor \in Actors, NEW policy \in Policies,
         NEW state \in {"active", "pending_forward"}, NEW ticket \in TicketNames
  PROVE  /\ NewRow(policy, actor, state, ticket) \in BindingRows
         /\ NewRow(policy, actor, state, ticket).state = state
         /\ NewRow(policy, actor, state, ticket).ticket = ticket
         /\ NewRow(policy, actor, state, ticket).removal = "none"
         /\ NewRow(policy, actor, state, ticket).removalTicket = 0
<1>1. actor.id \in Ids /\ 0 \in TicketNames
  BY BindingAssumption DEF Ids, TicketNames
<1> QED BY <1>1 DEF NewRow, BindingRows

\* Opening a ticket that no row names keeps the invariant if the ticket is
\* lost or asks for a binding.
LEMMA LostTicket ==
  ASSUME IInv, NEW ticket \in TicketRows, Open(ticket), Interrupted(Len(tickets')),
         UNCHANGED binding
  PROVE  IInv'
<1>1. TypeOK'
  BY Opening, Interrupting DEF IInv, TypeOK
<1>2. Linked'
  BY Opening DEF IInv, TypeOK, Linked, BindingRows
<1>3. RemovalInFlight'
  BY Opening DEF IInv, TypeOK, RemovalInFlight, Interrupted
<1>4. DecisionIsCarriedOut'
  BY Opening DEF IInv, TypeOK, DecisionIsCarriedOut, Interrupted, BindingRows
<1>5. ForceNeedsApproval'
  BY Opening DEF IInv, TypeOK, ForceNeedsApproval, BindingRows
<1> QED BY <1>1, <1>2, <1>3, <1>4, <1>5 DEF IInv

\* Withdrawing a request answers at most that one ticket.
LEMMA Withdrawing ==
  ASSUME IInv, NEW b \in Bindings, binding[b] # Nobody, tickets' = Withdrawn(b)
  PROVE  /\ tickets' \in Seq(TicketRows) /\ Len(tickets') <= MaxTickets
         /\ TicketIds' = TicketIds /\ 0 \notin TicketIds
         /\ \A s \in TicketIds \ {binding[b].ticket} : tickets'[s] = tickets[s]
         /\ \A s \in TicketIds :
              /\ tickets'[s].asks = tickets[s].asks
              /\ tickets'[s].binding = tickets[s].binding
              /\ tickets'[s].status \in {tickets[s].status, "rejected"}
              /\ tickets[s].status # "pending" => tickets'[s] = tickets[s]
         /\ binding[b].state = "pending_forward" =>
              /\ binding[b].ticket \in TicketIds
              /\ tickets'[binding[b].ticket].status # "pending"
         /\ binding[b].state # "pending_forward" => tickets' = tickets
<1> DEFINE t == binding[b].ticket
<1>0. 0 \notin TicketIds
  BY DEF IInv, TypeOK, TicketIds
<1>1. CASE binding[b].state = "pending_forward" /\ tickets[t].status = "pending"
  <2>1. t \in TicketIds
    BY <1>1 DEF IInv, TypeOK, Linked
  <2>2. tickets' = Answered(t, "rejected")
    BY <1>1 DEF Withdrawn, Answered
  <2> QED BY <1>1, <2>1, <2>2, Answering DEF IInv
<1>2. CASE ~(binding[b].state = "pending_forward" /\ tickets[t].status = "pending")
  <2>1. tickets' = tickets
    BY <1>2 DEF Withdrawn
  <2>2. binding[b].state = "pending_forward" => t \in TicketIds
    BY DEF IInv, TypeOK, Linked
  <2> QED BY <1>0, <1>2, <2>1, <2>2 DEF IInv, TypeOK, TicketIds
<1> QED BY <1>1, <1>2

\* resolve_forward: what it makes of a row that names the ticket.
LEMMA Following ==
  ASSUME NEW row \in BindingRows, NEW t, NEW answer \in {"approved", "rejected"},
         NEW after, after = Followed(row, t, answer)
  PROVE  /\ after \in BindingRows
         /\ after.ticket = row.ticket /\ after.removalTicket = row.removalTicket
         /\ row.state \in {"rejected", "removed"} => after.state = row.state
         /\ row.removalTicket # t =>
              /\ after.removal = row.removal
              /\ row.state = "active" => after.state = "active"
              /\ row.state = "pending_forward" =>
                   \/ answer = "approved" /\ after.state = "active"
                   \/ answer = "rejected" /\ after.state = "rejected"
         /\ row.removalTicket = t =>
              \/ after.state = row.state
              \/ row.state = "active" /\ after.state = "removed"
<1>1. CASE row.removalTicket = t /\ row.state = "active" /\ row.removal = "pending_forward"
  <2> DEFINE state == IF answer = "approved" THEN "removed" ELSE row.state
  <2>1. after = [row EXCEPT !.removal = answer, !.state = state]
    BY <1>1 DEF Followed
  <2>2. state \in {"active", "removed"}
    BY <1>1
  <2> HIDE DEF state
  <2>3. /\ after \in BindingRows /\ after.state = state
        /\ after.ticket = row.ticket /\ after.removalTicket = row.removalTicket
    BY <2>1, <2>2 DEF BindingRows
  <2> QED BY <1>1, <2>2, <2>3
<1>2. CASE row.removalTicket # t /\ row.state = "pending_forward"
  <2> DEFINE state == IF answer = "approved" THEN "active" ELSE "rejected"
  <2>1. after = [row EXCEPT !.state = state]
    BY <1>2 DEF Followed
  <2>2. /\ after \in BindingRows /\ after.state = state /\ after.removal = row.removal
        /\ after.ticket = row.ticket /\ after.removalTicket = row.removalTicket
    BY <2>1 DEF BindingRows
  <2> QED BY <1>2, <2>2
<1>3. CASE after = row /\ (row.removalTicket # t => row.state # "pending_forward")
  BY <1>3
<1> QED BY <1>1, <1>2, <1>3 DEF Followed

LEMMA BindStep ==
  ASSUME IInv, NEW actor \in Actors, NEW policy \in Policies, NEW b \in Bindings,
         NEW kind, NEW scope, NEW owner, NEW targetUser \in Ids,
         Bind(actor, policy, b, kind, scope, owner, targetUser)
  PROVE  IInv'
<1>1. CASE /\ binding' = [binding EXCEPT ![b] = NewRow(policy, actor, "active", 0)]
           /\ UNCHANGED <<tickets, lost>>
  <2>1. 0 \in TicketNames
    BY BindingAssumption DEF TicketNames
  <2>2. /\ binding'[b] = NewRow(policy, actor, "active", 0)
        /\ binding'[b] \in BindingRows /\ binding'[b].state = "active"
        /\ binding'[b].ticket = 0 /\ binding'[b].removalTicket = 0
        /\ \A c \in Bindings \ {b} : binding'[c] = binding[c]
        /\ binding[b] = Nobody /\ 0 \notin TicketIds
    BY <1>1, <2>1, NewRowType DEF IInv, TypeOK, Bind, TicketIds
  <2>3. TypeOK'
    BY <1>1, <2>2 DEF IInv, TypeOK, TicketIds
  <2>4. Linked'
    BY <1>1, <2>2 DEF IInv, Linked
  <2>5. RemovalInFlight'
    BY <1>1, <2>2 DEF IInv, TypeOK, RemovalInFlight, TicketIds, TicketRows
  <2>6. DecisionIsCarriedOut'
    BY <1>1, <2>2 DEF IInv, DecisionIsCarriedOut, TicketIds
  <2>7. ForceNeedsApproval'
    BY <1>1, <2>2 DEF IInv, ForceNeedsApproval
  <2> QED BY <2>3, <2>4, <2>5, <2>6, <2>7 DEF IInv
<1>2. CASE /\ Open(Ticket(actor, Reviewer(scope, targetUser), "bind", b))
           /\ binding' = [binding EXCEPT ![b] =
                            NewRow(policy, actor, "pending_forward", Len(tickets'))]
           /\ UNCHANGED lost
  <2> DEFINE ticket == Ticket(actor, Reviewer(scope, targetUser), "bind", b)
             t == Len(tickets')
  <2>1. /\ ticket \in TicketRows /\ ticket.status = "pending"
        /\ ticket.asks = "bind" /\ ticket.binding = b
    BY TicketType DEF Reviewer
  <2>2. Open(ticket)
    BY <1>2
  <2> HIDE DEF ticket
  <2>3. /\ tickets' \in Seq(TicketRows) /\ Len(tickets') <= MaxTickets
        /\ t \in TicketNames \ {0} /\ t \in TicketIds' /\ t \notin TicketIds
        /\ TicketIds' = TicketIds \cup {t} /\ 0 \notin TicketIds'
        /\ \A s \in TicketIds : tickets'[s] = tickets[s]
        /\ tickets'[t].status = "pending" /\ tickets'[t].asks = "bind"
        /\ tickets'[t].binding = b
    BY <2>1, <2>2, Opening DEF IInv
  <2>4. /\ binding'[b] \in BindingRows /\ binding'[b].state = "pending_forward"
        /\ binding'[b].ticket = t /\ binding'[b].removalTicket = 0
        /\ \A c \in Bindings \ {b} : binding'[c] = binding[c]
        /\ binding[b] = Nobody
    BY <1>2, <2>3, NewRowType DEF IInv, TypeOK, Bind
  <2> HIDE DEF t
  <2>5. TypeOK'
    BY <1>2, <2>3, <2>4 DEF IInv, TypeOK
  <2>6. Linked'
    BY <2>3, <2>4 DEF IInv, TypeOK, Linked
  <2>7. RemovalInFlight'
    BY <1>2, <2>3, <2>4 DEF IInv, TypeOK, RemovalInFlight
  <2>8. DecisionIsCarriedOut'
    BY <1>2, <2>3, <2>4 DEF IInv, TypeOK, DecisionIsCarriedOut
  <2>9. ForceNeedsApproval'
    BY <2>3, <2>4 DEF IInv, TypeOK, ForceNeedsApproval
  <2> QED BY <2>5, <2>6, <2>7, <2>8, <2>9 DEF IInv
<1> QED BY <1>1, <1>2 DEF Bind

LEMMA RemoveStep ==
  ASSUME IInv, NEW actor \in Actors, NEW b \in Bindings, Remove(actor, b)
  PROVE  IInv'
<1>1. /\ binding[b] # Nobody /\ binding[b] \in BindingRows
      /\ binding[b].state \in {"active", "pending_forward"}
      /\ binding[b].removal # "pending_forward"
      /\ tickets' = Withdrawn(b) /\ UNCHANGED lost
  BY DEF Remove, Removable, IInv, TypeOK
<1>2. /\ binding'[b] \in BindingRows /\ binding'[b].state = "removed"
      /\ binding'[b].ticket = binding[b].ticket
      /\ binding'[b].removalTicket = binding[b].removalTicket
      /\ \A c \in Bindings \ {b} : binding'[c] = binding[c]
  <2>1. binding'[b] = [binding[b] EXCEPT !.state = "removed", !.removal = "approved"]
    BY DEF Remove, IInv, TypeOK
  <2>2. \A c \in Bindings \ {b} : binding'[c] = binding[c]
    BY DEF Remove, IInv, TypeOK
  <2> QED BY <1>1, <2>1, <2>2 DEF BindingRows
<1>3. \A c \in Bindings \ {b} :
        binding[c] # Nobody /\ binding[c].ticket # 0 =>
          binding[c].ticket \in TicketIds \ {binding[b].ticket}
  BY <1>1 DEF IInv, TypeOK, Linked
<1>4. TypeOK'
  BY <1>1, <1>2, Withdrawing DEF IInv, TypeOK, Remove
<1>5. Linked'
  <2> SUFFICES ASSUME NEW c \in Bindings, binding'[c] # Nobody
               PROVE  LET row == binding'[c]
                      IN  /\ row.ticket # 0 =>
                               /\ tickets'[row.ticket].asks = "bind"
                               /\ tickets'[row.ticket].binding = c
                          /\ row.removalTicket # 0 =>
                               /\ tickets'[row.removalTicket].asks = "remove"
                               /\ tickets'[row.removalTicket].binding = c
                          /\ row.state = "pending_forward" => row.ticket # 0
    BY DEF Linked
  <2>1. /\ binding[c] # Nobody /\ binding'[c].ticket = binding[c].ticket
        /\ binding'[c].removalTicket = binding[c].removalTicket
        /\ binding'[c].state = "pending_forward" => binding[c].state = "pending_forward"
    BY <1>1, <1>2
  <2>2. {binding[c].ticket, binding[c].removalTicket} \subseteq TicketIds \cup {0}
    BY <2>1 DEF IInv, TypeOK
  <2>3. ASSUME NEW s \in TicketIds
        PROVE  tickets'[s].asks = tickets[s].asks /\ tickets'[s].binding = tickets[s].binding
    BY <1>1, Withdrawing
  <2> QED BY <2>1, <2>2, <2>3 DEF IInv, Linked
<1>6. RemovalInFlight'
  <2> SUFFICES ASSUME NEW t \in TicketIds \ lost,
                      tickets'[t].asks = "remove", tickets'[t].status = "pending"
               PROVE  /\ binding'[tickets'[t].binding] # Nobody
                      /\ binding'[tickets'[t].binding].removalTicket = t
                      /\ binding'[tickets'[t].binding].removal = "pending_forward"
    BY <1>1, Withdrawing DEF RemovalInFlight
  <2>1. /\ tickets'[t].asks = tickets[t].asks /\ tickets'[t].binding = tickets[t].binding
        /\ tickets[t].status = "pending"
    BY <1>1, Withdrawing
  <2>2. tickets[t].binding \in Bindings
    <3>1. tickets[t] \in TicketRows
      BY DEF IInv, TypeOK, TicketIds
    <3> QED BY <3>1 DEF TicketRows
  <2>3. tickets[t].binding # b
    BY <1>1, <2>1 DEF IInv, RemovalInFlight
  <2> QED BY <1>2, <2>1, <2>2, <2>3 DEF IInv, RemovalInFlight
<1>7. DecisionIsCarriedOut'
  <2> SUFFICES ASSUME NEW c \in Bindings, binding'[c] # Nobody,
                      binding'[c].ticket \in TicketIds \ lost
               PROVE  LET status == tickets'[binding'[c].ticket].status
                      IN  /\ status = "pending" => binding'[c].state = "pending_forward"
                          /\ status = "approved" => binding'[c].state \in {"active", "removed"}
                          /\ status = "rejected" => binding'[c].state \in {"rejected", "removed"}
    BY <1>1, Withdrawing DEF DecisionIsCarriedOut
  <2>1. CASE c = b
    <3>1. binding[b].ticket \in TicketIds \ lost
      BY <1>2, <2>1
    <3>2. CASE binding[b].state = "pending_forward"
      BY <1>1, <1>2, <2>1, <3>2, Withdrawing
    <3>3. CASE binding[b].state = "active"
      <4>1. tickets'[binding[b].ticket].status # "pending"
        BY <1>1, <3>1, <3>3, Withdrawing DEF IInv, DecisionIsCarriedOut
      <4> QED BY <1>2, <2>1, <4>1
    <3> QED BY <1>1, <3>2, <3>3
  <2>2. CASE c # b
    <3>1. binding'[c] = binding[c] /\ binding[c].ticket # 0
      BY <1>2, <2>2, Withdrawing, <1>1
    <3>2. tickets'[binding[c].ticket] = tickets[binding[c].ticket]
      BY <1>1, <1>3, <2>2, <3>1, Withdrawing
    <3> QED BY <3>1, <3>2 DEF IInv, DecisionIsCarriedOut
  <2> QED BY <2>1, <2>2
<1>8. ForceNeedsApproval'
  BY <1>1, <1>2, <1>3, Withdrawing DEF IInv, TypeOK, ForceNeedsApproval
<1> QED BY <1>4, <1>5, <1>6, <1>7, <1>8 DEF IInv

\* Answering a ticket and losing the rest keeps the invariant where no row
\* is in force by it.
LEMMA LostAnswer ==
  ASSUME IInv, NEW t \in TicketIds, NEW answer \in {"approved", "rejected"},
         tickets[t].status = "pending", tickets' = Answered(t, answer),
         Interrupted(t), UNCHANGED binding
  PROVE  IInv'
<1>1. /\ tickets' \in Seq(TicketRows) /\ Len(tickets') <= MaxTickets
      /\ TicketIds' = TicketIds /\ 0 \notin TicketIds
      /\ \A s \in TicketIds \ {t} : tickets'[s] = tickets[s]
      /\ tickets'[t].asks = tickets[t].asks /\ tickets'[t].binding = tickets[t].binding
  BY Answering DEF IInv
<1>2. lost' = lost \cup {t}
  BY DEF Interrupted
<1>3. TypeOK'
  BY <1>1, Interrupting DEF IInv, TypeOK
<1>4. Linked'
  BY <1>1 DEF IInv, TypeOK, Linked
<1>5. RemovalInFlight'
  BY <1>1, <1>2 DEF IInv, RemovalInFlight
<1>6. DecisionIsCarriedOut'
  BY <1>1, <1>2 DEF IInv, DecisionIsCarriedOut
<1>7. ForceNeedsApproval'
  BY <1>1 DEF IInv, TypeOK, ForceNeedsApproval
<1> QED BY <1>3, <1>4, <1>5, <1>6, <1>7 DEF IInv

LEMMA RemoveInterruptedStep ==
  ASSUME IInv, NEW actor \in Actors, NEW b \in Bindings, RemoveInterrupted(actor, b)
  PROVE  IInv'
<1> DEFINE t == binding[b].ticket
<1>1. /\ binding[b].state = "pending_forward" /\ tickets[t].status = "pending"
      /\ tickets' = Answered(t, "rejected") /\ Interrupted(t) /\ UNCHANGED binding
      /\ binding[b] # Nobody
  BY DEF RemoveInterrupted, Withdrawn, Answered, Removable
<1>2. t \in TicketIds
  BY <1>1 DEF IInv, TypeOK, Linked
<1> QED BY <1>1, <1>2, LostAnswer

LEMMA AskStep ==
  ASSUME IInv, NEW actor \in Actors, NEW b \in Bindings, AskForRemoval(actor, b)
  PROVE  IInv'
<1> DEFINE ticket == Ticket(actor, Nobody, "remove", b)
           t == Len(tickets')
<1>1. /\ ticket \in TicketRows /\ ticket.status = "pending"
      /\ ticket.asks = "remove" /\ ticket.binding = b
  BY TicketType
<1>2. Open(ticket) /\ UNCHANGED lost
  BY DEF AskForRemoval
<1> HIDE DEF ticket
<1>3. /\ tickets' \in Seq(TicketRows) /\ Len(tickets') <= MaxTickets
      /\ t \in TicketNames \ {0} /\ t \in TicketIds' /\ t \notin TicketIds
      /\ TicketIds' = TicketIds \cup {t} /\ 0 \notin TicketIds'
      /\ \A s \in TicketIds : tickets'[s] = tickets[s]
      /\ tickets'[t].status = "pending" /\ tickets'[t].asks = "remove"
      /\ tickets'[t].binding = b
  BY <1>1, <1>2, Opening DEF IInv
<1>4. /\ binding[b] # Nobody /\ binding[b] \in BindingRows
      /\ binding[b].removal # "pending_forward"
  BY DEF AskForRemoval, Removable, IInv, TypeOK
<1>5. /\ binding'[b] \in BindingRows
      /\ binding'[b].state = binding[b].state /\ binding'[b].ticket = binding[b].ticket
      /\ binding'[b].removal = "pending_forward" /\ binding'[b].removalTicket = t
      /\ \A c \in Bindings \ {b} : binding'[c] = binding[c]
      /\ binding' \in [Bindings -> BindingRows \cup {Nobody}]
  <2>1. binding'[b] = [binding[b] EXCEPT !.removal = "pending_forward", !.removalTicket = t]
    BY DEF AskForRemoval, IInv, TypeOK
  <2>2. \A c \in Bindings \ {b} : binding'[c] = binding[c]
    BY DEF AskForRemoval, IInv, TypeOK
  <2>3. /\ binding'[b] \in BindingRows
        /\ binding'[b].state = binding[b].state /\ binding'[b].ticket = binding[b].ticket
        /\ binding'[b].removal = "pending_forward" /\ binding'[b].removalTicket = t
    BY <1>3, <1>4, <2>1 DEF BindingRows
  <2> QED BY <2>2, <2>3 DEF AskForRemoval, IInv, TypeOK
<1> HIDE DEF t
<1>6. TypeOK'
  BY <1>2, <1>3, <1>5, <1>4 DEF IInv, TypeOK
<1>7. Linked'
  <2> SUFFICES ASSUME NEW c \in Bindings, binding'[c] # Nobody
               PROVE  LET row == binding'[c]
                      IN  /\ row.ticket # 0 =>
                               /\ tickets'[row.ticket].asks = "bind"
                               /\ tickets'[row.ticket].binding = c
                          /\ row.removalTicket # 0 =>
                               /\ tickets'[row.removalTicket].asks = "remove"
                               /\ tickets'[row.removalTicket].binding = c
                          /\ row.state = "pending_forward" => row.ticket # 0
    BY DEF Linked
  <2>1. CASE c = b
    BY <1>3, <1>4, <1>5, <2>1 DEF IInv, TypeOK, Linked
  <2>2. CASE c # b
    BY <1>3, <1>5, <2>2 DEF IInv, TypeOK, Linked
  <2> QED BY <2>1, <2>2
<1>8. RemovalInFlight'
  <2> SUFFICES ASSUME NEW s \in TicketIds' \ lost,
                      tickets'[s].asks = "remove", tickets'[s].status = "pending"
               PROVE  /\ binding'[tickets'[s].binding] # Nobody
                      /\ binding'[tickets'[s].binding].removalTicket = s
                      /\ binding'[tickets'[s].binding].removal = "pending_forward"
    BY <1>2 DEF RemovalInFlight
  <2>1. CASE s = t
    BY <1>3, <1>5, <2>1, NobodyAssumption
  <2>2. CASE s # t
    <3>1. s \in TicketIds \ lost /\ tickets'[s] = tickets[s]
      BY <1>3, <2>2
    <3>2. tickets[s].binding \in Bindings
      <4>1. tickets[s] \in TicketRows
        BY <3>1 DEF IInv, TypeOK, TicketIds
      <4> QED BY <4>1 DEF TicketRows
    <3>3. tickets[s].binding # b
      BY <1>4, <3>1 DEF IInv, RemovalInFlight
    <3> QED BY <1>5, <3>1, <3>2, <3>3 DEF IInv, RemovalInFlight
  <2> QED BY <2>1, <2>2
<1>9. DecisionIsCarriedOut'
  BY <1>2, <1>3, <1>4, <1>5 DEF IInv, TypeOK, DecisionIsCarriedOut
<1>10. ForceNeedsApproval'
  BY <1>3, <1>4, <1>5 DEF IInv, TypeOK, ForceNeedsApproval
<1> QED BY <1>6, <1>7, <1>8, <1>9, <1>10 DEF IInv

LEMMA DecideStep ==
  ASSUME IInv, NEW actor \in Actors, NEW t \in TicketIds,
         NEW answer \in {"approved", "rejected"}, Decide(actor, t, answer)
  PROVE  IInv'
<1>1. /\ tickets[t].status = "pending" /\ UNCHANGED lost
      /\ tickets' \in Seq(TicketRows) /\ Len(tickets') <= MaxTickets
      /\ TicketIds' = TicketIds /\ 0 \notin TicketIds
      /\ \A s \in TicketIds \ {t} : tickets'[s] = tickets[s]
      /\ tickets'[t].asks = tickets[t].asks /\ tickets'[t].binding = tickets[t].binding
      /\ tickets'[t].status = answer
  BY Answering DEF Decide, MayDecide, IInv
<1>2. ASSUME NEW c \in Bindings, ~Names(c, t)
      PROVE  binding'[c] = binding[c]
  BY <1>2 DEF Decide
<1>3. ASSUME NEW c \in Bindings, Names(c, t)
      PROVE  /\ binding[c] # Nobody /\ binding[c] \in BindingRows
             /\ binding'[c] = Followed(binding[c], t, answer)
             /\ t # 0
             /\ t = binding[c].ticket => t # binding[c].removalTicket
  BY <1>1, <1>3 DEF Decide, Names, IInv, TypeOK, Linked
<1>4. ASSUME NEW c \in Bindings
      PROVE  /\ binding'[c] \in BindingRows \cup {Nobody}
             /\ binding'[c] # Nobody =>
                  /\ binding[c] # Nobody
                  /\ binding'[c].ticket = binding[c].ticket
                  /\ binding'[c].removalTicket = binding[c].removalTicket
                  /\ binding'[c].state = "pending_forward" =>
                       binding[c].state = "pending_forward"
  <2>1. CASE Names(c, t)
    <3>1. /\ binding'[c] \in BindingRows
          /\ binding'[c].ticket = binding[c].ticket
          /\ binding'[c].removalTicket = binding[c].removalTicket
      BY <1>3, <2>1, Following
    <3>2. binding'[c].state = "pending_forward" => binding[c].state = "pending_forward"
      <4>1. binding[c].state \in {"active", "pending_forward", "rejected", "removed"}
        BY <1>3, <2>1 DEF BindingRows
      <4> QED BY <1>3, <2>1, <4>1, Following
    <3> QED BY <1>3, <2>1, <3>1, <3>2
  <2>2. CASE ~Names(c, t)
    BY <1>2, <2>2 DEF IInv, TypeOK
  <2> QED BY <2>1, <2>2
<1>5. TypeOK'
  <2>1. binding' \in [Bindings -> BindingRows \cup {Nobody}]
    BY <1>4 DEF Decide
  <2> QED BY <1>1, <1>4, <2>1 DEF IInv, TypeOK
<1>6. Linked'
  BY <1>1, <1>4 DEF IInv, TypeOK, Linked
<1>7. RemovalInFlight'
  <2> SUFFICES ASSUME NEW s \in TicketIds \ lost,
                      tickets'[s].asks = "remove", tickets'[s].status = "pending"
               PROVE  /\ binding'[tickets'[s].binding] # Nobody
                      /\ binding'[tickets'[s].binding].removalTicket = s
                      /\ binding'[tickets'[s].binding].removal = "pending_forward"
    BY <1>1 DEF RemovalInFlight
  <2> DEFINE c == tickets[s].binding
  <2>1. s # t /\ tickets'[s] = tickets[s]
    BY <1>1
  <2>2. c \in Bindings
    <3>1. tickets[s] \in TicketRows
      BY DEF IInv, TypeOK, TicketIds
    <3> QED BY <3>1 DEF TicketRows
  <2>3. /\ binding[c] # Nobody /\ binding[c].removalTicket = s
        /\ binding[c].removal = "pending_forward"
    BY <2>1 DEF IInv, RemovalInFlight
  <2> HIDE DEF c
  <2>4. CASE Names(c, t)
    <3>1. /\ binding'[c] \in BindingRows /\ binding'[c].removalTicket = s
          /\ binding'[c].removal = "pending_forward"
      BY <1>3, <2>1, <2>2, <2>3, <2>4, Following
    <3> QED BY <2>1, <3>1, NobodyAssumption DEF c
  <2>5. CASE ~Names(c, t)
    BY <1>2, <2>1, <2>2, <2>3, <2>5 DEF c
  <2> QED BY <2>4, <2>5
<1>8. ASSUME NEW c \in Bindings, binding'[c] # Nobody, binding'[c].ticket # t
      PROVE  /\ \/ binding'[c].state = binding[c].state
                \/ /\ binding[c].state = "active"
                   /\ binding'[c].state = "removed"
             /\ binding'[c].ticket = binding[c].ticket /\ binding[c] # Nobody
  <2>1. CASE Names(c, t)
    <3>1. binding[c].removalTicket = t
      BY <1>4, <1>8, <2>1 DEF Names
    <3> QED BY <1>3, <1>4, <1>8, <2>1, <3>1, Following
  <2>2. CASE ~Names(c, t)
    BY <1>2, <1>8, <2>2
  <2> QED BY <2>1, <2>2
<1>9. ASSUME NEW c \in Bindings, binding'[c] # Nobody, binding'[c].ticket = t
      PROVE  /\ binding[c].state \in {"rejected", "removed"} =>
                  binding'[c].state = binding[c].state
             /\ binding[c].state = "active" => binding'[c].state = "active"
             /\ binding[c].state = "pending_forward" =>
                  \/ answer = "approved" /\ binding'[c].state = "active"
                  \/ answer = "rejected" /\ binding'[c].state = "rejected"
             /\ binding[c].ticket = t /\ binding[c] # Nobody
             /\ binding[c].state \in {"active", "pending_forward", "rejected", "removed"}
  <2>1. Names(c, t) /\ binding[c].ticket = t
    BY <1>4, <1>9 DEF Names
  <2>2. binding[c].state \in {"active", "pending_forward", "rejected", "removed"}
    BY <1>3, <2>1 DEF BindingRows
  <2> QED BY <1>3, <1>4, <1>9, <2>1, <2>2, Following
<1>10. DecisionIsCarriedOut'
  <2> SUFFICES ASSUME NEW c \in Bindings, binding'[c] # Nobody,
                      binding'[c].ticket \in TicketIds \ lost
               PROVE  LET status == tickets'[binding'[c].ticket].status
                      IN  /\ status = "pending" => binding'[c].state = "pending_forward"
                          /\ status = "approved" => binding'[c].state \in {"active", "removed"}
                          /\ status = "rejected" => binding'[c].state \in {"rejected", "removed"}
    BY <1>1 DEF DecisionIsCarriedOut
  <2>1. CASE binding'[c].ticket = t
    <3>1. binding[c].state = "pending_forward"
      BY <1>1, <1>9, <2>1 DEF IInv, DecisionIsCarriedOut
    <3> QED BY <1>1, <1>9, <2>1, <3>1
  <2>2. CASE binding'[c].ticket # t
    <3>1. tickets'[binding'[c].ticket] = tickets[binding[c].ticket]
      BY <1>1, <1>8, <2>2
    <3> QED BY <1>8, <2>2, <3>1 DEF IInv, DecisionIsCarriedOut
  <2> QED BY <2>1, <2>2
<1>11. ForceNeedsApproval'
  <2> SUFFICES ASSUME NEW c \in Bindings, binding'[c] # Nobody,
                      binding'[c].state = "active", binding'[c].ticket # 0
               PROVE  tickets'[binding'[c].ticket].status = "approved"
    BY DEF ForceNeedsApproval
  <2>1. CASE binding'[c].ticket = t
    <3>1. binding[c].state # "active"
      BY <1>1, <1>9, <2>1 DEF IInv, ForceNeedsApproval
    <3> QED BY <1>1, <1>9, <2>1, <3>1
  <2>2. CASE binding'[c].ticket # t
    <3>1. binding[c].ticket \in TicketIds
      BY <1>8, <2>2 DEF IInv, TypeOK
    <3> QED BY <1>1, <1>8, <2>2, <3>1 DEF IInv, ForceNeedsApproval
  <2> QED BY <2>1, <2>2
<1> QED BY <1>5, <1>6, <1>7, <1>10, <1>11 DEF IInv

-----------------------------------------------------------------------------
(* Every step keeps the invariant.                                          *)

LEMMA InitIInv == Init => IInv
<1> SUFFICES ASSUME Init PROVE IInv
  OBVIOUS
<1>1. /\ tickets = <<>> /\ lost = {} /\ TicketIds = {}
      /\ \A b \in Bindings : binding[b] = Nobody
  BY DEF Init, TicketIds
<1>2. TypeOK
  <2>1. Cardinality(lost) = 0
    BY <1>1, FS_EmptySet
  <2> QED BY <1>1, <2>1, BindingAssumption DEF Init, TypeOK
<1> QED BY <1>1, <1>2 DEF IInv, Linked, RemovalInFlight, DecisionIsCarriedOut, ForceNeedsApproval

LEMMA NextIInv == IInv /\ [Next]_vars => IInv'
<1> SUFFICES ASSUME IInv, [Next]_vars PROVE IInv'
  OBVIOUS
<1>1. ASSUME NEW actor \in Actors, NEW b \in Bindings, NEW policy \in Policies,
             NEW kind \in Targets, NEW scope \in ScopeLevels,
             NEW owner \in {actor.id, Nobody}, NEW targetUser \in Ids,
             Bind(actor, policy, b, kind, scope, owner, targetUser)
      PROVE  IInv'
  BY <1>1, BindStep
<1>2. ASSUME NEW actor \in Actors, NEW b \in Bindings, NEW policy \in Policies,
             NEW kind \in Targets, NEW scope \in ScopeLevels,
             NEW owner \in {actor.id, Nobody}, NEW targetUser \in Ids,
             BindInterrupted(actor, policy, b, kind, scope, owner, targetUser)
      PROVE  IInv'
  <2>1. Ticket(actor, Reviewer(scope, targetUser), "bind", b) \in TicketRows
    BY TicketType DEF Reviewer
  <2> QED BY <1>2, <2>1, LostTicket DEF BindInterrupted
<1>3. ASSUME NEW actor \in Actors, NEW b \in Bindings, Remove(actor, b)
      PROVE  IInv'
  BY <1>3, RemoveStep
<1>4. ASSUME NEW actor \in Actors, NEW b \in Bindings, RemoveInterrupted(actor, b)
      PROVE  IInv'
  BY <1>4, RemoveInterruptedStep
<1>5. ASSUME NEW actor \in Actors, NEW b \in Bindings, AskForRemoval(actor, b)
      PROVE  IInv'
  BY <1>5, AskStep
<1>6. ASSUME NEW actor \in Actors, NEW b \in Bindings, AskInterrupted(actor, b)
      PROVE  IInv'
  <2>1. Ticket(actor, Nobody, "remove", b) \in TicketRows
    BY TicketType
  <2> QED BY <1>6, <2>1, LostTicket DEF AskInterrupted
<1>7. ASSUME NEW actor \in Actors, NEW t \in TicketIds, NEW answer \in {"approved", "rejected"},
             Decide(actor, t, answer)
      PROVE  IInv'
  BY <1>7, DecideStep
<1>8. ASSUME NEW actor \in Actors, NEW t \in TicketIds, NEW answer \in {"approved", "rejected"},
             DecideInterrupted(actor, t, answer)
      PROVE  IInv'
  BY <1>8, LostAnswer DEF DecideInterrupted, MayDecide
<1>9. CASE UNCHANGED vars
  BY <1>9 DEF vars, IInv, TypeOK, Linked, RemovalInFlight, DecisionIsCarriedOut,
              ForceNeedsApproval, TicketIds
<1> QED BY <1>1, <1>2, <1>3, <1>4, <1>5, <1>6, <1>7, <1>8, <1>9 DEF Next

LEMMA InvariantHolds == Spec => []IInv
  BY InitIInv, NextIInv, PTL DEF Spec

\* Every row and ticket keeps its type, and a row names only tickets there are
\* (policy_catalog.py:454-482, uas/ticket_master.py:24-53).
THEOREM BindingsAreWellTyped == Spec => []TypeOK
<1>1. IInv => TypeOK
  BY DEF IInv
<1> QED BY <1>1, InvariantHolds, PTL

\* A request and its binding agree, for any number of bindings and tickets,
\* unless a handler was interrupted over it (policy_catalog.py:565-606).
THEOREM DecisionsReachTheirBinding == Spec => []DecisionIsCarriedOut
<1>1. IInv => DecisionIsCarriedOut
  BY DEF IInv
<1> QED BY <1>1, InvariantHolds, PTL

\* No forwarded binding is in force before its approval, interrupted handlers
\* or not (policy_catalog.py:594-606).
THEOREM NothingInForceUnapproved == Spec => []ForceNeedsApproval
<1>1. IInv => ForceNeedsApproval
  BY DEF IInv
<1> QED BY <1>1, InvariantHolds, PTL

\* A binding never has two removals under review (policy_catalog.py:487-488).
THEOREM OneRemovalAtATime == Spec => []RemovalIsSingleFlight
<1>1. ASSUME IInv PROVE RemovalIsSingleFlight
  <2> SUFFICES ASSUME NEW b \in Bindings
               PROVE  Cardinality({t \in TicketIds \ lost :
                        /\ tickets[t].binding = b /\ tickets[t].asks = "remove"
                        /\ tickets[t].status = "pending"}) <= 1
    BY DEF RemovalIsSingleFlight
  <2> DEFINE open == {t \in TicketIds \ lost :
                        /\ tickets[t].binding = b /\ tickets[t].asks = "remove"
                        /\ tickets[t].status = "pending"}
             one == {binding[b].removalTicket}
  <2>1. open \subseteq one
    BY <1>1 DEF IInv, RemovalInFlight
  <2>2. IsFiniteSet(one) /\ Cardinality(one) = 1
    BY FS_Singleton
  <2>3. Cardinality(open) <= Cardinality(one)
    BY <2>1, <2>2, FS_Subset
  <2> QED BY <2>2, <2>3
<1> QED BY <1>1, InvariantHolds, PTL

\* No step brings back what was rejected or removed, nor changes a decided
\* ticket (policy_catalog.py:485-490, 579, 594).
THEOREM EndedStaysEnded == Spec => EndedIsFinal
<1> DEFINE Final ==
      /\ \A b \in Bindings :
           binding[b] # Nobody /\ binding[b].state \in {"rejected", "removed"} =>
             binding'[b].state = binding[b].state
      /\ \A t \in TicketIds :
           tickets[t].status # "pending" => tickets'[t] = tickets[t]
<1>1. ASSUME IInv, Next PROVE Final
  <2>1. ASSUME NEW actor \in Actors, NEW b \in Bindings, NEW policy \in Policies,
               NEW scope, NEW targetUser \in Ids, NEW kind, NEW owner,
               \/ Bind(actor, policy, b, kind, scope, owner, targetUser)
               \/ BindInterrupted(actor, policy, b, kind, scope, owner, targetUser)
        PROVE  Final
    <3>1. \A t \in TicketIds : tickets'[t] = tickets[t]
      BY <1>1, <2>1 DEF Bind, BindInterrupted, Open, IInv, TypeOK, TicketIds
    <3>2. binding[b] = Nobody /\ \A c \in Bindings \ {b} : binding'[c] = binding[c]
      BY <1>1, <2>1 DEF Bind, BindInterrupted, IInv, TypeOK
    <3> QED BY <3>1, <3>2
  <2>2. ASSUME NEW actor \in Actors, NEW b \in Bindings,
               Remove(actor, b) \/ RemoveInterrupted(actor, b)
        PROVE  Final
    <3>1. /\ binding[b] # Nobody /\ binding[b].state \in {"active", "pending_forward"}
          /\ tickets' = Withdrawn(b)
          /\ \A c \in Bindings \ {b} : binding'[c] = binding[c]
      BY <1>1, <2>2 DEF Remove, RemoveInterrupted, Removable, IInv, TypeOK
    <3>2. \A t \in TicketIds : tickets[t].status # "pending" => tickets'[t] = tickets[t]
      BY <1>1, <3>1, Withdrawing
    <3> QED BY <3>1, <3>2
  <2>3. ASSUME NEW actor \in Actors, NEW b \in Bindings,
               AskForRemoval(actor, b) \/ AskInterrupted(actor, b)
        PROVE  Final
    <3>1. \A t \in TicketIds : tickets'[t] = tickets[t]
      BY <1>1, <2>3 DEF AskForRemoval, AskInterrupted, Open, IInv, TypeOK, TicketIds
    <3>2. /\ binding[b] # Nobody /\ binding[b].state \in {"active", "pending_forward"}
          /\ \A c \in Bindings \ {b} : binding'[c] = binding[c]
      BY <1>1, <2>3 DEF AskForRemoval, AskInterrupted, Removable, IInv, TypeOK
    <3> QED BY <3>1, <3>2
  <2>4. ASSUME NEW actor \in Actors, NEW t \in TicketIds,
               NEW answer \in {"approved", "rejected"},
               Decide(actor, t, answer) \/ DecideInterrupted(actor, t, answer)
        PROVE  Final
    <3>1. tickets[t].status = "pending" /\ tickets' = Answered(t, answer)
      BY <2>4 DEF Decide, DecideInterrupted, MayDecide
    <3>2. \A s \in TicketIds \ {t} : tickets'[s] = tickets[s]
      BY <1>1, <3>1, Answering DEF IInv
    <3>3. ASSUME NEW b \in Bindings, binding[b] # Nobody,
                 binding[b].state \in {"rejected", "removed"}
          PROVE  binding'[b].state = binding[b].state
      <4>1. binding[b] \in BindingRows
        BY <1>1, <3>3 DEF IInv, TypeOK
      <4>2. binding'[b] = binding[b] \/ binding'[b] = Followed(binding[b], t, answer)
        BY <2>4 DEF Decide, DecideInterrupted
      <4> QED BY <3>3, <4>1, <4>2, Following
    <3> QED BY <3>1, <3>2, <3>3
  <2> QED BY <1>1, <2>1, <2>2, <2>3, <2>4 DEF Next
<1>2. ASSUME IInv, UNCHANGED vars PROVE Final
  BY <1>2 DEF vars
<1>3. IInv /\ [Next]_vars => [Final]_vars
  BY <1>1, <1>2
<1> QED BY <1>3, InvariantHolds, PTL DEF Spec, EndedIsFinal

-----------------------------------------------------------------------------
(* Users.  UsersTypeOK /\ UserProfileFits is inductive; the two action       *)
(* properties need only UsersTypeOK.                                        *)

USE SeedAssumption, AbsentAssumption

\* A step that turns the row of one user into another row of the right shape
\* keeps the type; a tombstone stays one.
LEMMA UserStep ==
  ASSUME UsersTypeOK, NEW u \in Users, NEW row \in UserRows,
         row.status = "deleted" => row = Tombstone(row),
         user' = [user EXCEPT ![u] = row], UNCHANGED profile
  PROVE  UsersTypeOK'
  BY DEF UsersTypeOK

\* A step that touches one profile keeps the type.
LEMMA ProfileStep ==
  ASSUME UsersTypeOK, NEW p \in Profiles, NEW row \in ProfileRows \cup {Absent},
         profile' = [profile EXCEPT ![p] = row], UNCHANGED user
  PROVE  UsersTypeOK'
  BY DEF UsersTypeOK

LEMMA TombstoneType ==
  ASSUME NEW row \in UserRows
  PROVE  /\ Tombstone(row) \in UserRows
         /\ Tombstone(row).status = "deleted"
         /\ Tombstone(Tombstone(row)) = Tombstone(row)
  BY DEF Tombstone, UserRows

\* A row moved Home keeps everything else, and a tombstone stays one.
LEMMA HomeRow ==
  ASSUME NEW row \in UserRows, NEW moved, moved = [row EXCEPT !.org = Home]
  PROVE  /\ moved \in UserRows /\ moved.org = Home
         /\ moved.profile = row.profile /\ moved.status = row.status
         /\ row = Tombstone(row) => moved = Tombstone(moved)
<1>1. /\ moved \in UserRows /\ moved.org = Home /\ moved.profile = row.profile
      /\ moved.status = row.status /\ moved.denied = row.denied
  BY DEF UserRows
<1>2. ASSUME row = Tombstone(row)
      PROVE  row.profile = Viewer /\ row.status = "deleted" /\ row.denied = FALSE
  BY <1>2 DEF Tombstone, UserRows
<1>3. ASSUME moved.profile = Viewer, moved.status = "deleted", moved.denied = FALSE
      PROVE  moved = Tombstone(moved)
  BY <1>1, <1>3 DEF Tombstone, UserRows
<1> QED BY <1>1, <1>2, <1>3

LEMMA InitTypeOK == UsersInit => UsersTypeOK
  BY DEF UsersInit, UsersTypeOK, ShippedRow, ProfileRows, UserRows, Owners, Shipped

\* Every step keeps the state well typed.
LEMMA NextTypeOK == UsersTypeOK /\ [UsersNext]_userVars => UsersTypeOK'
<1> SUFFICES ASSUME UsersTypeOK, [UsersNext]_userVars PROVE UsersTypeOK'
  OBVIOUS
<1>1. ASSUME NEW who \in Callers, NEW p \in Profiles, NEW org \in Owners,
             NEW wildcard \in BOOLEAN, CreateProfile(who, p, org, wildcard)
      PROVE  UsersTypeOK'
  <2> DEFINE owner == IF org = Global /\ ~who.wide THEN who.org ELSE org
  <2>0. who.org \in Organizations
    <3>1. CASE who \in [org : Organizations, wide : {FALSE}]
      BY <3>1
    <3>2. CASE who = [org |-> Home, wide |-> TRUE]
      BY <3>2
    <3> QED BY <3>1, <3>2 DEF Callers
  <2>1. owner \in Owners
    BY <2>0 DEF Owners
  <2>2. [org |-> owner, wildcard |-> wildcard] \in ProfileRows
    BY <2>1 DEF ProfileRows
  <2> QED BY <1>1, <2>2, ProfileStep DEF CreateProfile
<1>2. ASSUME NEW who \in Callers, NEW p \in Profiles, NEW wildcard \in BOOLEAN,
             UpdateProfile(who, p, wildcard)
      PROVE  UsersTypeOK'
  <2>1. profile[p] \in ProfileRows
    BY <1>2 DEF UpdateProfile, UsersTypeOK
  <2>2. [profile[p] EXCEPT !.wildcard = wildcard] \in ProfileRows
    BY <2>1 DEF ProfileRows
  <2> QED BY <1>2, <2>2, ProfileStep DEF UpdateProfile, Regraded
<1>3. ASSUME NEW who \in Callers, NEW p \in Profiles, DeleteProfile(who, p)
      PROVE  UsersTypeOK'
  BY <1>3, ProfileStep DEF DeleteProfile
<1>4. ASSUME NEW who \in Callers, NEW u \in Users, NEW org \in Organizations,
             NEW p \in Profiles, CreateUser(who, u, org, p)
      PROVE  UsersTypeOK'
  <2>1. [org |-> org, profile |-> p, status |-> "active", denied |-> FALSE] \in UserRows
    BY DEF UserRows
  <2> QED BY <1>4, <2>1, UserStep DEF CreateUser
<1>5. ASSUME NEW who \in Callers, NEW u \in Users, NEW org \in Organizations,
             NEW p \in Profiles, NEW denied \in BOOLEAN, UpdateUser(who, u, org, p, denied)
      PROVE  UsersTypeOK'
  <2> DEFINE row == [user[u] EXCEPT !.org = org, !.profile = p, !.denied = denied]
  <2>1. user[u] \in UserRows /\ user[u].status # "deleted"
    BY <1>5 DEF UpdateUser, UsersTypeOK
  <2>2. row \in UserRows /\ row.status # "deleted"
    BY <2>1 DEF UserRows
  <2>3. user' = [user EXCEPT ![u] = row] /\ UNCHANGED profile
    BY <1>5 DEF UpdateUser
  <2> QED BY <2>2, <2>3, UserStep
<1>6. ASSUME NEW who \in Callers, NEW u \in Users, SuspendUser(who, u)
      PROVE  UsersTypeOK'
  <2>1. user[u] \in UserRows
    BY <1>6 DEF SuspendUser, UsersTypeOK
  <2>2. [user[u] EXCEPT !.status = "suspended"] \in UserRows
    BY <2>1 DEF UserRows
  <2> QED BY <1>6, <2>1, <2>2, UserStep DEF SuspendUser, UserRows
<1>7. ASSUME NEW who \in Callers, NEW u \in Users, ReactivateUser(who, u)
      PROVE  UsersTypeOK'
  <2>1. user[u] \in UserRows
    BY <1>7 DEF ReactivateUser, UsersTypeOK
  <2>2. [user[u] EXCEPT !.status = "active"] \in UserRows
    BY <2>1 DEF UserRows
  <2> QED BY <1>7, <2>1, <2>2, UserStep DEF ReactivateUser, UserRows
<1>8. ASSUME NEW who \in Callers, NEW u \in Users, DeleteUser(who, u)
      PROVE  UsersTypeOK'
  <2>1. user[u] \in UserRows
    BY <1>8 DEF DeleteUser, UsersTypeOK
  <2> QED BY <1>8, <2>1, TombstoneType, UserStep DEF DeleteUser
<1>9. CASE Restart
  <2>1. ASSUME NEW p \in Profiles PROVE profile'[p] \in ProfileRows \cup {Absent}
    <3>1. ShippedRow(p) \in ProfileRows
      BY DEF ShippedRow, ProfileRows, Owners
    <3>2. ASSUME profile[p] # Absent
          PROVE  [profile[p] EXCEPT !.wildcard = @ \/ ShippedRow(p).wildcard] \in ProfileRows
      BY <3>2 DEF UsersTypeOK, ProfileRows, ShippedRow
    <3> QED BY <1>9, <3>1, <3>2 DEF Restart, UsersTypeOK
  <2>2. /\ profile' \in [Profiles -> ProfileRows \cup {Absent}]
        /\ user' = [v \in Users |-> IF ComesHome(v) THEN [user[v] EXCEPT !.org = Home]
                                                  ELSE user[v]]
    BY <1>9, <2>1 DEF Restart
  <2>3. ASSUME NEW v \in Users
        PROVE  /\ user'[v] \in UserRows \cup {Absent}
               /\ user'[v] # Absent /\ user'[v].status = "deleted" =>
                    user'[v] = Tombstone(user'[v])
    <3>1. CASE ComesHome(v)
      <4>1. user[v] \in UserRows /\ user'[v] = [user[v] EXCEPT !.org = Home]
        BY <2>2, <3>1 DEF ComesHome, UsersTypeOK
      <4>2. user[v].status = "deleted" => user[v] = Tombstone(user[v])
        BY <3>1 DEF ComesHome, UsersTypeOK
      <4> QED BY <4>1, <4>2, HomeRow
    <3>2. CASE ~ComesHome(v)
      BY <2>2, <3>2 DEF UsersTypeOK
    <3> QED BY <3>1, <3>2
  <2>4. user' \in [Users -> UserRows \cup {Absent}]
    BY <2>2, <2>3
  <2> QED BY <2>2, <2>3, <2>4 DEF UsersTypeOK
<1>10. CASE UNCHANGED userVars
  BY <1>10 DEF userVars, UsersTypeOK
<1> QED
  BY <1>1, <1>2, <1>3, <1>4, <1>5, <1>6, <1>7, <1>8, <1>9, <1>10 DEF UsersNext

\* The registry's state is always well typed, and a deleted user's row is
\* always the tombstone delete_user writes (users.py:640-671).
THEOREM RegistryIsWellTyped == UsersSpec => []UsersTypeOK
  BY InitTypeOK, NextTypeOK, PTL DEF UsersSpec

-----------------------------------------------------------------------------
\* What UserProfileFits says of one user.
Served(v) == Fits(user[v].profile, user[v].org) \/ CarriedOver(v)

\* Every step leaves each live user with a profile open to the organization,
\* or one carried over.
LEMMA NextUserProfileFits ==
  UsersTypeOK /\ UserProfileFits /\ [UsersNext]_userVars => UserProfileFits'
<1> SUFFICES ASSUME UsersTypeOK, UserProfileFits, [UsersNext]_userVars,
                    NEW v \in Users, user'[v] # Absent, user'[v].status # "deleted"
             PROVE  Served(v)'
  BY DEF UserProfileFits, Served
<1>1. ASSUME NEW who \in Callers, NEW p \in Profiles, NEW org \in Owners,
             NEW wildcard \in BOOLEAN, CreateProfile(who, p, org, wildcard)
      PROVE  Served(v)'
  BY <1>1 DEF CreateProfile, UserProfileFits, Served, CarriedOver, Fits, UsersTypeOK
<1>2. ASSUME NEW who \in Callers, NEW p \in Profiles, NEW wildcard \in BOOLEAN,
             UpdateProfile(who, p, wildcard)
      PROVE  Served(v)'
  <2>1. profile[p] \in ProfileRows
    BY <1>2 DEF UpdateProfile, UsersTypeOK
  <2>2. [profile[p] EXCEPT !.wildcard = wildcard] \in ProfileRows
        /\ [profile[p] EXCEPT !.wildcard = wildcard].org = profile[p].org
    BY <2>1 DEF ProfileRows
  <2> QED BY <1>2, <2>2 DEF UpdateProfile, Regraded, UserProfileFits, Served, CarriedOver, Fits, UsersTypeOK
<1>3. ASSUME NEW who \in Callers, NEW p \in Profiles, DeleteProfile(who, p)
      PROVE  Served(v)'
  BY <1>3 DEF DeleteProfile, InUse, UserProfileFits, Served, CarriedOver, Fits, UsersTypeOK
<1>4. ASSUME NEW who \in Callers, NEW u \in Users, NEW org \in Organizations,
             NEW p \in Profiles, CreateUser(who, u, org, p)
      PROVE  Served(v)'
  BY <1>4 DEF CreateUser, UserProfileFits, Served, CarriedOver, Fits, UsersTypeOK
<1>5. ASSUME NEW who \in Callers, NEW u \in Users, NEW org \in Organizations,
             NEW p \in Profiles, NEW denied \in BOOLEAN, UpdateUser(who, u, org, p, denied)
      PROVE  Served(v)'
  <2>1. user[u] \in UserRows
    BY <1>5 DEF UpdateUser, UsersTypeOK
  <2>2. v = u => user'[v].profile = p /\ user'[v].org = org
    BY <1>5, <2>1 DEF UpdateUser, UserRows, UsersTypeOK
  <2>3. v # u => user'[v] = user[v]
    BY <1>5 DEF UpdateUser, UsersTypeOK
  <2> QED BY <1>5, <2>2, <2>3 DEF UpdateUser, UserProfileFits, Served, CarriedOver, Fits
<1>6. ASSUME NEW who \in Callers, NEW u \in Users, SuspendUser(who, u)
      PROVE  Served(v)'
  <2>1. user[u] \in UserRows
    BY <1>6 DEF SuspendUser, UsersTypeOK
  <2> QED BY <1>6, <2>1 DEF SuspendUser, UserProfileFits, Served, CarriedOver, Fits, UserRows, UsersTypeOK
<1>7. ASSUME NEW who \in Callers, NEW u \in Users, ReactivateUser(who, u)
      PROVE  Served(v)'
  <2>1. user[u] \in UserRows
    BY <1>7 DEF ReactivateUser, UsersTypeOK
  <2> QED BY <1>7, <2>1 DEF ReactivateUser, UserProfileFits, Served, CarriedOver, Fits, UserRows, UsersTypeOK
<1>8. ASSUME NEW who \in Callers, NEW u \in Users, DeleteUser(who, u)
      PROVE  Served(v)'
  <2>1. user[u] \in UserRows
    BY <1>8 DEF DeleteUser, UsersTypeOK
  <2>2. v # u
    BY <1>8, <2>1, TombstoneType DEF DeleteUser, UsersTypeOK
  <2> QED BY <1>8, <2>2 DEF DeleteUser, UserProfileFits, Served, CarriedOver, Fits, UsersTypeOK
<1>9. CASE Restart
  <2>1. ASSUME NEW p \in Profiles, profile[p] # Absent
        PROVE  profile'[p] \in ProfileRows /\ profile'[p].org = profile[p].org
    BY <1>9, <2>1 DEF Restart, UsersTypeOK, ProfileRows, ShippedRow
  <2>2. CASE ~ComesHome(v)
    <3>1. user'[v] = user[v] /\ user[v].profile \in Profiles
      BY <1>9, <2>2 DEF Restart, UsersTypeOK, UserRows
    <3> QED BY <2>1, <3>1 DEF UserProfileFits, Served, CarriedOver, Fits
  <2>3. CASE ComesHome(v)
    <3>1. user[v] \in UserRows /\ user'[v] = [user[v] EXCEPT !.org = Home]
      BY <1>9, <2>3 DEF Restart, ComesHome, UsersTypeOK
    <3>2. /\ user'[v].org = Home /\ user'[v].profile = user[v].profile
          /\ user'[v].status = user[v].status /\ user[v].profile \in Profiles
      BY <3>1 DEF UserRows
    <3>3. /\ profile[user[v].profile] # Absent
          /\ profile[user[v].profile].org \in {Global, Unassigned}
      BY <2>3, <3>1, <3>2 DEF ComesHome, UserProfileFits, CarriedOver, Fits
    <3>4. profile'[user[v].profile] # Absent
      BY <2>1, <3>2, <3>3
    <3> QED BY <2>1, <2>3, <3>2, <3>3, <3>4 DEF ComesHome, Served, CarriedOver, Fits
  <2> QED BY <2>2, <2>3
<1>10. CASE UNCHANGED userVars
  BY <1>10 DEF userVars, UserProfileFits, Served, CarriedOver, Fits
<1> QED
  BY <1>1, <1>2, <1>3, <1>4, <1>5, <1>6, <1>7, <1>8, <1>9, <1>10 DEF UsersNext

\* No live user is ever left without a profile that exists, and only a user a
\* start moved Home carries one that is not open to the user's organization
\* (users.py:279-285, 361-370, 505-506).
THEOREM ProfilesAlwaysFit == UsersSpec => []UserProfileFits
<1>1. UsersInit => UserProfileFits
  <2> SUFFICES ASSUME UsersInit, NEW u \in Users, user[u] # Absent
               PROVE  Fits(user[u].profile, user[u].org)
    BY DEF UserProfileFits
  <2>1. user[u].profile \in Shipped
    BY DEF UsersInit, Shipped
  <2>2. \A p \in Shipped : p \in Profiles /\ profile[p] = ShippedRow(p)
    BY DEF UsersInit, Shipped
  <2>3. \A p \in Shipped : ShippedRow(p) \in ProfileRows /\ ShippedRow(p).org = Global
    BY DEF ShippedRow, ProfileRows, Owners
  <2>4. ShippedRow(user[u].profile) # Absent
    BY <2>1, <2>3
  <2> QED BY <2>1, <2>2, <2>3, <2>4 DEF Fits
<1> QED BY <1>1, InitTypeOK, NextTypeOK, NextUserProfileFits, PTL DEF UsersSpec

-----------------------------------------------------------------------------
\* An administrator nothing touches stays one.
LEMMA StillAdministers ==
  ASSUME NEW org, NEW v \in Administrators(org, profile), user'[v] = user[v],
         profile'[user[v].profile] # Absent, profile'[user[v].profile].wildcard
  PROVE  Administrators(org, profile)' # {}
  BY DEF Administrators, IsActiveAdministrator

\* A change of one user that leaves the organization another administrator.
LEMMA AnotherRemains ==
  ASSUME UsersTypeOK, NEW org, NEW u \in Users, NEW v \in Administrators(org, profile),
         UNCHANGED profile, user[u] # Absent,
         \A w \in Users \ {u} : user'[w] = user[w],
         IsActiveAdministrator(user[u], profile) => AnotherAdministers(u)
  PROVE  Administrators(org, profile)' # {}
<1>1. PICK w \in Administrators(org, profile) : w # u
  <2>1. CASE v # u
    BY <2>1
  <2>2. CASE v = u
    <3>1. user[u].org = org /\ IsActiveAdministrator(user[u], profile)
      BY <2>2 DEF Administrators
    <3> QED BY <3>1 DEF AnotherAdministers
  <2> QED BY <2>1, <2>2
<1>2. w \in Users /\ user'[w] = user[w]
  BY <1>1 DEF Administrators
<1> QED BY <1>1, <1>2, StillAdministers DEF Administrators, IsActiveAdministrator

\* The start's exception: org's administrators all go Home from Unassigned.
AllGoHome(org) ==
  \A u \in Administrators(org, profile) :
    ComesHome(u) /\ user'[u].org = Home /\ org = Unassigned

\* Every step leaves an administered organization administered, or is a start
\* that moves its administrators.
LEMMA NextKeepsAdministrator ==
  ASSUME UsersTypeOK, [UsersNext]_userVars, NEW org \in Organizations,
         Administrators(org, profile) # {}
  PROVE  Administrators(org, profile)' # {} \/ AllGoHome(org)
<1> PICK v \in Administrators(org, profile) : TRUE
  OBVIOUS
<1>0. /\ v \in Users /\ user[v] \in UserRows /\ user[v].org = org
      /\ user[v].profile \in Profiles /\ user[v].status = "active"
      /\ profile[user[v].profile] \in ProfileRows
      /\ profile[user[v].profile] # Absent /\ profile[user[v].profile].wildcard
  BY DEF Administrators, IsActiveAdministrator, UsersTypeOK, UserRows
<1>1. ASSUME NEW who \in Callers, NEW p \in Profiles, NEW o \in Owners,
             NEW wildcard \in BOOLEAN, CreateProfile(who, p, o, wildcard)
      PROVE  Administrators(org, profile)' # {}
  BY <1>0, <1>1, StillAdministers DEF CreateProfile, UsersTypeOK
<1>2. ASSUME NEW who \in Callers, NEW p \in Profiles, NEW wildcard \in BOOLEAN,
             UpdateProfile(who, p, wildcard)
      PROVE  Administrators(org, profile)' # {}
  <2>1. CASE user[v].profile = p /\ ~wildcard
    <3>1. Administrators(org, Regraded(p, wildcard)) # {}
      BY <1>0, <1>2, <2>1 DEF UpdateProfile
    <3> QED BY <1>2, <3>1 DEF UpdateProfile, Administrators, IsActiveAdministrator
  <2>2. CASE user[v].profile = p /\ wildcard
    <3>1. profile'[p] = [profile[p] EXCEPT !.wildcard = wildcard]
      BY <1>2 DEF UpdateProfile, Regraded, UsersTypeOK
    <3>2. profile'[p] \in ProfileRows /\ profile'[p].wildcard
      BY <1>0, <2>2, <3>1 DEF ProfileRows
    <3> QED BY <1>0, <1>2, <2>2, <3>2, StillAdministers DEF UpdateProfile
  <2>3. CASE user[v].profile # p
    BY <1>0, <1>2, <2>3, StillAdministers DEF UpdateProfile, Regraded, UsersTypeOK
  <2> QED BY <2>1, <2>2, <2>3
<1>3. ASSUME NEW who \in Callers, NEW p \in Profiles, DeleteProfile(who, p)
      PROVE  Administrators(org, profile)' # {}
  BY <1>0, <1>3, StillAdministers DEF DeleteProfile, InUse, UsersTypeOK
<1>4. ASSUME NEW who \in Callers, NEW u \in Users, NEW o \in Organizations,
             NEW p \in Profiles, CreateUser(who, u, o, p)
      PROVE  Administrators(org, profile)' # {}
  <2>1. v # u
    BY <1>0, <1>4 DEF CreateUser
  <2> QED BY <1>0, <1>4, <2>1, StillAdministers DEF CreateUser, UsersTypeOK
<1>5. ASSUME NEW who \in Callers, NEW u \in Users, NEW o \in Organizations,
             NEW p \in Profiles, NEW denied \in BOOLEAN, UpdateUser(who, u, o, p, denied)
      PROVE  Administrators(org, profile)' # {}
  <2> DEFINE row == [user[u] EXCEPT !.org = o, !.profile = p, !.denied = denied]
  <2>1. user[u] \in UserRows /\ user' = [user EXCEPT ![u] = row] /\ UNCHANGED profile
    BY <1>5 DEF UpdateUser, UsersTypeOK
  <2>2. CASE v = u /\ o = user[u].org /\ IsActiveAdministrator(row, profile)
    <3>1. user'[u] = row /\ row.org = o /\ row \in UserRows
      BY <2>1 DEF UsersTypeOK, UserRows
    <3>2. u \in Administrators(org, profile)'
      BY <1>0, <2>1, <2>2, <3>1 DEF Administrators, IsActiveAdministrator
    <3> QED BY <3>2
  <2>3. CASE v = u /\ ~(o = user[u].org /\ IsActiveAdministrator(row, profile))
    <3>1. IsActiveAdministrator(user[u], profile) => AnotherAdministers(u)
      BY <1>5, <2>3 DEF UpdateUser
    <3> QED BY <1>5, <2>1, <3>1, AnotherRemains DEF UpdateUser, UsersTypeOK
  <2>4. CASE v # u
    BY <1>0, <2>1, <2>4, StillAdministers DEF UsersTypeOK
  <2> QED BY <2>2, <2>3, <2>4
<1>6. ASSUME NEW who \in Callers, NEW u \in Users, SuspendUser(who, u)
      PROVE  Administrators(org, profile)' # {}
  BY <1>6, AnotherRemains DEF SuspendUser, UsersTypeOK
<1>7. ASSUME NEW who \in Callers, NEW u \in Users, ReactivateUser(who, u)
      PROVE  Administrators(org, profile)' # {}
  <2>1. v # u
    BY <1>0, <1>7 DEF ReactivateUser
  <2> QED BY <1>0, <1>7, <2>1, StillAdministers DEF ReactivateUser, UsersTypeOK
<1>8. ASSUME NEW who \in Callers, NEW u \in Users, DeleteUser(who, u)
      PROVE  Administrators(org, profile)' # {}
  BY <1>8, AnotherRemains DEF DeleteUser, UsersTypeOK
<1>9. CASE Restart
  <2>1. ASSUME NEW u \in Administrators(org, profile), ~ComesHome(u)
        PROVE  Administrators(org, profile)' # {}
    <3>1. /\ u \in Users /\ user[u] \in UserRows /\ user[u].profile \in Profiles
          /\ profile[user[u].profile] \in ProfileRows
          /\ profile[user[u].profile] # Absent /\ profile[user[u].profile].wildcard
      BY DEF Administrators, IsActiveAdministrator, UsersTypeOK, UserRows
    <3>2. LET p == user[u].profile
          IN  profile'[p] # Absent /\ profile'[p].wildcard
      BY <1>9, <3>1 DEF Restart, UsersTypeOK, ProfileRows, ShippedRow
    <3>3. user'[u] = user[u]
      BY <1>9, <2>1, <3>1 DEF Restart
    <3> QED BY <3>2, <3>3, StillAdministers
  <2>2. ASSUME NEW u \in Administrators(org, profile), ComesHome(u)
        PROVE  user'[u].org = Home /\ org = Unassigned
    <3>1. /\ u \in Users /\ user[u].org = org /\ user[u] \in UserRows
          /\ user'[u] = [user[u] EXCEPT !.org = Home]
      BY <1>9, <2>2 DEF Restart, Administrators, ComesHome, UsersTypeOK
    <3> QED BY <2>2, <3>1 DEF ComesHome, UserRows
  <2> QED BY <2>1, <2>2 DEF AllGoHome
<1>10. CASE UNCHANGED userVars
  BY <1>0, <1>10, StillAdministers DEF userVars
<1> QED
  BY <1>1, <1>2, <1>3, <1>4, <1>5, <1>6, <1>7, <1>8, <1>9, <1>10 DEF UsersNext

\* No sequence of administrative steps takes an organization's last active
\* administrator away (users.py:372-389); only a start does, by moving the
\* seeded users of Unassigned Home (users.py:279-285).
THEOREM LastAdministratorStays == UsersSpec => KeepsAnAdministrator
<1>1. UsersTypeOK /\ [UsersNext]_userVars =>
        [\A org \in Organizations :
           Administrators(org, profile) # {} =>
             \/ Administrators(org, profile)' # {}
             \/ \A u \in Administrators(org, profile) :
                  ComesHome(u) /\ user'[u].org = Home /\ org = Unassigned]_userVars
  BY NextKeepsAdministrator DEF AllGoHome
<1> QED BY <1>1, InitTypeOK, NextTypeOK, PTL DEF UsersSpec, KeepsAnAdministrator

-----------------------------------------------------------------------------
\* A tombstone is never edited, revived or reused (users.py:543-544, 625-626);
\* a start may take a seeded one Home (users.py:279-285).
THEOREM TombstonesStay == UsersSpec => TombstonesAreFinal
<1>1. UsersTypeOK /\ [UsersNext]_userVars =>
        [\A u \in Users :
           user[u] # Absent /\ user[u].status = "deleted" =>
             \/ user'[u] = user[u]
             \/ ComesHome(u) /\ user'[u] = [user[u] EXCEPT !.org = Home]]_userVars
  <2> SUFFICES ASSUME UsersTypeOK, UsersNext, NEW v \in Users,
                      user[v] # Absent, user[v].status = "deleted"
               PROVE  \/ user'[v] = user[v]
                      \/ ComesHome(v) /\ user'[v] = [user[v] EXCEPT !.org = Home]
    OBVIOUS
  <2>1. CASE UNCHANGED user
    BY <2>1
  <2>2. ASSUME NEW who \in Callers, NEW u \in Users, NEW o \in Organizations,
               NEW p \in Profiles, CreateUser(who, u, o, p)
        PROVE  user'[v] = user[v]
    BY <2>2 DEF CreateUser, UsersTypeOK
  <2>3. ASSUME NEW who \in Callers, NEW u \in Users, NEW o \in Organizations,
               NEW p \in Profiles, NEW d \in BOOLEAN, UpdateUser(who, u, o, p, d)
        PROVE  user'[v] = user[v]
    BY <2>3 DEF UpdateUser, UsersTypeOK
  <2>4. ASSUME NEW who \in Callers, NEW u \in Users,
               SuspendUser(who, u) \/ ReactivateUser(who, u) \/ DeleteUser(who, u)
        PROVE  user'[v] = user[v]
    BY <2>4 DEF SuspendUser, ReactivateUser, DeleteUser, UsersTypeOK
  <2>5. CASE Restart
    BY <2>5 DEF Restart
  <2> QED
    BY <2>1, <2>2, <2>3, <2>4, <2>5
    DEF UsersNext, CreateProfile, UpdateProfile, DeleteProfile
<1> QED BY <1>1, InitTypeOK, NextTypeOK, PTL DEF UsersSpec, TombstonesAreFinal
=============================================================================
