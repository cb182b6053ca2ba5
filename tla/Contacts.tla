------------------------------ MODULE Contacts ------------------------------
(***************************************************************************)
(* core/privacy_contacts.py and what web/server.py and                     *)
(* domains/omniledger/dispute_loop.py ask of it: contacts in the scope of  *)
(* one user, of a department or of an organization, the objections         *)
(* recorded on them, and the drafts and letters that an objection stops.   *)
(*                                                                         *)
(* Contacts are kept in the order of the store: of those with one address  *)
(* the first that objected decides.                                        *)
(***************************************************************************)
EXTENDS Naturals, Sequences, FiniteSets

CONSTANTS
  Users, Organizations, Default, LegacyOrganization,
  Organization,                    \* Organization[u]
  Departments, NoDepartment,
  Department,                      \* Department[u], or NoDepartment
  DepartmentManagers, OrganizationManagers,
  Nobody,
  Spellings,                       \* the addresses as they are written
  Address,                         \* Address[s]: its lower-case form
  SeedIds, NoSeed,
  SeedSpelling,                    \* SeedSpelling[i]
  Letters,                         \* correction letters, a ticket each
  MaxContacts                      \* bound on the contacts ever made

ASSUME ContactsAssumption ==
  /\ Organization \in [Users -> Organizations \ {LegacyOrganization}]
  /\ {Default, LegacyOrganization} \subseteq Organizations /\ Default # LegacyOrganization
  /\ NoDepartment \in Departments /\ Department \in [Users -> Departments]
  /\ Nobody \notin Users /\ NoSeed \notin SeedIds
  /\ IsFiniteSet(SeedIds) /\ SeedSpelling \in [SeedIds -> Spellings]
  /\ MaxContacts \in Nat

ContactRows ==
  [seed : SeedIds \cup {NoSeed}, spelling : Spellings,
   visibility : {"personal", "department", "organization"},
   organization : Organizations, owner : Users \cup {Nobody}, department : Departments,
   objected : BOOLEAN]

\* A ticket's draft is written or blocked; its letter is rendered for somebody.
\* late says that the address has objected, in his view, while that lasts.
LetterRows ==
  [stage : {"none", "written", "blocked"}, spelling : Spellings,
   by : Users \cup {Nobody}, late : BOOLEAN]

VARIABLES
  contacts,    \* the contact store
  letters,     \* the tickets and their letters
  objections,  \* every objection ever recorded: the row of its contact
  up           \* whether the process runs

vars == <<contacts, letters, objections, up>>

TypeOK ==
  /\ contacts \in Seq(ContactRows)
  /\ letters \in [Letters -> LetterRows]
  /\ objections \subseteq ContactRows
  /\ up \in BOOLEAN

-----------------------------------------------------------------------------
(* Scopes and suppression.                                                  *)

\* list_visible
Visible(row, u) ==
  /\ row.organization = Organization[u]
  /\ \/ row.visibility = "organization"
     \/ row.visibility = "personal" /\ row.owner = u
     \/ row.visibility = "department" /\ row.department # NoDepartment
          /\ row.department = Department[u]

Matches(u, spelling) ==
  {i \in DOMAIN contacts :
     Visible(contacts[i], u) /\ Address[contacts[i].spelling] = Address[spelling]}

\* Mistake: the first match decides.
PermittedByFirst(u, spelling) ==
  \A i \in Matches(u, spelling) :
    contacts[i].objected => \E j \in Matches(u, spelling) : j < i

\* get_contact_by_email prefers a match that objected.
Permitted(u, spelling) == \A i \in Matches(u, spelling) : ~contacts[i].objected

Rendering(l) == letters[l].by # Nobody

NewContact(u, spelling, visibility) ==
  [seed |-> NoSeed, spelling |-> spelling, visibility |-> visibility,
   organization |-> Organization[u],
   owner |-> IF visibility = "personal" THEN u ELSE Nobody,
   department |-> IF visibility = "department" THEN Department[u] ELSE NoDepartment,
   objected |-> FALSE]

\* Nobody looks whether the address has objected before.
AddContact(u, spelling, visibility) ==
  /\ up /\ Len(contacts) < MaxContacts
  /\ visibility = "organization" => u \in OrganizationManagers
  /\ visibility = "department" => u \in DepartmentManagers /\ Department[u] # NoDepartment
  /\ contacts' = Append(contacts, NewContact(u, spelling, visibility))
  /\ UNCHANGED <<letters, objections, up>>

MayObject(u, row) ==
  /\ Visible(row, u)
  /\ row.visibility = "department" => u \in DepartmentManagers
  /\ row.visibility = "organization" => u \in OrganizationManagers

OptOut(u, i) ==
  /\ up /\ i \in DOMAIN contacts /\ MayObject(u, contacts[i])
  /\ contacts' = [contacts EXCEPT ![i].objected = TRUE]
  /\ objections' = objections \cup {[contacts[i] EXCEPT !.objected = TRUE]}
  /\ letters' = [l \in Letters |->
       IF Rendering(l) /\ i \in Matches(letters[l].by, letters[l].spelling)
       THEN [letters[l] EXCEPT !.late = TRUE] ELSE letters[l]]
  /\ UNCHANGED up

-----------------------------------------------------------------------------
(* Drafts and letters.                                                      *)

\* The dispute loop makes a ticket whether the draft is blocked or not.
Draft(l, u, spelling) ==
  /\ up /\ letters[l].stage = "none"
  /\ letters' = [letters EXCEPT ![l] =
       [stage |-> IF Permitted(u, spelling) THEN "written" ELSE "blocked",
        spelling |-> spelling, by |-> Nobody, late |-> FALSE]]
  /\ UNCHANGED <<contacts, objections, up>>

\* Mistake: the letter is taken to be clear because its draft was.
RequestDrafted(l, u) ==
  /\ up /\ letters[l].stage = "written" /\ ~Rendering(l)
  /\ letters' = [letters EXCEPT ![l].by = u, ![l].late = FALSE]
  /\ UNCHANGED <<contacts, objections, up>>

\* Whoever sees the ticket can ask for its letter, and is asked about his scope.
RequestLetter(l, u) ==
  /\ up /\ letters[l].stage # "none" /\ ~Rendering(l)
  /\ Permitted(u, letters[l].spelling)
  /\ letters' = [letters EXCEPT ![l].by = u, ![l].late = FALSE]
  /\ UNCHANGED <<contacts, objections, up>>

\* The gateway has rendered it, or has refused or failed.
FinishLetter(l) ==
  /\ up /\ Rendering(l)
  /\ letters' = [letters EXCEPT ![l].by = Nobody, ![l].late = FALSE]
  /\ UNCHANGED <<contacts, objections, up>>

-----------------------------------------------------------------------------
(* The process.                                                             *)

Crash ==
  /\ up /\ up' = FALSE
  /\ letters' = [l \in Letters |-> [letters[l] EXCEPT !.by = Nobody, !.late = FALSE]]
  /\ UNCHANGED <<contacts, objections>>

\* Mistake: a seeded contact is written anew.
Reset(row) ==
  IF row.seed = NoSeed THEN row
  ELSE [row EXCEPT !.organization = Default, !.visibility = "organization", !.objected = FALSE]

\* A seeded contact is described anew and stays as it was decided on.
Refreshed(row) ==
  IF row.seed = NoSeed THEN row
  ELSE [row EXCEPT !.organization = Default, !.visibility = "organization"]

SeedRow(i, organization) ==
  [seed |-> i, spelling |-> SeedSpelling[i], visibility |-> "organization",
   organization |-> organization, owner |-> Nobody, department |-> NoDepartment,
   objected |-> FALSE]

Missing == SeedIds \ {contacts[i].seed : i \in DOMAIN contacts}

\* The seeds are stored in an order of their own, which decides nothing.
Start ==
  /\ ~up /\ up' = TRUE
  /\ \E rows \in [1 .. Cardinality(Missing) -> {SeedRow(i, Default) : i \in Missing}] :
       /\ \A i \in Missing : \E n \in DOMAIN rows : rows[n].seed = i
       /\ contacts' = [i \in DOMAIN contacts |-> Refreshed(contacts[i])] \o rows
  /\ UNCHANGED <<letters, objections>>

\* A store from before tenants may hold seeded contacts of no organization.
Init ==
  /\ contacts \in {<<>>} \cup
       {<<[SeedRow(i, LegacyOrganization) EXCEPT !.objected = b]>> : i \in SeedIds, b \in BOOLEAN}
  /\ letters \in [Letters ->
       {[stage |-> "none", spelling |-> s, by |-> Nobody, late |-> FALSE] : s \in Spellings}]
  /\ objections = {Refreshed(contacts[i]) : i \in {j \in DOMAIN contacts : contacts[j].objected}}
  /\ up = FALSE

Next ==
  \/ \E u \in Users :
       \/ \E s \in Spellings, visibility \in {"personal", "department", "organization"} :
            AddContact(u, s, visibility)
       \/ \E i \in DOMAIN contacts : OptOut(u, i)
       \/ \E l \in Letters :
            RequestLetter(l, u) \/ \E s \in Spellings : Draft(l, u, s)
  \/ \E l \in Letters : FinishLetter(l)
  \/ Crash
  \/ Start

Spec == Init /\ [][Next]_vars

-----------------------------------------------------------------------------
(* What holds.                                                              *)

\* An objection is permanent: nobody who could see the contact it was recorded
\* on is ever permitted to write to its address again, however the address is
\* written, whatever contacts are added later and however often the seeded
\* ones are refreshed (privacy_contacts.py:118-130, 168-195, 276-308).
ObjectionIsPermanent == up =>
  \A o \in objections, u \in Users, s \in Spellings :
    Visible(o, u) /\ Address[s] = Address[o.spelling] => ~Permitted(u, s)

\* A letter is rendered only for somebody who may write to its address, written
\* draft or not, unless the objection was recorded after he had asked for it
\* (server.py:2376-2393).
LetterOnlyIfClear ==
  \A l \in Letters :
    Rendering(l) /\ ~letters[l].late => Permitted(letters[l].by, letters[l].spelling)
=============================================================================
