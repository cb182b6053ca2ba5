------------------------- MODULE ComponentRegistry -------------------------
(***************************************************************************)
(* core/prompts.py and core/skills.py: the two registries of versioned,    *)
(* shared components, behind the routes of web/server.py.                  *)
(*                                                                         *)
(* Whether a component is still in use is not known here: Library asks     *)
(* before one is deleted, as the routes do.                                *)
(***************************************************************************)
EXTENDS Naturals

CONSTANTS
  Principals,    \* verified actors
  System,        \* the owner of shipped components
  Legacy,        \* the owner of rows from before tenants
  Organization,  \* Organization[o]: the tenant of an owner
  Departments, NoDepartment,
  Department,    \* Department[u], or NoDepartment
  Editors,       \* holders of the capabilities to edit foreign components
  Publishers,    \* holders of component.publish.global
  Named,         \* those whose profile is among a restricted prompt's allowed_roles
  Visibilities,  \* the visibilities that get set
  Prompts, Skills,
  SeedText,      \* SeedText[p] of the shipped prompts
  Held,          \* Held[p]: the id a legacy row of the seed p is moved to
  Bundled,       \* the skills of the skills directory
  Fallback,      \* the skills seeded when there is no directory
  Numbers, FirstNumber, Texts,
  NoRow,         \* what a store returns for an id it does not hold
  MaxClock       \* bound on the versions ever written

Seeds == DOMAIN SeedText
Owners == Principals \cup {System, Legacy}
AllVisibilities == {"private", "department", "organization", "restricted", "public"}

ASSUME RegistryAssumption ==
  /\ {System, Legacy} \cap Principals = {} /\ System # Legacy
  /\ \A u \in Principals : Organization[u] # Organization[Legacy]
  /\ NoDepartment \in Departments /\ Department \in [Principals -> Departments]
  /\ Visibilities \subseteq AllVisibilities
  /\ SeedText \in [Seeds -> Texts] /\ Seeds \subseteq Prompts
  /\ Held \in [Seeds -> Prompts \ Seeds]
  /\ \A p, q \in Seeds : Held[p] = Held[q] => p = q
  /\ Fallback \subseteq Bundled /\ Bundled \subseteq Skills
  /\ FirstNumber \in Numbers
  /\ MaxClock \in Nat \ {0}

VARIABLES
  prompts,  \* the prompt store
  skills,   \* the skill store, which the registry's dictionary mirrors
  clock     \* the time stamp of the latest version

registry == <<prompts, skills, clock>>

\* A prompt's versions are a list in the order of their time stamps.
Versions == [at : Nat, number : Numbers, text : Texts]

PromptRows ==
  [owner : Owners, visibility : AllVisibilities, department : Departments,
   versions : SUBSET Versions, active : Numbers, text : Texts]

SkillRows ==
  [owner : Owners, visibility : AllVisibilities, department : Departments,
   number : Numbers]

ASSUME NoRowAssumption == NoRow \notin PromptRows \cup SkillRows

StoredPrompt(p) == prompts[p] # NoRow
StoredSkill(k) == skills[k] # NoRow

-----------------------------------------------------------------------------
(* Access, the same in both registries.                                     *)

\* can_read; a restricted skill names nobody, no route gives it roles or users.
Readable(row, named, u) ==
  \/ row.visibility = "public"
  \/ /\ Organization[row.owner] = Organization[u]
     /\ \/ row.owner = u
        \/ row.visibility = "organization"
        \/ row.visibility = "department" /\ row.department # NoDepartment
             /\ row.department = Department[u]
        \/ row.visibility = "restricted" /\ u \in named

Editable(row, u) ==
  /\ Organization[row.owner] = Organization[u]
  /\ row.owner = u \/ u \in Editors

\* The department a component is shared with is its editor's.
SharedWith(u, visibility) ==
  IF visibility = "department" THEN Department[u] ELSE NoDepartment

Allowed(u, visibility) ==
  /\ visibility = "department" => Department[u] # NoDepartment
  /\ visibility = "public" => u \in Publishers

NextVersion ==
  /\ clock < MaxClock
  /\ clock' = clock + 1

-----------------------------------------------------------------------------
(* Versions.                                                                *)

HasNumber(row, n) == \E v \in row.versions : v.number = n

\* Mistake: the last one wins.
ResolvesToLast(row, n, text) ==
  \E v \in row.versions :
    /\ v.number = n /\ v.text = text
    /\ \A w \in row.versions : w.number = n => w.at <= v.at

\* get_version: the first in the list with the number, numbers may repeat.
Resolves(row, n, text) ==
  \E v \in row.versions :
    /\ v.number = n /\ v.text = text
    /\ \A w \in row.versions : w.number = n => v.at <= w.at

Newest(versions, v) == v \in versions /\ \A w \in versions : w.at <= v.at

NewPrompt(u, visibility, at, text) ==
  [owner |-> u, visibility |-> visibility, department |-> NoDepartment,
   versions |-> {[at |-> at, number |-> FirstNumber, text |-> text]},
   active |-> FirstNumber, text |-> text]

-----------------------------------------------------------------------------
(* Prompts.                                                                 *)

CreatePrompt(u, p, visibility, text) ==
  /\ NextVersion /\ ~StoredPrompt(p) /\ Allowed(u, visibility)
  /\ prompts' = [prompts EXCEPT ![p] =
       [NewPrompt(u, visibility, clock', text) EXCEPT
          !.department = SharedWith(u, visibility)]]
  /\ UNCHANGED skills

AddPromptVersion(u, p, n, text) ==
  /\ NextVersion /\ StoredPrompt(p) /\ Editable(prompts[p], u)
  /\ prompts' = [prompts EXCEPT
       ![p].versions = @ \cup {[at |-> clock', number |-> n, text |-> text]},
       ![p].active = n, ![p].text = text]
  /\ UNCHANGED skills

\* Mistake: the active version is left as it was.
DeleteOldVersion(u, p, n) ==
  /\ StoredPrompt(p) /\ Readable(prompts[p], Named, u) /\ Editable(prompts[p], u)
  /\ HasNumber(prompts[p], n)
  /\ \E v, w \in prompts[p].versions : v # w
  /\ prompts' = [prompts EXCEPT ![p].versions = {v \in @ : v.number # n}]
  /\ UNCHANGED <<skills, clock>>

\* Every version with the number goes.  When the active one is among them the
\* newest that is left takes over, and there has to be one.
DeletePromptVersion(u, p, n) ==
  /\ StoredPrompt(p) /\ Readable(prompts[p], Named, u) /\ Editable(prompts[p], u)
  /\ HasNumber(prompts[p], n)
  /\ \E v, w \in prompts[p].versions : v # w
  /\ LET kept == {v \in prompts[p].versions : v.number # n} IN
       IF prompts[p].active = n
       THEN \E v \in kept :
              /\ Newest(kept, v)
              /\ prompts' = [prompts EXCEPT ![p].versions = kept,
                                            ![p].active = v.number, ![p].text = v.text]
       ELSE prompts' = [prompts EXCEPT ![p].versions = kept]
  /\ UNCHANGED <<skills, clock>>

DeletePrompt(u, p) ==
  /\ StoredPrompt(p) /\ Readable(prompts[p], Named, u) /\ Editable(prompts[p], u)
  /\ prompts' = [prompts EXCEPT ![p] = NoRow]
  /\ UNCHANGED <<skills, clock>>

SharePrompt(u, p, visibility) ==
  /\ StoredPrompt(p) /\ Editable(prompts[p], u) /\ Allowed(u, visibility)
  /\ prompts' = [prompts EXCEPT ![p].visibility = visibility,
                                ![p].department = SharedWith(u, visibility)]
  /\ UNCHANGED <<skills, clock>>

-----------------------------------------------------------------------------
(* Skills.  Nothing pins a version of a skill, and its text stays.          *)

CreateSkill(u, k) ==
  /\ ~StoredSkill(k)
  /\ skills' = [skills EXCEPT ![k] =
       [owner |-> u, visibility |-> "private", department |-> NoDepartment,
        number |-> FirstNumber]]
  /\ UNCHANGED <<prompts, clock>>

AddSkillVersion(u, k, n) ==
  /\ StoredSkill(k) /\ Editable(skills[k], u)
  /\ skills' = [skills EXCEPT ![k].number = n]
  /\ UNCHANGED <<prompts, clock>>

DeleteSkill(u, k) ==
  /\ StoredSkill(k) /\ Readable(skills[k], {}, u) /\ Editable(skills[k], u)
  /\ skills' = [skills EXCEPT ![k] = NoRow]
  /\ UNCHANGED <<prompts, clock>>

ShareSkill(u, k, visibility) ==
  /\ StoredSkill(k) /\ Editable(skills[k], u) /\ Allowed(u, visibility)
  /\ skills' = [skills EXCEPT ![k].visibility = visibility,
                              ![k].department = SharedWith(u, visibility)]
  /\ UNCHANGED <<prompts, clock>>

-----------------------------------------------------------------------------
(* A start of the process seeds both registries.                            *)

SeedRow(p) == NewPrompt(System, "organization", 0, SeedText[p])

\* A row from before tenants is the shipped prompt only if its content says so.
Canonical(p) == prompts[p] = [SeedRow(p) EXCEPT !.owner = Legacy]

Collides(p) == StoredPrompt(p) /\ prompts[p].owner = Legacy /\ ~Canonical(p)

\* Mistake: every row from before tenants is taken for the shipped one.
Overwritten ==
  [p \in Prompts |->
     IF p \in Seeds /\ ~(StoredPrompt(p) /\ prompts[p].owner # Legacy)
     THEN SeedRow(p) ELSE prompts[p]]

SeededPrompts ==
  [p \in Prompts |->
     IF p \in Seeds
     THEN IF StoredPrompt(p) /\ prompts[p].owner # Legacy THEN prompts[p] ELSE SeedRow(p)
     ELSE IF \E q \in Seeds : Held[q] = p /\ Collides(q)
     THEN [prompts[CHOOSE q \in Seeds : Held[q] = p] EXCEPT
             !.visibility = "private", !.department = NoDepartment]
     ELSE prompts[p]]

SeededSkills(shipped) ==
  [k \in Skills |->
     IF k \notin shipped THEN skills[k]
     ELSE IF ~StoredSkill(k)
     THEN [owner |-> System, visibility |-> "organization",
           department |-> NoDepartment, number |-> FirstNumber]
     ELSE IF skills[k].owner = Legacy THEN [skills[k] EXCEPT !.owner = System]
     ELSE skills[k]]

\* Without its directory a registry that holds skills leaves them alone.
Seed ==
  /\ prompts' = SeededPrompts
  /\ skills' \in {SeededSkills(Bundled),
                  IF \E k \in Skills : StoredSkill(k) THEN skills ELSE SeededSkills(Fallback)}
  /\ UNCHANGED clock

-----------------------------------------------------------------------------

\* What a program without tenants may have left under a shipped id.
LegacyRow(p, text) == NewPrompt(Legacy, "organization", 0, text)

LegacySkill ==
  [owner |-> Legacy, visibility |-> "organization", department |-> NoDepartment,
   number |-> FirstNumber]

InitRegistry ==
  /\ \E found \in SUBSET Seeds, text \in [Seeds -> Texts] :
       prompts = [p \in Prompts |->
         IF p \in found THEN LegacyRow(p, text[p]) ELSE NoRow]
  /\ \E found \in SUBSET Bundled :
       skills = [k \in Skills |-> IF k \in found THEN LegacySkill ELSE NoRow]
  /\ clock = 1

TypeOKRegistry ==
  /\ prompts \in [Prompts -> PromptRows \cup {NoRow}]
  /\ skills \in [Skills -> SkillRows \cup {NoRow}]
  /\ clock \in Nat
=============================================================================
