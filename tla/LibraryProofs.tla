--------------------------- MODULE LibraryProofs ---------------------------
(***************************************************************************)
(* What Library promises, for any principals, components, templates,       *)
(* sessions and calls.                                                     *)
(***************************************************************************)
EXTENDS Library, FiniteSetTheorems, TLAPS

-----------------------------------------------------------------------------
(* The registries.                                                          *)

\* The versions of a prompt have time stamps of their own, none in the future.
StampedRow(row, t) ==
  \A v, w \in row.versions : v.at <= t /\ (v.at = w.at => v = w)

Stamped == \A p \in Prompts : StoredPrompt(p) => StampedRow(prompts[p], clock)

ActiveNewest(row) ==
  \E v \in row.versions :
    Newest(row.versions, v) /\ v.number = row.active /\ v.text = row.text

RegistryOK == TypeOKRegistry /\ Stamped /\ ActiveIsNewest

\* Whoever refers to old by a number finds in new what it found in old.
KeepsRow(old, new) ==
  \A n : /\ HasNumber(old, n) => HasNumber(new, n)
         /\ \A text : Resolves(old, n, text) => Resolves(new, n, text)

\* A step after which every reference into the registries means what it meant.
Grows ==
  /\ \A k \in Skills : StoredSkill(k) => StoredSkill(k)'
  /\ \A p \in Prompts : StoredPrompt(p) => StoredPrompt(p)' /\ KeepsRow(prompts[p], prompts'[p])

LEMMA SameVersions ==
  ASSUME NEW old, NEW new, new.versions = old.versions
  PROVE  KeepsRow(old, new)
BY DEF KeepsRow, HasNumber, Resolves

LEMMA StoredRow ==
  ASSUME TypeOKRegistry, NEW p \in Prompts, StoredPrompt(p)
  PROVE  prompts[p] \in PromptRows
BY DEF TypeOKRegistry, StoredPrompt

LEMMA RowIsStored == \A row \in PromptRows : row # NoRow
BY NoRowAssumption

\* One row is written.
LEMMA WriteRow ==
  ASSUME RegistryOK, NEW p \in Prompts, NEW row \in PromptRows,
         prompts' = [prompts EXCEPT ![p] = row], skills' = skills,
         clock' \in Nat, clock <= clock',
         StampedRow(row, clock'), ActiveNewest(row)
  PROVE  RegistryOK'
<1>1. TypeOKRegistry'
  BY DEF RegistryOK, TypeOKRegistry
<1>2. \A q \in Prompts : prompts'[q] = IF q = p THEN row ELSE prompts[q]
  BY DEF RegistryOK, TypeOKRegistry
<1>3. Stamped'
  <2> SUFFICES ASSUME NEW q \in Prompts, StoredPrompt(q)' PROVE StampedRow(prompts'[q], clock')
    BY DEF Stamped
  <2>1. CASE q = p
    BY <1>2, <2>1
  <2>2. CASE q # p
    <3>1. prompts'[q] = prompts[q] /\ StoredPrompt(q)
      BY <1>2, <2>2 DEF StoredPrompt
    <3>2. StampedRow(prompts[q], clock) /\ prompts[q] \in PromptRows /\ clock \in Nat
      BY <3>1, StoredRow DEF RegistryOK, Stamped, TypeOKRegistry
    <3>3. \A v \in prompts[q].versions : v.at \in Nat
      BY <3>2 DEF PromptRows, Versions
    <3> QED BY <3>1, <3>2, <3>3 DEF StampedRow
  <2> QED BY <2>1, <2>2
<1>4. ActiveIsNewest'
  BY <1>2 DEF RegistryOK, ActiveIsNewest, ActiveNewest, StoredPrompt
<1> QED BY <1>1, <1>3, <1>4 DEF RegistryOK

LEMMA WriteGrows ==
  ASSUME RegistryOK, NEW p \in Prompts, NEW row \in PromptRows,
         prompts' = [prompts EXCEPT ![p] = row], skills' = skills,
         StoredPrompt(p) => KeepsRow(prompts[p], row)
  PROVE  Grows
<1>1. \A q \in Prompts : prompts'[q] = IF q = p THEN row ELSE prompts[q]
  BY DEF RegistryOK, TypeOKRegistry
<1>2. row # NoRow
  BY RowIsStored
<1>3. \A q \in Prompts : KeepsRow(prompts[q], prompts[q])
  BY SameVersions
<1> QED BY <1>1, <1>2, <1>3 DEF Grows, StoredPrompt, StoredSkill

LEMMA NewPromptRow ==
  ASSUME NEW u \in Owners, NEW visibility \in AllVisibilities, NEW at \in Nat, NEW text \in Texts
  PROVE  LET row == NewPrompt(u, visibility, at, text) IN
           /\ row \in PromptRows /\ ActiveNewest(row)
           /\ \A t \in Nat : at <= t => StampedRow(row, t)
<1> DEFINE row == NewPrompt(u, visibility, at, text)
           v0 == [at |-> at, number |-> FirstNumber, text |-> text]
<1>1. row.versions = {v0} /\ row.active = FirstNumber /\ row.text = text
  BY DEF NewPrompt
<1>2. row \in PromptRows
  BY RegistryAssumption DEF NewPrompt, PromptRows, Versions
<1>3. ActiveNewest(row)
  BY <1>1 DEF ActiveNewest, Newest
<1>4. \A t \in Nat : at <= t => StampedRow(row, t)
  BY <1>1 DEF StampedRow
<1> QED BY <1>2, <1>3, <1>4

LEMMA CreatePromptStep ==
  ASSUME RegistryOK, NEW u \in Principals, NEW p \in Prompts, NEW visibility \in Visibilities,
         NEW text \in Texts, CreatePrompt(u, p, visibility, text)
  PROVE  RegistryOK' /\ Grows
<1> DEFINE new == NewPrompt(u, visibility, clock', text)
           row == [new EXCEPT !.department = SharedWith(u, visibility)]
<1>1. /\ clock \in Nat /\ clock' = clock + 1 /\ ~StoredPrompt(p)
      /\ prompts' = [prompts EXCEPT ![p] = row] /\ skills' = skills
  BY DEF CreatePrompt, NextVersion, RegistryOK, TypeOKRegistry
<1>2. u \in Owners /\ visibility \in AllVisibilities /\ SharedWith(u, visibility) \in Departments
  BY RegistryAssumption DEF Owners, SharedWith
<1>3. new \in PromptRows /\ ActiveNewest(new) /\ StampedRow(new, clock')
  BY <1>1, <1>2, NewPromptRow
<1>4. row \in PromptRows /\ row.versions = new.versions /\ row.active = new.active /\ row.text = new.text
  BY <1>2, <1>3 DEF PromptRows
<1>5. ActiveNewest(row) /\ StampedRow(row, clock')
  BY <1>3, <1>4 DEF ActiveNewest, StampedRow
<1> HIDE DEF row
<1>6. clock' \in Nat /\ clock <= clock' /\ (StoredPrompt(p) => KeepsRow(prompts[p], row))
  BY <1>1
<1>7. RegistryOK'
  BY <1>1, <1>4, <1>5, <1>6, WriteRow, Zenon
<1> QED BY <1>1, <1>4, <1>6, <1>7, WriteGrows, Zenon

LEMMA AddPromptVersionStep ==
  ASSUME RegistryOK, NEW u \in Principals, NEW p \in Prompts, NEW n \in Numbers,
         NEW text \in Texts, AddPromptVersion(u, p, n, text)
  PROVE  RegistryOK' /\ Grows /\ prompts'[p].owner = prompts[p].owner
<1> DEFINE old == prompts[p]
           v0 == [at |-> clock', number |-> n, text |-> text]
           row == [old EXCEPT !.versions = @ \cup {v0}, !.active = n, !.text = text]
<1>1. clock \in Nat /\ clock' = clock + 1 /\ StoredPrompt(p) /\ skills' = skills
  BY DEF AddPromptVersion, NextVersion, RegistryOK, TypeOKRegistry
<1>2. old \in PromptRows /\ StampedRow(old, clock)
  BY <1>1, StoredRow DEF RegistryOK, Stamped
<1>3. prompts' = [prompts EXCEPT ![p] = row]
  BY <1>2 DEF AddPromptVersion, RegistryOK, TypeOKRegistry, PromptRows
<1>4. v0 \in Versions
  BY <1>1 DEF Versions
<1>5. /\ row \in PromptRows /\ row.versions = old.versions \cup {v0}
      /\ row.active = n /\ row.text = text /\ row.owner = old.owner /\ prompts'[p] = row
  BY <1>2, <1>3, <1>4 DEF PromptRows, RegistryOK, TypeOKRegistry
<1>6. v0.at = clock' /\ v0.number = n /\ v0.text = text
  OBVIOUS
<1>7. \A v \in old.versions : v.at \in Nat /\ v.at < clock'
  BY <1>1, <1>2 DEF PromptRows, Versions, StampedRow
<1> HIDE DEF row, v0
<1>8. StampedRow(row, clock')
  BY <1>1, <1>2, <1>5, <1>6, <1>7 DEF StampedRow
<1>9. ActiveNewest(row)
  BY <1>1, <1>5, <1>6, <1>7 DEF ActiveNewest, Newest
<1>10. KeepsRow(old, row)
  BY <1>1, <1>5, <1>6, <1>7 DEF KeepsRow, HasNumber, Resolves
<1>11. clock' \in Nat /\ clock <= clock'
  BY <1>1
<1>12. RegistryOK'
  BY <1>1, <1>3, <1>5, <1>8, <1>9, <1>11, WriteRow, Zenon
<1>13. Grows
  BY <1>1, <1>3, <1>5, <1>10, <1>12, WriteGrows, Zenon
<1> QED BY <1>5, <1>12, <1>13

LEMMA SharePromptStep ==
  ASSUME RegistryOK, NEW u \in Principals, NEW p \in Prompts, NEW visibility \in Visibilities,
         SharePrompt(u, p, visibility)
  PROVE  RegistryOK' /\ Grows
<1> DEFINE old == prompts[p]
           row == [old EXCEPT !.visibility = visibility, !.department = SharedWith(u, visibility)]
<1>1. clock \in Nat /\ clock' = clock /\ StoredPrompt(p) /\ skills' = skills
  BY DEF SharePrompt, RegistryOK, TypeOKRegistry
<1>2. old \in PromptRows /\ StampedRow(old, clock) /\ ActiveNewest(old)
  BY <1>1, StoredRow DEF RegistryOK, Stamped, ActiveIsNewest, ActiveNewest
<1>3. prompts' = [prompts EXCEPT ![p] = row]
  BY <1>2 DEF SharePrompt, RegistryOK, TypeOKRegistry, PromptRows
<1>4. visibility \in AllVisibilities /\ SharedWith(u, visibility) \in Departments
  BY RegistryAssumption DEF SharedWith
<1>5. row \in PromptRows /\ row.versions = old.versions /\ row.active = old.active /\ row.text = old.text
  BY <1>2, <1>4 DEF PromptRows
<1> HIDE DEF row
<1>6. StampedRow(row, clock') /\ ActiveNewest(row)
  BY <1>1, <1>2, <1>5 DEF StampedRow, ActiveNewest
<1>7. KeepsRow(old, row)
  BY <1>5, SameVersions
<1>8. clock' \in Nat /\ clock <= clock'
  BY <1>1
<1>9. RegistryOK'
  BY <1>1, <1>3, <1>5, <1>6, <1>8, WriteRow, Zenon
<1> QED BY <1>1, <1>3, <1>5, <1>7, <1>9, WriteGrows, Zenon

\* What is left when a number is taken from a prompt.
LEMMA DeletePromptVersionStep ==
  ASSUME RegistryOK, NEW u \in Principals, NEW p \in Prompts, NEW n \in Numbers,
         DeletePromptVersion(u, p, n)
  PROVE  /\ RegistryOK' /\ skills' = skills
         /\ \A q \in Prompts : q # p => prompts'[q] = prompts[q]
         /\ StoredPrompt(p) /\ StoredPrompt(p)' /\ prompts'[p].owner = prompts[p].owner
         /\ \A m : m # n =>
              /\ HasNumber(prompts[p], m) => HasNumber(prompts'[p], m)
              /\ \A text : Resolves(prompts[p], m, text) => Resolves(prompts'[p], m, text)
<1> DEFINE old == prompts[p]
           kept == {v \in old.versions : v.number # n}
<1>1. clock \in Nat /\ clock' = clock /\ StoredPrompt(p) /\ skills' = skills
  BY DEF DeletePromptVersion, RegistryOK, TypeOKRegistry
<1>2. old \in PromptRows /\ StampedRow(old, clock) /\ ActiveNewest(old)
  BY <1>1, StoredRow DEF RegistryOK, Stamped, ActiveIsNewest, ActiveNewest
<1>3. \E row \in PromptRows :
        /\ prompts' = [prompts EXCEPT ![p] = row]
        /\ row.versions = kept /\ row.owner = old.owner /\ ActiveNewest(row)
  <2>1. CASE old.active = n
    <3>1. PICK v \in kept :
            /\ Newest(kept, v)
            /\ prompts' = [prompts EXCEPT ![p].versions = kept,
                                          ![p].active = v.number, ![p].text = v.text]
      BY <2>1 DEF DeletePromptVersion
    <3> DEFINE row == [old EXCEPT !.versions = kept, !.active = v.number, !.text = v.text]
    <3>2. v.number \in Numbers /\ v.text \in Texts
      BY <1>2 DEF PromptRows, Versions
    <3>3. /\ row \in PromptRows /\ row.versions = kept
          /\ row.active = v.number /\ row.text = v.text /\ row.owner = old.owner
      BY <1>2, <3>2 DEF PromptRows
    <3>4. prompts' = [prompts EXCEPT ![p] = row]
      BY <1>2, <3>1 DEF RegistryOK, TypeOKRegistry, PromptRows
    <3> HIDE DEF row
    <3>5. ActiveNewest(row)
      BY <3>1, <3>3 DEF ActiveNewest
    <3> QED BY <3>3, <3>4, <3>5
  <2>2. CASE old.active # n
    <3> DEFINE row == [old EXCEPT !.versions = kept]
    <3>1. /\ row \in PromptRows /\ row.versions = kept
          /\ row.active = old.active /\ row.text = old.text /\ row.owner = old.owner
      BY <1>2 DEF PromptRows
    <3>2. prompts' = [prompts EXCEPT ![p] = row]
      BY <1>2, <2>2 DEF DeletePromptVersion, RegistryOK, TypeOKRegistry, PromptRows
    <3> HIDE DEF row
    <3>3. ActiveNewest(row)
      BY <1>2, <2>2, <3>1 DEF ActiveNewest, Newest
    <3> QED BY <3>1, <3>2, <3>3
  <2> QED BY <2>1, <2>2
<1>4. PICK row \in PromptRows :
        /\ prompts' = [prompts EXCEPT ![p] = row]
        /\ row.versions = kept /\ row.owner = old.owner /\ ActiveNewest(row)
  BY <1>3
<1>5. StampedRow(row, clock')
  BY <1>1, <1>2, <1>4 DEF StampedRow
<1>6. RegistryOK'
  <2>1. clock' \in Nat /\ clock <= clock'
    BY <1>1
  <2> QED BY <2>1, <1>1, <1>4, <1>5, WriteRow, Zenon
<1>7. /\ \A q \in Prompts : q # p => prompts'[q] = prompts[q]
      /\ prompts'[p] = row /\ row # NoRow
  BY <1>4, RowIsStored DEF RegistryOK, TypeOKRegistry
<1>8. \A m : m # n =>
        /\ HasNumber(old, m) => HasNumber(row, m)
        /\ \A text : Resolves(old, m, text) => Resolves(row, m, text)
  BY <1>4 DEF HasNumber, Resolves
<1> QED BY <1>1, <1>4, <1>6, <1>7, <1>8 DEF StoredPrompt

LEMMA DeletePromptStep ==
  ASSUME RegistryOK, NEW u \in Principals, NEW p \in Prompts, DeletePrompt(u, p)
  PROVE  /\ RegistryOK' /\ skills' = skills
         /\ \A q \in Prompts : q # p => prompts'[q] = prompts[q]
         /\ ~StoredPrompt(p)'
<1>1. /\ \A q \in Prompts : prompts'[q] = IF q = p THEN NoRow ELSE prompts[q]
      /\ prompts' \in [Prompts -> PromptRows \cup {NoRow}]
      /\ skills' = skills /\ clock' = clock
  BY DEF DeletePrompt, RegistryOK, TypeOKRegistry
<1>2. TypeOKRegistry'
  BY <1>1 DEF RegistryOK, TypeOKRegistry
<1>3. Stamped' /\ ActiveIsNewest'
  BY <1>1 DEF RegistryOK, Stamped, ActiveIsNewest, StoredPrompt
<1> QED BY <1>1, <1>2, <1>3 DEF RegistryOK, StoredPrompt

LEMMA SkillStep ==
  ASSUME RegistryOK, NEW u \in Principals, NEW k \in Skills,
         \/ CreateSkill(u, k)
         \/ \E n \in Numbers : AddSkillVersion(u, k, n)
         \/ \E visibility \in Visibilities : ShareSkill(u, k, visibility)
  PROVE  RegistryOK' /\ Grows
<1>1. \E row \in SkillRows :
        skills' = [skills EXCEPT ![k] = row] /\ UNCHANGED <<prompts, clock>>
  <2>1. CASE CreateSkill(u, k)
    <3> DEFINE row == [owner |-> u, visibility |-> "private", department |-> NoDepartment,
                       number |-> FirstNumber]
    <3>1. row \in SkillRows
      BY RegistryAssumption DEF SkillRows, Owners, AllVisibilities
    <3> QED BY <2>1, <3>1 DEF CreateSkill
  <2>2. CASE \E n \in Numbers : AddSkillVersion(u, k, n)
    <3>1. PICK n \in Numbers : AddSkillVersion(u, k, n)
      BY <2>2
    <3>2. skills[k] \in SkillRows
      BY <3>1 DEF AddSkillVersion, StoredSkill, RegistryOK, TypeOKRegistry
    <3> DEFINE row == [skills[k] EXCEPT !.number = n]
    <3>3. row \in SkillRows
      BY <3>2 DEF SkillRows
    <3>4. skills' = [skills EXCEPT ![k] = row] /\ UNCHANGED <<prompts, clock>>
      BY <3>1, <3>2 DEF AddSkillVersion, RegistryOK, TypeOKRegistry, SkillRows
    <3> QED BY <3>3, <3>4
  <2>3. CASE \E visibility \in Visibilities : ShareSkill(u, k, visibility)
    <3>1. PICK visibility \in Visibilities : ShareSkill(u, k, visibility)
      BY <2>3
    <3>2. skills[k] \in SkillRows
      BY <3>1 DEF ShareSkill, StoredSkill, RegistryOK, TypeOKRegistry
    <3> DEFINE row == [skills[k] EXCEPT !.visibility = visibility,
                                        !.department = SharedWith(u, visibility)]
    <3>3. visibility \in AllVisibilities /\ SharedWith(u, visibility) \in Departments
      BY RegistryAssumption DEF SharedWith
    <3>4. row \in SkillRows
      BY <3>2, <3>3 DEF SkillRows
    <3>5. skills' = [skills EXCEPT ![k] = row] /\ UNCHANGED <<prompts, clock>>
      BY <3>1, <3>2 DEF ShareSkill, RegistryOK, TypeOKRegistry, SkillRows
    <3> QED BY <3>4, <3>5
  <2> QED BY <2>1, <2>2, <2>3
<1>2. PICK row \in SkillRows :
        skills' = [skills EXCEPT ![k] = row] /\ UNCHANGED <<prompts, clock>>
  BY <1>1
<1>3. /\ skills' \in [Skills -> SkillRows \cup {NoRow}]
      /\ \A j \in Skills : skills'[j] = IF j = k THEN row ELSE skills[j]
      /\ row # NoRow
  BY <1>2, NoRowAssumption DEF RegistryOK, TypeOKRegistry
<1>4. RegistryOK'
  BY <1>2, <1>3 DEF RegistryOK, TypeOKRegistry, Stamped, ActiveIsNewest, StoredPrompt
<1>5. \A p \in Prompts : KeepsRow(prompts[p], prompts'[p])
  BY <1>2, SameVersions
<1> QED BY <1>2, <1>3, <1>4, <1>5 DEF Grows, StoredSkill, StoredPrompt

LEMMA DeleteSkillStep ==
  ASSUME RegistryOK, NEW u \in Principals, NEW k \in Skills, DeleteSkill(u, k)
  PROVE  /\ RegistryOK' /\ UNCHANGED prompts
         /\ \A j \in Skills : j # k => skills'[j] = skills[j]
<1>1. /\ skills' \in [Skills -> SkillRows \cup {NoRow}]
      /\ \A j \in Skills : j # k => skills'[j] = skills[j]
      /\ UNCHANGED <<prompts, clock>>
  BY DEF DeleteSkill, RegistryOK, TypeOKRegistry
<1> QED BY <1>1 DEF RegistryOK, TypeOKRegistry, Stamped, ActiveIsNewest, StoredPrompt

-----------------------------------------------------------------------------
(* A start.                                                                 *)

\* Since its first start no shipped prompt is a row from before tenants.
SeedsOwned == \A p \in Seeds : StoredPrompt(p) => prompts[p].owner # Legacy

\* Before it there is nothing but such rows.
OnlySeeds == \A p \in Prompts \ Seeds : ~StoredPrompt(p)

\* What a start can make of a prompt: nothing, a shipped one, or the row that
\* was in the way of one.
LEMMA SeededCases ==
  ASSUME TypeOKRegistry, Seed, NEW p \in Prompts
  PROVE  \/ /\ prompts'[p] = prompts[p]
            /\ p \in Seeds => StoredPrompt(p) /\ prompts[p].owner # Legacy
         \/ /\ p \in Seeds /\ prompts'[p] = SeedRow(p)
            /\ StoredPrompt(p) => prompts[p].owner = Legacy
         \/ /\ p \notin Seeds
            /\ \E q \in Seeds :
                 /\ Held[q] = p /\ Collides(q)
                 /\ prompts'[p] = [prompts[q] EXCEPT !.visibility = "private",
                                                     !.department = NoDepartment]
<1>1. prompts'[p] = SeededPrompts[p]
  BY DEF Seed
<1>2. CASE p \in Seeds
  BY <1>1, <1>2 DEF SeededPrompts
<1>3. CASE p \notin Seeds /\ \E q \in Seeds : Held[q] = p /\ Collides(q)
  <2> DEFINE held == CHOOSE q \in Seeds : Held[q] = p
  <2>1. held \in Seeds /\ Held[held] = p
    BY <1>3
  <2>2. Collides(held)
    BY <1>3, <2>1, RegistryAssumption
  <2>3. prompts'[p] = [prompts[held] EXCEPT !.visibility = "private", !.department = NoDepartment]
    BY <1>1, <1>3 DEF SeededPrompts
  <2> HIDE DEF held
  <2> QED BY <1>3, <2>1, <2>2, <2>3
<1>4. CASE p \notin Seeds /\ ~\E q \in Seeds : Held[q] = p /\ Collides(q)
  BY <1>1, <1>4 DEF SeededPrompts
<1> QED BY <1>2, <1>3, <1>4

LEMMA SeedRowOK ==
  ASSUME NEW p \in Seeds
  PROVE  /\ SeedRow(p) \in PromptRows /\ ActiveNewest(SeedRow(p)) /\ SeedRow(p).owner = System
         /\ \A t \in Nat : StampedRow(SeedRow(p), t)
<1>1. System \in Owners /\ "organization" \in AllVisibilities /\ SeedText[p] \in Texts /\ 0 \in Nat
  BY RegistryAssumption DEF Owners, AllVisibilities
<1>2. /\ SeedRow(p) \in PromptRows /\ ActiveNewest(SeedRow(p))
      /\ \A t \in Nat : 0 <= t => StampedRow(SeedRow(p), t)
  BY <1>1, NewPromptRow DEF SeedRow
<1>3. SeedRow(p).owner = System
  BY DEF SeedRow, NewPrompt
<1> QED BY <1>2, <1>3

LEMMA SeedStep ==
  ASSUME RegistryOK, Seed
  PROVE  RegistryOK' /\ SeedsOwned' /\ (SeedsOwned => Grows)
<1>1. clock' = clock /\ clock \in Nat
  BY DEF Seed, RegistryOK, TypeOKRegistry
<1>2. /\ skills' \in [Skills -> SkillRows \cup {NoRow}]
      /\ \A k \in Skills : StoredSkill(k) => StoredSkill(k)'
  <2>1. ASSUME NEW shipped, shipped \subseteq Skills
        PROVE  /\ SeededSkills(shipped) \in [Skills -> SkillRows \cup {NoRow}]
               /\ \A k \in Skills : StoredSkill(k) => SeededSkills(shipped)[k] # NoRow
    <3> DEFINE first == [owner |-> System, visibility |-> "organization",
                         department |-> NoDepartment, number |-> FirstNumber]
    <3>1. first \in SkillRows
      BY RegistryAssumption DEF SkillRows, Owners, AllVisibilities
    <3>2. ASSUME NEW k \in Skills, StoredSkill(k)
          PROVE  skills[k] \in SkillRows /\ [skills[k] EXCEPT !.owner = System] \in SkillRows
      <4>1. skills[k] \in SkillRows
        BY <3>2 DEF StoredSkill, RegistryOK, TypeOKRegistry
      <4> QED BY <4>1 DEF SkillRows, Owners
    <3>3. ASSUME NEW k \in Skills
          PROVE  /\ SeededSkills(shipped)[k] \in SkillRows \cup {NoRow}
                 /\ StoredSkill(k) => SeededSkills(shipped)[k] # NoRow
      <4> HIDE DEF first
      <4>1. SeededSkills(shipped)[k] \in
              {skills[k], first, [skills[k] EXCEPT !.owner = System]}
        BY DEF SeededSkills, first
      <4>2. ~StoredSkill(k) => SeededSkills(shipped)[k] \in {NoRow, first}
        BY DEF SeededSkills, first, StoredSkill
      <4> QED BY <3>1, <3>2, <4>1, <4>2, NoRowAssumption
    <3>4. SeededSkills(shipped) = [k \in Skills |-> SeededSkills(shipped)[k]]
      BY DEF SeededSkills
    <3> QED BY <3>3, <3>4
  <2>2. Bundled \subseteq Skills /\ Fallback \subseteq Skills
    BY RegistryAssumption
  <2>3. \/ skills' = SeededSkills(Bundled) \/ skills' = SeededSkills(Fallback) \/ skills' = skills
    BY DEF Seed
  <2> QED BY <2>1, <2>2, <2>3 DEF RegistryOK, TypeOKRegistry, StoredSkill
<1>3. ASSUME NEW p \in Prompts
      PROVE  /\ prompts'[p] \in PromptRows \cup {NoRow}
             /\ StoredPrompt(p)' => StampedRow(prompts'[p], clock') /\ ActiveNewest(prompts'[p])
             /\ p \in Seeds /\ StoredPrompt(p)' => prompts'[p].owner # Legacy
             /\ SeedsOwned /\ StoredPrompt(p) => prompts'[p] = prompts[p]
  <2>1. CASE /\ prompts'[p] = prompts[p]
             /\ p \in Seeds => StoredPrompt(p) /\ prompts[p].owner # Legacy
    BY <1>1, <2>1
    DEF RegistryOK, TypeOKRegistry, Stamped, ActiveIsNewest, ActiveNewest, StoredPrompt
  <2>2. CASE /\ p \in Seeds /\ prompts'[p] = SeedRow(p)
             /\ StoredPrompt(p) => prompts[p].owner = Legacy
    <3>1. /\ SeedRow(p) \in PromptRows /\ ActiveNewest(SeedRow(p)) /\ SeedRow(p).owner = System
          /\ StampedRow(SeedRow(p), clock')
      BY <1>1, <2>2, SeedRowOK
    <3> QED BY <2>2, <3>1, RegistryAssumption DEF SeedsOwned
  <2>3. CASE /\ p \notin Seeds
             /\ \E q \in Seeds :
                  /\ Held[q] = p /\ Collides(q)
                  /\ prompts'[p] = [prompts[q] EXCEPT !.visibility = "private",
                                                      !.department = NoDepartment]
    <3>1. PICK q \in Seeds :
            /\ Collides(q)
            /\ prompts'[p] = [prompts[q] EXCEPT !.visibility = "private",
                                                !.department = NoDepartment]
      BY <2>3
    <3>2. /\ q \in Prompts /\ StoredPrompt(q) /\ prompts[q].owner = Legacy
      BY <3>1, RegistryAssumption DEF Collides
    <3>3. /\ prompts[q] \in PromptRows /\ StampedRow(prompts[q], clock)
          /\ ActiveNewest(prompts[q])
      BY <3>2, StoredRow DEF RegistryOK, Stamped, ActiveIsNewest, ActiveNewest
    <3> DEFINE row == [prompts[q] EXCEPT !.visibility = "private", !.department = NoDepartment]
    <3>4. /\ row \in PromptRows /\ row.versions = prompts[q].versions
          /\ row.active = prompts[q].active /\ row.text = prompts[q].text
      BY <3>3, RegistryAssumption DEF PromptRows, AllVisibilities
    <3>5. prompts'[p] = row
      BY <3>1
    <3> HIDE DEF row
    <3>6. StampedRow(row, clock') /\ ActiveNewest(row)
      BY <1>1, <3>3, <3>4 DEF StampedRow, ActiveNewest
    <3> QED BY <2>3, <3>2, <3>4, <3>5, <3>6 DEF SeedsOwned
  <2> QED BY <2>1, <2>2, <2>3, SeededCases DEF RegistryOK
<1>4. TypeOKRegistry'
  <2>1. prompts' = [p \in Prompts |-> prompts'[p]]
    BY DEF Seed, SeededPrompts
  <2> QED BY <1>1, <1>2, <1>3, <2>1 DEF TypeOKRegistry
<1>5. RegistryOK'
  BY <1>3, <1>4 DEF RegistryOK, Stamped, ActiveIsNewest, ActiveNewest
<1>6. SeedsOwned'
  BY <1>3, RegistryAssumption DEF SeedsOwned
<1>7. ASSUME SeedsOwned PROVE Grows
  BY <1>2, <1>3, <1>7, SameVersions DEF Grows, StoredPrompt
<1> QED BY <1>5, <1>6, <1>7

\* Every text is found again after a start: where it was, or where it was moved.
LEMMA SeedKeepsTexts ==
  ASSUME RegistryOK, Seed, SeedsOwned \/ OnlySeeds, NEW p \in Prompts, StoredPrompt(p)
  PROVE  \E q \in Prompts : prompts'[q] # NoRow /\ prompts'[q].versions = prompts[p].versions
<1>1. prompts[p] \in PromptRows /\ TypeOKRegistry
  BY StoredRow DEF RegistryOK
<1>2. CASE prompts'[p] = prompts[p]
  BY <1>2 DEF StoredPrompt
<1>3. CASE p \in Seeds /\ prompts'[p] = SeedRow(p) /\ prompts[p].owner = Legacy
  <2>1. CASE Canonical(p)
    <3>1. SeedRow(p) \in PromptRows
      BY <1>3, SeedRowOK
    <3>2. prompts[p].versions = SeedRow(p).versions
      BY <2>1, <3>1 DEF Canonical, PromptRows
    <3> QED BY <1>3, <3>1, <3>2, RowIsStored
  <2>2. CASE ~Canonical(p)
    <3> DEFINE h == Held[p]
    <3>1. Collides(p) /\ h \in Prompts /\ h \notin Seeds
      BY <1>3, <2>2, RegistryAssumption DEF Collides
    <3>2. ~StoredPrompt(h)
      BY <1>3, <3>1 DEF SeedsOwned, OnlySeeds
    <3>3. PICK q \in Seeds :
            /\ Held[q] = h
            /\ prompts'[h] = [prompts[q] EXCEPT !.visibility = "private",
                                                !.department = NoDepartment]
      <4>1. prompts'[h] = SeededPrompts[h]
        BY DEF Seed
      <4> DEFINE held == CHOOSE q \in Seeds : Held[q] = h
      <4>2. held \in Seeds /\ Held[held] = h
        BY <1>3
      <4>3. prompts'[h] = [prompts[held] EXCEPT !.visibility = "private",
                                                !.department = NoDepartment]
        BY <1>3, <3>1, <4>1 DEF SeededPrompts
      <4> HIDE DEF held
      <4> QED BY <4>2, <4>3
    <3>4. q = p
      BY <1>3, <3>3, RegistryAssumption
    <3> DEFINE row == [prompts[p] EXCEPT !.visibility = "private", !.department = NoDepartment]
    <3>5. row \in PromptRows /\ row.versions = prompts[p].versions
      BY <1>1, RegistryAssumption DEF PromptRows, AllVisibilities
    <3>6. prompts'[h] = row
      BY <3>3, <3>4
    <3> HIDE DEF row, h
    <3> QED BY <3>1, <3>5, <3>6, RowIsStored
  <2> QED BY <2>1, <2>2
<1>4. CASE p \notin Seeds
  <2>1. SeedsOwned
    BY <1>4 DEF OnlySeeds
  <2>2. \A q \in Seeds : ~Collides(q)
    BY <2>1 DEF SeedsOwned, Collides
  <2> QED BY <1>1, <1>2, <1>4, <2>2, SeededCases
<1> QED BY <1>1, <1>2, <1>3, <1>4, SeededCases

\* Nobody who uses the program becomes the owner from before tenants.
LEMMA OwnersStay ==
  ASSUME RegistryOK, SeedsOwned, NEW u \in Principals, NEW p \in Prompts,
         \/ \E visibility \in Visibilities, text \in Texts : CreatePrompt(u, p, visibility, text)
         \/ \E n \in Numbers, text \in Texts : AddPromptVersion(u, p, n, text)
         \/ \E visibility \in Visibilities : SharePrompt(u, p, visibility)
         \/ \E n \in Numbers : DeletePromptVersion(u, p, n)
         \/ DeletePrompt(u, p)
  PROVE  SeedsOwned'
<1>1. \A q \in Prompts : q # p => prompts'[q] = prompts[q]
  BY DEF RegistryOK, TypeOKRegistry, CreatePrompt, AddPromptVersion, SharePrompt,
         DeletePromptVersion, DeletePrompt
<1>2. StoredPrompt(p)' => \/ StoredPrompt(p) /\ prompts'[p].owner = prompts[p].owner
                          \/ prompts'[p].owner \in Principals
  <2>1. CASE \E visibility \in Visibilities, text \in Texts : CreatePrompt(u, p, visibility, text)
    BY <2>1 DEF CreatePrompt, NewPrompt, RegistryOK, TypeOKRegistry
  <2>2. CASE DeletePrompt(u, p)
    BY <2>2 DEF DeletePrompt, StoredPrompt, RegistryOK, TypeOKRegistry
  <2>3. CASE \E n \in Numbers, text \in Texts : AddPromptVersion(u, p, n, text)
    <3>1. StoredPrompt(p)
      BY <2>3 DEF AddPromptVersion
    <3> QED BY <2>3, <3>1, AddPromptVersionStep
  <2>4. CASE \E visibility \in Visibilities : SharePrompt(u, p, visibility)
    <3>1. StoredPrompt(p)
      BY <2>4 DEF SharePrompt
    <3>2. prompts[p] \in PromptRows
      BY <3>1, StoredRow DEF RegistryOK
    <3> QED BY <2>4, <3>1, <3>2 DEF SharePrompt, RegistryOK, TypeOKRegistry, PromptRows
  <2>5. CASE \E n \in Numbers : DeletePromptVersion(u, p, n)
    BY <2>5, DeletePromptVersionStep
  <2> QED BY <2>1, <2>2, <2>3, <2>4, <2>5
<1>3. Legacy \notin Principals /\ Seeds \subseteq Prompts
  BY RegistryAssumption
<1> QED BY <1>1, <1>2, <1>3 DEF SeedsOwned, StoredPrompt

-----------------------------------------------------------------------------
(* Conversations.                                                           *)

\* What a session or a copy of it holds was answered.
TurnsAnswered ==
  /\ \A s \in Sessions : StoredSession(s) =>
       \A c \in sessions[s].turns : calls[c].stage = "answered"
  /\ \A d \in Calls : Waiting(d) =>
       \A c \in calls[d].copy.turns : calls[c].stage = "answered"

SessionsOpened ==
  \A c \in Calls : calls[c].stage \in {"waiting", "answered"} => StoredSession(calls[c].session)

Overlapped(c) == \E d \in Calls : calls[d].stage = "answered" /\ c \in calls[d].missed

Resaved(s) ==
  \E d \in Calls : calls[d].stage = "answered" /\ calls[d].session = s /\ "sharing" \in calls[d].missed

\* An answer is in its session and in every copy of it that can be saved, or a
\* copy that lacks it was saved, or will be by a call that knows it missed it.
TurnsTracked ==
  \A c \in Calls : calls[c].stage = "answered" =>
    /\ c \in sessions[calls[c].session].turns \/ Overlapped(c)
    /\ \A d \in Calls : Waiting(d) /\ calls[d].session = calls[c].session =>
         c \in calls[d].copy.turns \/ c \in calls[d].missed \/ Overlapped(c)

\* What is stored of a choice.
Grants(sharing, chosen) ==
  sharing.visibility = chosen.visibility /\ sharing.with \in Kept(chosen.with)

SharingTracked ==
  \A s \in Sessions :
    /\ ~StoredSession(s) => asked[s] = Private
    /\ StoredSession(s) => Grants(sessions[s].sharing, asked[s]) \/ Resaved(s)
    /\ \A d \in Calls : Waiting(d) /\ calls[d].session = s =>
         \/ Grants(calls[d].copy.sharing, asked[s])
         \/ "sharing" \in calls[d].missed \/ Resaved(s)

LEMMA PrivateGrants == Grants(Private, Private)
<1>1. {} \ LongNames = {}
  OBVIOUS
<1>2. {} \in Kept({})
  BY <1>1, FS_EmptySet, SharingAssumption DEF Kept, Fits
<1> QED BY <1>2 DEF Grants, Private

ChatOK == TypeOKChat /\ TurnsAnswered /\ SessionsOpened /\ TurnsTracked /\ SharingTracked

AnsweredStay ==
  \A d \in Calls : calls[d].stage = "answered" =>
    /\ calls'[d].stage = "answered"
    /\ calls'[d].session = calls[d].session /\ calls'[d].missed = calls[d].missed

LEMMA OverlapStays ==
  ASSUME AnsweredStay
  PROVE  /\ \A c : Overlapped(c) => Overlapped(c)'
         /\ \A s : Resaved(s) => Resaved(s)'
BY DEF AnsweredStay, Overlapped, Resaved

LEMMA SessionIsStored == \A row \in SessionRows : row # NoRow
BY NoSessionRowAssumption

LEMMA FreshType ==
  ASSUME NEW stage \in {"new", "waiting", "answered", "refused"},
         NEW s \in Sessions \cup {NoSession}
  PROVE  Fresh(stage, s) \in CallRows
BY DEF Fresh, CallRows, Nothing, Selectable

LEMMA OpenedType ==
  ASSUME TypeOKChat, NEW u \in Principals, NEW s \in Sessions
  PROVE  Opened(u, s) \in SessionRows
<1>1. [owner |-> u, sharing |-> Private, turns |-> {}] \in SessionRows
  BY DEF SessionRows, Sharing, Private
<1> QED BY <1>1 DEF Opened, StoredSession, TypeOKChat

\* What the others know of a session that was saved.
LEMMA MissingType ==
  ASSUME TypeOKChat, NEW s \in Sessions, NEW what \in Calls \cup {"sharing"}, NEW d \in Calls
  PROVE  /\ Missing(s, what)[d] \in CallRows
         /\ Missing(s, what)[d].stage = calls[d].stage
         /\ Missing(s, what)[d].session = calls[d].session
         /\ Missing(s, what)[d].copy = calls[d].copy
         /\ Missing(s, what)[d].cites = calls[d].cites
         /\ Missing(s, what)[d].text = calls[d].text
         /\ Missing(s, what)[d].cut = calls[d].cut
         /\ Missing(s, what)[d].missed =
              IF Waiting(d) /\ calls[d].session = s THEN calls[d].missed \cup {what}
              ELSE calls[d].missed
<1>1. calls[d] \in CallRows
  BY DEF TypeOKChat
<1>2. Missing(s, what)[d] =
        IF Waiting(d) /\ calls[d].session = s
        THEN [calls[d] EXCEPT !.missed = @ \cup {what}] ELSE calls[d]
  BY DEF Missing
<1> QED BY <1>1, <1>2 DEF CallRows

\* A new call is blocked, refused, or starts to wait.
LEMMA OpenStep ==
  ASSUME ChatOK, NEW c \in Calls, NEW u \in Principals, NEW s \in Sessions,
         calls[c].stage = "new", sessions' = [sessions EXCEPT ![s] = Opened(u, s)],
         UNCHANGED asked, NEW row \in CallRows, calls' = [calls EXCEPT ![c] = row],
         \/ row.stage = "refused" /\ row.copy = NoRow
         \/ /\ row.stage = "waiting" /\ row.session = s /\ row.copy = Opened(u, s)
  PROVE  ChatOK'
<1>1. /\ \A d \in Calls : calls'[d] = IF d = c THEN row ELSE calls[d]
      /\ \A x \in Sessions : sessions'[x] = IF x = s THEN Opened(u, s) ELSE sessions[x]
      /\ Opened(u, s) \in SessionRows /\ Opened(u, s) # NoRow
      /\ asked' = asked
  BY OpenedType, SessionIsStored DEF ChatOK, TypeOKChat
<1>2. TypeOKChat'
  <2>1. /\ sessions' \in [Sessions -> SessionRows \cup {NoRow}]
        /\ calls' \in [Calls -> CallRows] /\ asked' \in [Sessions -> Sharing]
    BY <1>1 DEF ChatOK, TypeOKChat
  <2> QED BY <1>1, <2>1 DEF ChatOK, TypeOKChat, Waiting
<1>3. AnsweredStay
  BY <1>1 DEF AnsweredStay
<1>4. \A x \in Sessions : StoredSession(x) => StoredSession(x)' /\ sessions'[x] = sessions[x]
  BY <1>1 DEF Opened, StoredSession
<1>5. SessionsOpened'
  BY <1>1, <1>4 DEF ChatOK, SessionsOpened, StoredSession, TypeOKChat
<1>6. \A x \in Sessions : ~StoredSession(x) =>
        \A d \in Calls : calls[d].stage \in {"waiting", "answered"} => calls[d].session # x
  BY DEF ChatOK, SessionsOpened
<1>7. Opened(u, s) = IF StoredSession(s) THEN sessions[s]
                     ELSE [owner |-> u, sharing |-> Private, turns |-> {}]
  BY DEF Opened
<1>8. TurnsAnswered'
  <2>1. \A d \in Opened(u, s).turns : d \in Calls /\ calls[d].stage = "answered"
    BY <1>7 DEF ChatOK, TurnsAnswered, TypeOKChat, SessionRows, StoredSession
  <2>2. \A d \in Calls : calls[d].stage = "answered" => calls'[d].stage = "answered"
    BY <1>3 DEF AnsweredStay
  <2>3. ASSUME NEW x \in Sessions, StoredSession(x)', NEW d \in sessions'[x].turns
        PROVE  calls'[d].stage = "answered"
    <3>1. CASE x = s
      BY <1>1, <2>1, <2>2, <2>3, <3>1
    <3>2. CASE x # s
      <4>1. sessions'[x] = sessions[x] /\ StoredSession(x)
        BY <1>1, <2>3, <3>2 DEF StoredSession
      <4>2. d \in Calls /\ calls[d].stage = "answered"
        BY <2>3, <4>1 DEF ChatOK, TurnsAnswered, TypeOKChat, SessionRows, StoredSession
      <4> QED BY <2>2, <4>2
    <3> QED BY <3>1, <3>2
  <2>4. ASSUME NEW e \in Calls, Waiting(e)', NEW d \in calls'[e].copy.turns
        PROVE  calls'[d].stage = "answered"
    <3>1. CASE e = c
      BY <1>1, <2>1, <2>2, <2>4, <3>1 DEF Waiting
    <3>2. CASE e # c
      <4>1. calls'[e] = calls[e] /\ Waiting(e)
        BY <1>1, <2>4, <3>2 DEF Waiting
      <4>2. calls[e].copy \in SessionRows
        BY <4>1 DEF ChatOK, TypeOKChat, CallRows
      <4>3. d \in Calls /\ calls[d].stage = "answered"
        BY <2>4, <4>1, <4>2 DEF ChatOK, TurnsAnswered, SessionRows
      <4> QED BY <2>2, <4>3
    <3> QED BY <3>1, <3>2
  <2> QED BY <2>3, <2>4 DEF TurnsAnswered
<1>9. TurnsTracked'
  <2> SUFFICES ASSUME NEW e \in Calls, calls'[e].stage = "answered"
               PROVE  /\ e \in sessions'[calls'[e].session].turns \/ Overlapped(e)'
                      /\ \A d \in Calls : Waiting(d)' /\ calls'[d].session = calls'[e].session =>
                           e \in calls'[d].copy.turns \/ e \in calls'[d].missed \/ Overlapped(e)'
    BY DEF TurnsTracked
  <2>1. e # c /\ calls'[e] = calls[e] /\ calls[e].stage = "answered"
    BY <1>1
  <2>2. calls[e].session \in Sessions /\ StoredSession(calls[e].session)
    BY <2>1 DEF ChatOK, TypeOKChat, SessionsOpened
  <2>3. e \in sessions[calls[e].session].turns \/ Overlapped(e)
    BY <2>1 DEF ChatOK, TurnsTracked
  <2>4. Overlapped(e) => Overlapped(e)'
    BY <1>3, OverlapStays
  <2>5. ASSUME NEW d \in Calls, Waiting(d)', calls'[d].session = calls'[e].session
        PROVE  e \in calls'[d].copy.turns \/ e \in calls'[d].missed \/ Overlapped(e)'
    <3>1. CASE d = c
      <4>1. calls[e].session = s /\ row.copy = sessions[s] /\ calls'[d] = row
        BY <1>1, <1>7, <2>1, <2>2, <2>5, <3>1 DEF Waiting
      <4> QED BY <2>3, <2>4, <4>1
    <3>2. CASE d # c
      <4>1. calls'[d] = calls[d] /\ Waiting(d)
        BY <1>1, <2>5, <3>2 DEF Waiting
      <4> QED BY <2>1, <2>4, <2>5, <4>1 DEF ChatOK, TurnsTracked
    <3> QED BY <3>1, <3>2
  <2> QED BY <1>4, <2>1, <2>2, <2>3, <2>4, <2>5
<1>10. SharingTracked'
  <2> SUFFICES ASSUME NEW x \in Sessions
               PROVE  /\ ~StoredSession(x)' => asked'[x] = Private
                      /\ StoredSession(x)' => Grants(sessions'[x].sharing, asked'[x]) \/ Resaved(x)'
                      /\ \A d \in Calls : Waiting(d)' /\ calls'[d].session = x =>
                           \/ Grants(calls'[d].copy.sharing, asked'[x])
                           \/ "sharing" \in calls'[d].missed \/ Resaved(x)'
    BY DEF SharingTracked
  <2>1. /\ Resaved(x) => Resaved(x)'
        /\ ~StoredSession(x) => asked[x] = Private
        /\ StoredSession(x) => Grants(sessions[x].sharing, asked[x]) \/ Resaved(x)
    BY <1>3, OverlapStays DEF ChatOK, SharingTracked
  <2>2. x = s => Grants(Opened(u, s).sharing, asked[s]) \/ Resaved(x)
    BY <1>7, <2>1, PrivateGrants
  <2>3. ASSUME NEW d \in Calls, Waiting(d)', calls'[d].session = x
        PROVE  \/ Grants(calls'[d].copy.sharing, asked'[x])
               \/ "sharing" \in calls'[d].missed \/ Resaved(x)'
    <3>1. CASE d = c
      BY <1>1, <2>1, <2>2, <2>3, <3>1 DEF Waiting
    <3>2. CASE d # c
      <4>1. calls'[d] = calls[d] /\ Waiting(d)
        BY <1>1, <2>3, <3>2 DEF Waiting
      <4> QED BY <1>1, <2>1, <2>3, <4>1 DEF ChatOK, SharingTracked
    <3> QED BY <3>1, <3>2
  <2> QED BY <1>1, <2>1, <2>2, <2>3 DEF StoredSession
<1> QED BY <1>2, <1>5, <1>8, <1>9, <1>10 DEF ChatOK

\* A turn is appended to what its call holds of the session, and that is saved.
LEMMA SaveStep ==
  ASSUME ChatOK, NEW c \in Calls, NEW s \in Sessions, calls[c].stage # "answered",
         NEW base \in SessionRows,
         sessions' = [sessions EXCEPT ![s] = [base EXCEPT !.turns = @ \cup {c}]],
         UNCHANGED asked,
         NEW row \in CallRows, row.stage = "answered", row.session = s, row.copy = NoRow,
         calls' = [Missing(s, c) EXCEPT ![c] = row],
         \A d \in base.turns : calls[d].stage = "answered",
         \A d \in Calls : calls[d].stage = "answered" /\ calls[d].session = s =>
           d \in base.turns \/ d \in row.missed \/ Overlapped(d),
         Grants(base.sharing, asked[s]) \/ "sharing" \in row.missed \/ Resaved(s)
  PROVE  ChatOK'
<1> DEFINE saved == [base EXCEPT !.turns = @ \cup {c}]
<1>1. /\ saved \in SessionRows /\ saved # NoRow
      /\ saved.sharing = base.sharing /\ saved.turns = base.turns \cup {c}
  BY SessionIsStored DEF SessionRows
<1>2. calls'[c] = row
  BY DEF Missing
<1>2o. ASSUME NEW d \in Calls, d # c
       PROVE  /\ calls'[d] \in CallRows
              /\ calls'[d].stage = calls[d].stage /\ calls'[d].session = calls[d].session
              /\ calls'[d].copy = calls[d].copy
              /\ calls[d].missed \subseteq calls'[d].missed
              /\ Waiting(d) /\ calls[d].session = s => c \in calls'[d].missed
              /\ ~Waiting(d) => calls'[d].missed = calls[d].missed
  <2>1. calls[d] \in CallRows
    BY DEF ChatOK, TypeOKChat
  <2>2. calls'[d] = IF Waiting(d) /\ calls[d].session = s
                    THEN [calls[d] EXCEPT !.missed = @ \cup {c}] ELSE calls[d]
    BY <1>2o DEF Missing
  <2> QED BY <2>1, <2>2 DEF CallRows
<1>3. /\ \A x \in Sessions : sessions'[x] = IF x = s THEN saved ELSE sessions[x]
      /\ asked' = asked
  BY DEF ChatOK, TypeOKChat
<1> HIDE DEF saved
<1>4. TypeOKChat'
  <2>1. calls' = [d \in Calls |-> calls'[d]] /\ sessions' = [x \in Sessions |-> sessions'[x]]
    BY DEF Missing, ChatOK, TypeOKChat
  <2>2. /\ sessions' \in [Sessions -> SessionRows \cup {NoRow}]
        /\ calls' \in [Calls -> CallRows] /\ asked' \in [Sessions -> Sharing]
    <3>1. \A x \in Sessions : sessions'[x] \in SessionRows \cup {NoRow}
      BY <1>1, <1>3 DEF ChatOK, TypeOKChat
    <3>2. \A d \in Calls : calls'[d] \in CallRows
      BY <1>2, <1>2o
    <3>3. asked' \in [Sessions -> Sharing]
      BY <1>3 DEF ChatOK, TypeOKChat
    <3>4. calls' \in [Calls -> CallRows]
      BY <2>1, <3>2
    <3>5. sessions' \in [Sessions -> SessionRows \cup {NoRow}]
      BY <2>1, <3>1
    <3> QED BY <3>3, <3>4, <3>5
  <2>3. ASSUME NEW d \in Calls
        PROVE  /\ Waiting(d)' <=> calls'[d].copy # NoRow
               /\ calls'[d].stage \in {"waiting", "answered"} => calls'[d].session \in Sessions
    BY <1>2, <1>2o DEF ChatOK, TypeOKChat, Waiting
  <2> QED BY <2>2, <2>3 DEF TypeOKChat
<1>5. AnsweredStay
  BY <1>2, <1>2o DEF AnsweredStay, Waiting
<1>6. SessionsOpened'
  <2> SUFFICES ASSUME NEW d \in Calls, calls'[d].stage \in {"waiting", "answered"}
               PROVE  sessions'[calls'[d].session] # NoRow
    BY DEF SessionsOpened, StoredSession
  <2>1. CASE d = c
    BY <1>1, <1>2, <1>3, <2>1
  <2>2. CASE d # c
    <3>1. /\ calls[d].stage \in {"waiting", "answered"} /\ calls'[d].session = calls[d].session
          /\ calls[d].session \in Sessions
      BY <1>2o, <2>2 DEF ChatOK, TypeOKChat
    <3>2. sessions[calls[d].session] # NoRow
      BY <3>1 DEF ChatOK, SessionsOpened, StoredSession
    <3> QED BY <1>1, <1>3, <3>1, <3>2
  <2> QED BY <2>1, <2>2
<1>7. TurnsAnswered'
  <2>1. \A d \in Calls : calls[d].stage = "answered" => calls'[d].stage = "answered"
    BY <1>5 DEF AnsweredStay
  <2>2. ASSUME NEW x \in Sessions, StoredSession(x)', NEW d \in sessions'[x].turns
        PROVE  calls'[d].stage = "answered"
    <3>1. CASE x = s /\ d = c
      BY <1>2, <1>2o, <3>1
    <3>2. CASE x = s /\ d # c
      <4>1. d \in base.turns /\ d \in Calls
        BY <1>1, <1>3, <2>2, <3>2 DEF SessionRows
      <4> QED BY <2>1, <4>1
    <3>3. CASE x # s
      <4>1. sessions'[x] = sessions[x] /\ StoredSession(x)
        BY <1>3, <2>2, <3>3 DEF StoredSession
      <4>2. d \in Calls /\ calls[d].stage = "answered"
        BY <2>2, <4>1 DEF ChatOK, TurnsAnswered, TypeOKChat, SessionRows, StoredSession
      <4> QED BY <2>1, <4>2
    <3> QED BY <3>1, <3>2, <3>3
  <2>3. ASSUME NEW e \in Calls, Waiting(e)', NEW d \in calls'[e].copy.turns
        PROVE  calls'[d].stage = "answered"
    <3>1. e # c /\ Waiting(e) /\ calls'[e].copy = calls[e].copy
      BY <1>2, <1>2o, <2>3 DEF Waiting
    <3>2. calls[e].copy \in SessionRows
      BY <3>1 DEF ChatOK, TypeOKChat, CallRows
    <3>3. d \in Calls /\ calls[d].stage = "answered"
      BY <2>3, <3>1, <3>2 DEF ChatOK, TurnsAnswered, SessionRows
    <3> QED BY <2>1, <3>3
  <2> QED BY <2>2, <2>3 DEF TurnsAnswered
<1>8. \A e : e \in row.missed => Overlapped(e)'
  BY <1>2, <1>2o DEF Overlapped
<1>9. TurnsTracked'
  <2> SUFFICES ASSUME NEW e \in Calls, calls'[e].stage = "answered"
               PROVE  /\ e \in sessions'[calls'[e].session].turns \/ Overlapped(e)'
                      /\ \A d \in Calls : Waiting(d)' /\ calls'[d].session = calls'[e].session =>
                           e \in calls'[d].copy.turns \/ e \in calls'[d].missed \/ Overlapped(e)'
    BY DEF TurnsTracked
  <2>1. CASE e = c
    <3>1. e \in sessions'[calls'[e].session].turns
      BY <1>1, <1>2, <1>2o, <1>3, <2>1
    <3>2. ASSUME NEW d \in Calls, Waiting(d)', calls'[d].session = calls'[e].session
          PROVE  e \in calls'[d].missed
      <4>1. d # c /\ calls'[e] = row
        BY <1>2, <1>2o, <2>1, <3>2 DEF Waiting
      <4> QED BY <1>2, <1>2o, <2>1, <3>2, <4>1 DEF Waiting
    <3> QED BY <3>1, <3>2
  <2>2. CASE e # c
    <3>1. calls[e].stage = "answered" /\ calls'[e].session = calls[e].session
      BY <1>2, <1>2o, <2>2
    <3>2. Overlapped(e) => Overlapped(e)'
      BY <1>5, OverlapStays
    <3>3. e \in sessions'[calls'[e].session].turns \/ Overlapped(e)'
      <4>1. calls[e].session \in Sessions
        BY <3>1 DEF ChatOK, TypeOKChat
      <4>2. CASE calls[e].session = s
        BY <1>1, <1>3, <1>8, <3>1, <3>2, <4>1, <4>2
      <4>3. CASE calls[e].session # s
        BY <1>3, <3>1, <3>2, <4>1, <4>3 DEF ChatOK, TurnsTracked
      <4> QED BY <4>2, <4>3
    <3>4. ASSUME NEW d \in Calls, Waiting(d)', calls'[d].session = calls'[e].session
          PROVE  e \in calls'[d].copy.turns \/ e \in calls'[d].missed \/ Overlapped(e)'
      <4>1. /\ Waiting(d) /\ calls[d].session = calls[e].session
            /\ calls'[d].copy = calls[d].copy /\ calls[d].missed \subseteq calls'[d].missed
        BY <1>2, <1>2o, <3>1, <3>4 DEF Waiting
      <4> QED BY <3>1, <3>2, <4>1 DEF ChatOK, TurnsTracked
    <3> QED BY <3>3, <3>4
  <2> QED BY <2>1, <2>2
<1>10. SharingTracked'
  <2> SUFFICES ASSUME NEW x \in Sessions
               PROVE  /\ ~StoredSession(x)' => asked'[x] = Private
                      /\ StoredSession(x)' => Grants(sessions'[x].sharing, asked'[x]) \/ Resaved(x)'
                      /\ \A d \in Calls : Waiting(d)' /\ calls'[d].session = x =>
                           \/ Grants(calls'[d].copy.sharing, asked'[x])
                           \/ "sharing" \in calls'[d].missed \/ Resaved(x)'
    BY DEF SharingTracked
  <2>1. /\ Resaved(x) => Resaved(x)'
        /\ ~StoredSession(x) => asked[x] = Private
        /\ StoredSession(x) => Grants(sessions[x].sharing, asked[x]) \/ Resaved(x)
    BY <1>5, OverlapStays DEF ChatOK, SharingTracked
  <2>2. "sharing" \in row.missed => Resaved(s)'
    BY <1>2, <1>2o DEF Resaved
  <2>3. ASSUME NEW d \in Calls, Waiting(d)', calls'[d].session = x
        PROVE  \/ Grants(calls'[d].copy.sharing, asked'[x])
               \/ "sharing" \in calls'[d].missed \/ Resaved(x)'
    <3>1. /\ Waiting(d) /\ calls[d].session = x
          /\ calls'[d].copy = calls[d].copy /\ calls[d].missed \subseteq calls'[d].missed
      BY <1>2, <1>2o, <2>3 DEF Waiting
    <3> QED BY <1>3, <2>1, <3>1 DEF ChatOK, SharingTracked
  <2>4. StoredSession(x)' => Grants(sessions'[x].sharing, asked'[x]) \/ Resaved(x)'
    BY <1>1, <1>3, <2>1, <2>2 DEF StoredSession
  <2>5. ~StoredSession(x)' => asked'[x] = Private
    BY <1>1, <1>3, <2>1 DEF StoredSession
  <2> QED BY <2>3, <2>4, <2>5
<1> QED BY <1>4, <1>6, <1>7, <1>9, <1>10 DEF ChatOK

LEMMA UpdateSharingStep ==
  ASSUME ChatOK, NEW u \in Principals, NEW s \in Sessions, NEW sharing \in Sharings,
         UpdateSharing(u, s, sharing)
  PROVE  ChatOK'
<1> DEFINE chosen == [sharing EXCEPT !.with = @ \ {u}]
<1>1. chosen \in Sharing
  BY SharingAssumption DEF Sharing
<1>1a. PICK readers \in Kept(chosen.with) :
         sessions' = [sessions EXCEPT ![s].sharing = [chosen EXCEPT !.with = readers]]
  BY DEF UpdateSharing
<1> DEFINE kept == [chosen EXCEPT !.with = readers]
           row == [sessions[s] EXCEPT !.sharing = kept]
<1>1b. kept \in Sharing /\ Grants(kept, chosen)
  <2>1. readers \in SUBSET Names
    BY <1>1 DEF Kept, Sharing
  <2>2. kept \in Sharing /\ kept.visibility = chosen.visibility /\ kept.with = readers
    BY <1>1, <2>1 DEF Sharing
  <2> QED BY <2>2 DEF Grants
<1>2. sessions[s] \in SessionRows /\ StoredSession(s)
  BY DEF UpdateSharing, StoredSession, ChatOK, TypeOKChat
<1>3. /\ row \in SessionRows /\ row # NoRow
      /\ row.sharing = kept /\ row.turns = sessions[s].turns
  BY <1>1b, <1>2, SessionIsStored DEF SessionRows
<1>4. /\ \A x \in Sessions : sessions'[x] = IF x = s THEN row ELSE sessions[x]
      /\ \A x \in Sessions : asked'[x] = IF x = s THEN chosen ELSE asked[x]
      /\ calls' = Missing(s, "sharing")
  BY <1>1a, <1>2 DEF UpdateSharing, ChatOK, TypeOKChat, SessionRows
<1>5. \A d \in Calls :
        /\ calls'[d] \in CallRows
        /\ calls'[d].stage = calls[d].stage /\ calls'[d].session = calls[d].session
        /\ calls'[d].copy = calls[d].copy
        /\ calls'[d].missed =
             IF Waiting(d) /\ calls[d].session = s THEN calls[d].missed \cup {"sharing"}
             ELSE calls[d].missed
  BY <1>4, MissingType DEF ChatOK
<1>6. TypeOKChat'
  <2>1. calls' = [d \in Calls |-> calls'[d]]
    BY <1>4 DEF Missing
  <2>2. sessions' = [x \in Sessions |-> sessions'[x]] /\ asked' = [x \in Sessions |-> asked'[x]]
    BY <1>1a DEF UpdateSharing, ChatOK, TypeOKChat
  <2> HIDE DEF row, kept, chosen
  <2>3. /\ sessions' \in [Sessions -> SessionRows \cup {NoRow}]
        /\ calls' \in [Calls -> CallRows] /\ asked' \in [Sessions -> Sharing]
    BY <1>1, <1>3, <1>4, <1>5, <2>1, <2>2 DEF ChatOK, TypeOKChat
  <2>4. ASSUME NEW d \in Calls
        PROVE  /\ Waiting(d)' <=> calls'[d].copy # NoRow
               /\ calls'[d].stage \in {"waiting", "answered"} => calls'[d].session \in Sessions
    BY <1>5 DEF ChatOK, TypeOKChat, Waiting
  <2> QED BY <2>3, <2>4 DEF TypeOKChat
<1> HIDE DEF row, kept, chosen
<1>7. AnsweredStay
  BY <1>5 DEF AnsweredStay, Waiting
<1>8. \A x \in Sessions : /\ StoredSession(x)' <=> StoredSession(x)
                          /\ StoredSession(x) => sessions'[x].turns = sessions[x].turns
  BY <1>2, <1>3, <1>4 DEF StoredSession
<1>9. SessionsOpened'
  BY <1>5, <1>8 DEF ChatOK, SessionsOpened, TypeOKChat
<1>10. \A d \in Calls : Waiting(d)' <=> Waiting(d)
  BY <1>5 DEF Waiting
<1>11. TurnsAnswered'
  <2>1. ASSUME NEW x \in Sessions, StoredSession(x)', NEW d \in sessions'[x].turns
        PROVE  calls'[d].stage = "answered"
    <3>1. d \in Calls /\ calls[d].stage = "answered"
      BY <1>8, <2>1 DEF ChatOK, TurnsAnswered, TypeOKChat, SessionRows, StoredSession
    <3> QED BY <1>5, <3>1
  <2>2. ASSUME NEW e \in Calls, Waiting(e)', NEW d \in calls'[e].copy.turns
        PROVE  calls'[d].stage = "answered"
    <3>1. Waiting(e) /\ calls'[e].copy = calls[e].copy /\ calls[e].copy \in SessionRows
      BY <1>5, <1>10, <2>2 DEF ChatOK, TypeOKChat, CallRows
    <3>2. d \in Calls /\ calls[d].stage = "answered"
      BY <2>2, <3>1 DEF ChatOK, TurnsAnswered, SessionRows
    <3> QED BY <1>5, <3>2
  <2> QED BY <2>1, <2>2 DEF TurnsAnswered
<1>12. TurnsTracked'
  <2> SUFFICES ASSUME NEW e \in Calls, calls'[e].stage = "answered"
               PROVE  /\ e \in sessions'[calls'[e].session].turns \/ Overlapped(e)'
                      /\ \A d \in Calls : Waiting(d)' /\ calls'[d].session = calls'[e].session =>
                           e \in calls'[d].copy.turns \/ e \in calls'[d].missed \/ Overlapped(e)'
    BY DEF TurnsTracked
  <2>1. /\ calls[e].stage = "answered" /\ calls'[e].session = calls[e].session
        /\ calls[e].session \in Sessions /\ StoredSession(calls[e].session)
        /\ Overlapped(e) => Overlapped(e)'
    BY <1>5, <1>7, OverlapStays DEF ChatOK, TypeOKChat, SessionsOpened
  <2>2. e \in sessions'[calls'[e].session].turns \/ Overlapped(e)'
    BY <1>8, <2>1 DEF ChatOK, TurnsTracked
  <2>3. ASSUME NEW d \in Calls, Waiting(d)', calls'[d].session = calls'[e].session
        PROVE  e \in calls'[d].copy.turns \/ e \in calls'[d].missed \/ Overlapped(e)'
    <3>1. /\ Waiting(d) /\ calls[d].session = calls[e].session
          /\ calls'[d].copy = calls[d].copy /\ calls[d].missed \subseteq calls'[d].missed
      BY <1>5, <1>10, <2>1, <2>3
    <3> QED BY <2>1, <3>1 DEF ChatOK, TurnsTracked
  <2> QED BY <2>2, <2>3
<1>13. SharingTracked'
  <2> SUFFICES ASSUME NEW x \in Sessions
               PROVE  /\ ~StoredSession(x)' => asked'[x] = Private
                      /\ StoredSession(x)' => Grants(sessions'[x].sharing, asked'[x]) \/ Resaved(x)'
                      /\ \A d \in Calls : Waiting(d)' /\ calls'[d].session = x =>
                           \/ Grants(calls'[d].copy.sharing, asked'[x])
                           \/ "sharing" \in calls'[d].missed \/ Resaved(x)'
    BY DEF SharingTracked
  <2>1. /\ Resaved(x) => Resaved(x)'
        /\ ~StoredSession(x) => asked[x] = Private
        /\ StoredSession(x) => Grants(sessions[x].sharing, asked[x]) \/ Resaved(x)
    BY <1>7, OverlapStays DEF ChatOK, SharingTracked
  <2>2. /\ ~StoredSession(x)' => asked'[x] = Private
        /\ StoredSession(x)' => Grants(sessions'[x].sharing, asked'[x]) \/ Resaved(x)'
    BY <1>1b, <1>2, <1>3, <1>4, <1>8, <2>1
  <2>3. ASSUME NEW d \in Calls, Waiting(d)', calls'[d].session = x
        PROVE  \/ Grants(calls'[d].copy.sharing, asked'[x])
               \/ "sharing" \in calls'[d].missed \/ Resaved(x)'
    <3>1. Waiting(d) /\ calls[d].session = x
      BY <1>5, <1>10, <2>3
    <3>2. CASE x = s
      BY <1>5, <3>1, <3>2
    <3>3. CASE x # s
      BY <1>4, <1>5, <2>1, <3>1, <3>3 DEF ChatOK, SharingTracked
    <3> QED BY <3>2, <3>3
  <2> QED BY <2>2, <2>3
<1> QED BY <1>6, <1>9, <1>11, <1>12, <1>13 DEF ChatOK

LEMMA LoseCallsStep ==
  ASSUME ChatOK, LoseCalls
  PROVE  ChatOK'
<1>1. /\ \A c \in Calls : calls'[c] = IF Waiting(c) THEN Fresh("refused", NoSession) ELSE calls[c]
      /\ sessions' = sessions /\ asked' = asked /\ calls' = [c \in Calls |-> calls'[c]]
  BY DEF LoseCalls
<1>2. /\ Fresh("refused", NoSession) \in CallRows
      /\ Fresh("refused", NoSession).stage = "refused" /\ Fresh("refused", NoSession).copy = NoRow
  BY FreshType DEF Fresh
<1>3. TypeOKChat'
  <2>1. calls' \in [Calls -> CallRows]
    BY <1>1, <1>2 DEF ChatOK, TypeOKChat
  <2>2. ASSUME NEW d \in Calls
        PROVE  /\ Waiting(d)' <=> calls'[d].copy # NoRow
               /\ calls'[d].stage \in {"waiting", "answered"} => calls'[d].session \in Sessions
    BY <1>1, <1>2 DEF ChatOK, TypeOKChat, Waiting
  <2> QED BY <1>1, <2>1, <2>2 DEF ChatOK, TypeOKChat
<1>4. \A d \in Calls : ~Waiting(d)' /\ (calls'[d].stage = "answered" => calls'[d] = calls[d])
  BY <1>1, <1>2 DEF Waiting
<1>5. AnsweredStay
  BY <1>1 DEF AnsweredStay, Waiting
<1>6. SessionsOpened'
  BY <1>1, <1>4 DEF ChatOK, SessionsOpened, StoredSession, Waiting
<1>7. TurnsAnswered'
  <2> SUFFICES ASSUME NEW s \in Sessions, StoredSession(s), NEW c \in sessions[s].turns
               PROVE  calls'[c].stage = "answered"
    BY <1>1, <1>4 DEF TurnsAnswered, StoredSession
  <2>1. c \in Calls /\ calls[c].stage = "answered"
    BY DEF ChatOK, TurnsAnswered, TypeOKChat, SessionRows, StoredSession
  <2> QED BY <1>5, <2>1 DEF AnsweredStay
<1>8. TurnsTracked'
  <2> SUFFICES ASSUME NEW e \in Calls, calls'[e].stage = "answered"
               PROVE  e \in sessions'[calls'[e].session].turns \/ Overlapped(e)'
    BY <1>4 DEF TurnsTracked
  <2>1. calls'[e] = calls[e] /\ calls[e].stage = "answered"
    BY <1>4
  <2> QED BY <1>1, <1>5, <2>1, OverlapStays DEF ChatOK, TurnsTracked
<1>9. SharingTracked'
  <2> SUFFICES ASSUME NEW s \in Sessions
               PROVE  /\ ~StoredSession(s) => asked[s] = Private
                      /\ StoredSession(s) => Grants(sessions[s].sharing, asked[s]) \/ Resaved(s)'
    BY <1>1, <1>4 DEF SharingTracked, StoredSession
  <2> QED BY <1>5, OverlapStays DEF ChatOK, SharingTracked
<1> QED BY <1>3, <1>6, <1>7, <1>8, <1>9 DEF ChatOK

\* Calls that differ in what was cut are the same to the sessions.
LEMMA CutStep ==
  ASSUME ChatOK, NEW citing, Cut(citing), UNCHANGED <<sessions, asked>>
  PROVE  /\ ChatOK'
         /\ \A c \in Calls :
              /\ calls'[c].stage = calls[c].stage /\ calls'[c].cites = calls[c].cites
              /\ calls'[c].text = calls[c].text
              /\ ~calls'[c].cut => ~calls[c].cut /\ c \notin citing \ Turns
<1>1. ASSUME NEW c \in Calls
      PROVE  /\ calls'[c] \in CallRows
             /\ calls'[c].stage = calls[c].stage /\ calls'[c].cites = calls[c].cites
             /\ calls'[c].text = calls[c].text /\ calls'[c].session = calls[c].session
             /\ calls'[c].copy = calls[c].copy /\ calls'[c].missed = calls[c].missed
             /\ ~calls'[c].cut => ~calls[c].cut /\ c \notin citing \ Turns
  <2>1. calls[c] \in CallRows
    BY DEF ChatOK, TypeOKChat
  <2>2. calls'[c] = IF c \in citing \ Turns THEN [calls[c] EXCEPT !.cut = TRUE] ELSE calls[c]
    BY DEF Cut
  <2>3. CASE c \in citing \ Turns
    <3>1. calls'[c] = [calls[c] EXCEPT !.cut = TRUE]
      BY <2>2, <2>3
    <3>2. calls'[c].cut = TRUE
      BY <2>1, <3>1 DEF CallRows
    <3> QED BY <2>1, <3>1, <3>2 DEF CallRows
  <2>4. CASE c \notin citing \ Turns
    <3>1. calls'[c] = calls[c]
      BY <2>2, <2>4
    <3> QED BY <2>1, <2>4, <3>1
  <2> QED BY <2>3, <2>4
<1>2. \A c \in Calls : Waiting(c)' <=> Waiting(c)
  BY <1>1 DEF Waiting
<1>3. \A s : StoredSession(s)' <=> StoredSession(s)
  BY DEF StoredSession
<1>4. TypeOKChat'
  <2>1. calls' = [c \in Calls |-> calls'[c]]
    BY DEF Cut
  <2>2. calls' \in [Calls -> CallRows]
    BY <1>1, <2>1
  <2> QED BY <1>1, <1>2, <2>2 DEF ChatOK, TypeOKChat
<1>5. \A c : Overlapped(c)' <=> Overlapped(c)
  BY <1>1 DEF Overlapped
<1>6. \A s : Resaved(s)' <=> Resaved(s)
  BY <1>1 DEF Resaved
<1>7. TurnsAnswered'
  <2>1. ASSUME NEW s \in Sessions, StoredSession(s)', NEW d \in sessions'[s].turns
        PROVE  calls'[d].stage = "answered"
    <3>1. d \in Calls /\ calls[d].stage = "answered"
      BY <1>3, <2>1 DEF ChatOK, TurnsAnswered, TypeOKChat, SessionRows, StoredSession
    <3> QED BY <1>1, <3>1
  <2>2. ASSUME NEW e \in Calls, Waiting(e)', NEW d \in calls'[e].copy.turns
        PROVE  calls'[d].stage = "answered"
    <3>1. Waiting(e) /\ calls'[e].copy = calls[e].copy /\ calls[e].copy \in SessionRows
      BY <1>1, <1>2, <2>2 DEF ChatOK, TypeOKChat, CallRows
    <3>2. d \in Calls /\ calls[d].stage = "answered"
      BY <2>2, <3>1 DEF ChatOK, TurnsAnswered, SessionRows
    <3> QED BY <1>1, <3>2
  <2> QED BY <2>1, <2>2 DEF TurnsAnswered
<1>8. SessionsOpened'
  BY <1>1, <1>3 DEF ChatOK, SessionsOpened
<1>9. TurnsTracked'
  BY <1>1, <1>2, <1>5 DEF ChatOK, TurnsTracked
<1>10. SharingTracked'
  BY <1>1, <1>2, <1>3, <1>6 DEF ChatOK, SharingTracked
<1> QED BY <1>1, <1>4, <1>7, <1>8, <1>9, <1>10 DEF ChatOK

-----------------------------------------------------------------------------
(* What is referred to.                                                     *)

\* A reference can be followed, and its pinned version says text.
Follows(e, text) ==
  /\ Found(e)
  /\ e.prompt # NoPrompt /\ e.number # Latest => Resolves(prompts[e.prompt], e.number, text)

\* Any reply that was not cut, in a transcript or still on its way into one.
CitesStand ==
  \A c \in Calls :
    calls[c].stage \in {"waiting", "answered"} /\ ~calls[c].cut =>
      Follows(calls[c].cites, calls[c].text)

TemplatesTyped == templates \in [Templates -> TemplateRows \cup {NoRow}]

LEMMA NothingFollows == \A text : Follows(Nothing, text)
BY DEF Follows, Found, Nothing

\* What a step follows is something it names, and so in use.
LEMMA ReferencesAreInUse ==
  ASSUME TemplatesTyped, NEW e \in References
  PROVE  /\ e \in Selectable
         /\ \E step \in InUse :
              /\ e.skills = step.skills
              /\ e.prompt # NoPrompt => e.prompt = step.prompt /\ e.number = step.number
<1>1. PICK t \in Templates :
        StoredTemplate(t) /\ \E step \in templates[t].steps : e = Checked(step)
  BY DEF References
<1>1a. PICK step \in templates[t].steps : e = Checked(step)
  BY <1>1
<1>2. step \in StepRows /\ step \in InUse
  BY <1>1 DEF TemplatesTyped, StoredTemplate, TemplateRows, InUse, Steps
<1>3. CASE step.library
  <2>1. e = [prompt |-> step.prompt, number |-> step.number, skills |-> step.skills]
    BY <1>1a, <1>3 DEF Checked
  <2> QED BY <1>2, <2>1 DEF StepRows, Selectable
<1>4. CASE ~step.library
  <2>1. e = [prompt |-> NoPrompt, number |-> Latest, skills |-> step.skills]
    BY <1>1a, <1>4 DEF Checked, Nothing
  <2> QED BY <1>2, <2>1 DEF StepRows, Selectable
<1> QED BY <1>3, <1>4

LEMMA FollowsWhenGrown ==
  ASSUME Grows, NEW e \in Selectable
  PROVE  /\ Found(e) => Found(e)'
         /\ \A text : Follows(e, text) => Follows(e, text)'
<1>1. e.prompt # NoPrompt => e.prompt \in Prompts
  BY DEF Selectable
<1>2. e.skills \subseteq Skills
  BY DEF Selectable
<1>3. Found(e) => Found(e)'
  BY <1>1, <1>2 DEF Grows, KeepsRow, Found
<1>4. ASSUME NEW text, Follows(e, text) PROVE Follows(e, text)'
  BY <1>1, <1>3, <1>4 DEF Grows, KeepsRow, Follows, Found
<1> QED BY <1>3, <1>4

LEMMA ReferencesWhenGrown ==
  ASSUME TypeOKChat, TemplatesTyped, TemplateRefsResolve, CitesStand, Grows,
         UNCHANGED <<calls, templates>>
  PROVE  TemplateRefsResolve' /\ CitesStand'
<1>1. References' = References
  BY DEF References, StoredTemplate
<1>2. TemplateRefsResolve'
  BY <1>1, ReferencesAreInUse, FollowsWhenGrown DEF TemplateRefsResolve
<1>3. \A c \in Calls : calls[c].cites \in Selectable
  BY DEF TypeOKChat, CallRows
<1>4. CitesStand'
  BY <1>3, FollowsWhenGrown DEF CitesStand
<1> QED BY <1>2, <1>4

\* A component goes: nobody may refer to it but a reply that is cut by that.
LEMMA ReferencesWhenCut ==
  ASSUME ChatOK, TemplateRefsResolve, CitesStand,
         NEW citing, Cut(citing), UNCHANGED <<sessions, asked, templates>>,
         NEW kept, References \subseteq kept,
         \A c \in Turns : c \notin citing,
         \A c \in Calls \ citing : calls[c].cites \in kept,
         \A e \in kept : Found(e) => Found(e)',
         \A e \in kept : \A text : Follows(e, text) => Follows(e, text)'
  PROVE  TemplateRefsResolve' /\ CitesStand'
<1>1. References' = References
  BY DEF References, StoredTemplate
<1>2. TemplateRefsResolve'
  BY <1>1 DEF TemplateRefsResolve
<1>3. ASSUME NEW c \in Calls, calls'[c].stage \in {"waiting", "answered"}, ~calls'[c].cut
      PROVE  Follows(calls[c].cites, calls[c].text)'
  <2>1. /\ calls[c].stage \in {"waiting", "answered"} /\ ~calls[c].cut /\ c \notin citing
        /\ calls'[c].cites = calls[c].cites /\ calls'[c].text = calls[c].text
    BY <1>3, CutStep
  <2> DEFINE e == calls[c].cites
             text == calls[c].text
  <2>2. Follows(e, text) /\ e \in kept
    BY <2>1 DEF CitesStand
  <2>3. ASSUME NEW x \in kept, NEW y, Follows(x, y), calls'[c].cites = x, calls'[c].text = y
        PROVE  Follows(calls[c].cites, calls[c].text)'
    <3>1. Follows(x, y)'
      BY <2>3
    <3> QED BY <2>3, <3>1 DEF Follows, Found
  <2> QED BY <2>1, <2>2, <2>3
<1> QED BY <1>2, <1>3 DEF CitesStand

LEMMA RemovePromptStep ==
  ASSUME RegistryOK, ChatOK, TemplatesTyped, TemplateRefsResolve, CitesStand,
         NEW u \in Principals, NEW p \in Prompts, RemovePrompt(u, p),
         UNCHANGED <<sessions, asked, templates>>
  PROVE  RegistryOK' /\ ChatOK' /\ TemplateRefsResolve' /\ CitesStand'
<1> DEFINE citing == {c \in Calls : calls[c].cites.prompt = p}
           kept == {e \in Selectable : e.prompt # p}
<1>1. /\ RegistryOK' /\ skills' = skills
      /\ \A q \in Prompts : q # p => prompts'[q] = prompts[q]
  BY DeletePromptStep DEF RemovePrompt
<1>2. Cut(citing) /\ ~PromptInUse(p)
  BY DEF RemovePrompt
<1>3. \A e \in Selectable : e.prompt # NoPrompt => e.prompt \in Prompts
  BY DEF Selectable
<1>4. \A e \in kept : Found(e) => Found(e)'
  BY <1>1, <1>3 DEF Found, StoredSkill, StoredPrompt
<1>5. \A e \in kept : \A text : Follows(e, text) => Follows(e, text)'
  BY <1>1, <1>3, <1>4 DEF Follows
<1>6. References \subseteq kept
  BY <1>2, ReferencesAreInUse, ChatAssumption DEF PromptInUse
<1>7. \A c \in Turns : c \notin citing
  BY <1>2 DEF PromptInUse, InUse
<1>8. \A c \in Calls \ citing : calls[c].cites \in kept
  BY DEF ChatOK, TypeOKChat, CallRows
<1>9. ChatOK'
  BY <1>2, CutStep, Zenon
<1> HIDE DEF citing, kept
<1>10. TemplateRefsResolve' /\ CitesStand'
  BY <1>2, <1>4, <1>5, <1>6, <1>7, <1>8, ReferencesWhenCut, Zenon
<1> QED BY <1>1, <1>9, <1>10

LEMMA RemoveVersionStep ==
  ASSUME RegistryOK, ChatOK, TemplatesTyped, TemplateRefsResolve, CitesStand,
         NEW u \in Principals, NEW p \in Prompts, NEW n \in Numbers, RemoveVersion(u, p, n),
         UNCHANGED <<sessions, asked, templates>>
  PROVE  RegistryOK' /\ ChatOK' /\ TemplateRefsResolve' /\ CitesStand'
<1> DEFINE citing == {c \in Calls : calls[c].cites.prompt = p /\ calls[c].cites.number = n}
           kept == {e \in Selectable : ~(e.prompt = p /\ e.number = n)}
<1>1. /\ RegistryOK' /\ skills' = skills
      /\ \A q \in Prompts : q # p => prompts'[q] = prompts[q]
      /\ StoredPrompt(p) /\ StoredPrompt(p)'
      /\ \A m : m # n =>
           /\ HasNumber(prompts[p], m) => HasNumber(prompts'[p], m)
           /\ \A text : Resolves(prompts[p], m, text) => Resolves(prompts'[p], m, text)
  BY DeletePromptVersionStep DEF RemoveVersion
<1>2. Cut(citing) /\ ~VersionInUse(p, n)
  BY DEF RemoveVersion
<1>3. \A e \in Selectable : e.prompt # NoPrompt => e.prompt \in Prompts
  BY DEF Selectable
<1>4. \A e \in kept : Found(e) => Found(e)'
  <2> SUFFICES ASSUME NEW e \in kept, Found(e) PROVE Found(e)'
    OBVIOUS
  <2>1. CASE e.prompt = p
    BY <1>1, <2>1 DEF Found, StoredSkill, StoredPrompt
  <2>2. CASE e.prompt # p
    BY <1>1, <1>3, <2>2 DEF Found, StoredSkill, StoredPrompt
  <2> QED BY <2>1, <2>2
<1>5. \A e \in kept : \A text : Follows(e, text) => Follows(e, text)'
  <2> SUFFICES ASSUME NEW e \in kept, NEW text, Follows(e, text) PROVE Follows(e, text)'
    OBVIOUS
  <2>1. CASE e.prompt = p
    BY <1>1, <1>4, <2>1 DEF Follows
  <2>2. CASE e.prompt # p
    BY <1>1, <1>3, <1>4, <2>2 DEF Follows
  <2> QED BY <2>1, <2>2
<1>6. References \subseteq kept
  BY <1>2, ReferencesAreInUse, ChatAssumption DEF VersionInUse
<1>7. \A c \in Turns : c \notin citing
  BY <1>2 DEF VersionInUse, InUse
<1>8. \A c \in Calls \ citing : calls[c].cites \in kept
  BY DEF ChatOK, TypeOKChat, CallRows
<1>9. ChatOK'
  BY <1>2, CutStep, Zenon
<1> HIDE DEF citing, kept
<1>10. TemplateRefsResolve' /\ CitesStand'
  BY <1>2, <1>4, <1>5, <1>6, <1>7, <1>8, ReferencesWhenCut, Zenon
<1> QED BY <1>1, <1>9, <1>10

LEMMA RemoveSkillStep ==
  ASSUME RegistryOK, ChatOK, TemplatesTyped, TemplateRefsResolve, CitesStand,
         NEW u \in Principals, NEW k \in Skills, RemoveSkill(u, k),
         UNCHANGED <<sessions, asked, templates>>
  PROVE  RegistryOK' /\ ChatOK' /\ TemplateRefsResolve' /\ CitesStand'
<1> DEFINE citing == {c \in Calls : k \in calls[c].cites.skills}
           kept == {e \in Selectable : k \notin e.skills}
<1>1. /\ RegistryOK' /\ prompts' = prompts
      /\ \A j \in Skills : j # k => skills'[j] = skills[j]
  BY DeleteSkillStep DEF RemoveSkill
<1>2. Cut(citing) /\ ~SkillInUse(k)
  BY DEF RemoveSkill
<1>3. \A e \in Selectable : e.skills \subseteq Skills
  BY DEF Selectable
<1>4. \A e \in kept : Found(e) => Found(e)'
  BY <1>1, <1>3 DEF Found, StoredSkill, StoredPrompt
<1>5. \A e \in kept : \A text : Follows(e, text) => Follows(e, text)'
  BY <1>1, <1>4 DEF Follows
<1>6. References \subseteq kept
  BY <1>2, ReferencesAreInUse DEF SkillInUse
<1>7. \A c \in Turns : c \notin citing
  BY <1>2 DEF SkillInUse, InUse
<1>8. \A c \in Calls \ citing : calls[c].cites \in kept
  BY DEF ChatOK, TypeOKChat, CallRows
<1>9. ChatOK'
  BY <1>2, CutStep, Zenon
<1> HIDE DEF citing, kept
<1>10. TemplateRefsResolve' /\ CitesStand'
  BY <1>2, <1>4, <1>5, <1>6, <1>7, <1>8, ReferencesWhenCut, Zenon
<1> QED BY <1>1, <1>9, <1>10

-----------------------------------------------------------------------------
(* Requests of a conversation.                                              *)

LEMMA SameRegistry ==
  ASSUME UNCHANGED registry
  PROVE  /\ RegistryOK => RegistryOK'
         /\ \A e : Found(e) => Found(e)'
         /\ \A e, text : Follows(e, text) => Follows(e, text)'
         /\ SeedsOwned => SeedsOwned'
BY DEF registry, RegistryOK, TypeOKRegistry, Stamped, ActiveIsNewest, SeedsOwned,
       StoredPrompt, StoredSkill, Found, Follows

\* The calls keep their references, but for c, which has one that is followed.
LEMMA CitesKept ==
  ASSUME CitesStand, UNCHANGED registry, NEW c \in Calls,
         \A d \in Calls : d # c =>
           /\ calls'[d].cites = calls[d].cites /\ calls'[d].text = calls[d].text
           /\ calls'[d].stage = calls[d].stage /\ calls'[d].cut = calls[d].cut,
         \/ calls'[c].stage = "refused"
         \/ Follows(calls'[c].cites, calls'[c].text)
         \/ /\ calls[c].stage = "waiting" /\ calls'[c].cut = calls[c].cut
            /\ calls'[c].cites = calls[c].cites /\ calls'[c].text = calls[c].text
  PROVE  CitesStand'
<1> SUFFICES ASSUME NEW d \in Calls, calls'[d].stage \in {"waiting", "answered"}, ~calls'[d].cut
             PROVE  Follows(calls[d].cites, calls[d].text)'
  BY DEF CitesStand
<1>1. Follows(calls'[d].cites, calls'[d].text)
  BY DEF CitesStand
<1> DEFINE e == calls'[d].cites
           text == calls'[d].text
<1>2. ASSUME NEW x, NEW y, Follows(x, y), calls'[d].cites = x, calls'[d].text = y
      PROVE  Follows(calls[d].cites, calls[d].text)'
  <2>1. Follows(x, y)'
    BY <1>2, SameRegistry
  <2> QED BY <1>2, <2>1 DEF Follows, Found
<1> QED BY <1>1, <1>2

LEMMA OpenedHolds ==
  ASSUME ChatOK, NEW u \in Principals, NEW s \in Sessions
  PROVE  /\ Opened(u, s) \in SessionRows
         /\ \A d \in Opened(u, s).turns : calls[d].stage = "answered"
         /\ \A d \in Calls : calls[d].stage = "answered" /\ calls[d].session = s =>
              d \in Opened(u, s).turns \/ Overlapped(d)
         /\ Grants(Opened(u, s).sharing, asked[s]) \/ Resaved(s)
<1>1. CASE StoredSession(s)
  <2>1. Opened(u, s) = sessions[s]
    BY <1>1 DEF Opened
  <2>2. \A d \in sessions[s].turns : calls[d].stage = "answered"
    BY <1>1 DEF ChatOK, TurnsAnswered
  <2>3. Grants(sessions[s].sharing, asked[s]) \/ Resaved(s)
    BY <1>1 DEF ChatOK, SharingTracked
  <2> QED BY <2>1, <2>2, <2>3, OpenedType DEF ChatOK, TurnsTracked
<1>2. CASE ~StoredSession(s)
  <2>1. Opened(u, s) = [owner |-> u, sharing |-> Private, turns |-> {}]
    BY <1>2 DEF Opened
  <2>2. \A d \in Calls : calls[d].stage = "answered" => calls[d].session # s
    BY <1>2 DEF ChatOK, SessionsOpened
  <2>3. asked[s] = Private
    BY <1>2 DEF ChatOK, SharingTracked
  <2> QED BY <2>1, <2>2, <2>3, OpenedType, PrivateGrants DEF ChatOK
<1> QED BY <1>1, <1>2

LEMMA BlockStep ==
  ASSUME ChatOK, CitesStand, UNCHANGED registry,
         NEW c \in Calls, NEW u \in Principals, NEW s \in Sessions, Block(c, u, s)
  PROVE  ChatOK' /\ CitesStand'
<1> DEFINE base == Opened(u, s)
           row == Fresh("answered", s)
<1>1. /\ row \in CallRows /\ row.stage = "answered" /\ row.session = s /\ row.copy = NoRow
      /\ row.cites = Nothing
  BY FreshType DEF Fresh
<1>2. /\ calls[c].stage # "answered" /\ UNCHANGED asked
      /\ sessions' = [sessions EXCEPT ![s] = [base EXCEPT !.turns = @ \cup {c}]]
      /\ calls' = [Missing(s, c) EXCEPT ![c] = row]
  BY DEF Block
<1>3. /\ base \in SessionRows
      /\ \A d \in base.turns : calls[d].stage = "answered"
      /\ \A d \in Calls : calls[d].stage = "answered" /\ calls[d].session = s =>
           d \in base.turns \/ d \in row.missed \/ Overlapped(d)
      /\ Grants(base.sharing, asked[s]) \/ "sharing" \in row.missed \/ Resaved(s)
  BY OpenedHolds
<1>4. /\ calls'[c] = row
      /\ \A d \in Calls : d # c =>
           /\ calls'[d].cites = calls[d].cites /\ calls'[d].text = calls[d].text
           /\ calls'[d].stage = calls[d].stage /\ calls'[d].cut = calls[d].cut
  <2>1. \A d \in Calls : calls'[d] = IF d = c THEN row ELSE Missing(s, c)[d]
    BY <1>2 DEF Missing
  <2>2. ASSUME NEW d \in Calls, d # c
        PROVE  /\ calls'[d].cites = calls[d].cites /\ calls'[d].text = calls[d].text
               /\ calls'[d].stage = calls[d].stage /\ calls'[d].cut = calls[d].cut
    <3>1. calls[d] \in CallRows
      BY DEF ChatOK, TypeOKChat
    <3>2. calls'[d] = IF Waiting(d) /\ calls[d].session = s
                      THEN [calls[d] EXCEPT !.missed = @ \cup {c}] ELSE calls[d]
      BY <2>1, <2>2 DEF Missing
    <3> QED BY <3>1, <3>2 DEF CallRows
  <2> QED BY <2>1, <2>2
<1> HIDE DEF base, row
<1>5. ChatOK'
  BY <1>1, <1>2, <1>3, SaveStep, ZenonT(60)
<1>6. CitesStand'
  <2>1. Follows(calls'[c].cites, calls'[c].text)
    BY <1>1, <1>4, NothingFollows
  <2> QED BY <1>4, <2>1, CitesKept, Zenon
<1> QED BY <1>5, <1>6

LEMMA AnswerStep ==
  ASSUME ChatOK, CitesStand, UNCHANGED registry, NEW c \in Calls, Answer(c)
  PROVE  ChatOK' /\ CitesStand'
<1> DEFINE s == calls[c].session
           base == calls[c].copy
           row == Finished(c)
<1>0. calls[c] \in CallRows /\ Waiting(c) /\ calls[c].stage = "waiting"
  BY DEF ChatOK, TypeOKChat, Answer, Waiting
<1>1. /\ row \in CallRows /\ row.stage = "answered" /\ row.session = s /\ row.copy = NoRow
      /\ row.cites = calls[c].cites /\ row.text = calls[c].text /\ row.cut = calls[c].cut
      /\ row.missed = calls[c].missed
  BY <1>0 DEF Finished, CallRows
<1>2. /\ s \in Sessions /\ base \in SessionRows
  BY <1>0 DEF ChatOK, TypeOKChat, CallRows
<1>3. /\ calls[c].stage # "answered" /\ UNCHANGED asked
      /\ sessions' = [sessions EXCEPT ![s] = [base EXCEPT !.turns = @ \cup {c}]]
      /\ calls' = [Missing(s, c) EXCEPT ![c] = row]
  BY <1>0 DEF Answer
<1>4. /\ \A d \in base.turns : calls[d].stage = "answered"
      /\ \A d \in Calls : calls[d].stage = "answered" /\ calls[d].session = s =>
           d \in base.turns \/ d \in row.missed \/ Overlapped(d)
      /\ Grants(base.sharing, asked[s]) \/ "sharing" \in row.missed \/ Resaved(s)
  <2>1. \A d \in base.turns : calls[d].stage = "answered"
    BY <1>0 DEF ChatOK, TurnsAnswered
  <2>2. ASSUME NEW d \in Calls, calls[d].stage = "answered", calls[d].session = s
        PROVE  d \in base.turns \/ d \in row.missed \/ Overlapped(d)
    BY <1>0, <1>1, <2>2 DEF ChatOK, TurnsTracked
  <2>3. Grants(base.sharing, asked[s]) \/ "sharing" \in row.missed \/ Resaved(s)
    BY <1>0, <1>1, <1>2 DEF ChatOK, SharingTracked
  <2> QED BY <2>1, <2>2, <2>3
<1>5. /\ calls'[c] = row
      /\ \A d \in Calls : d # c =>
           /\ calls'[d].cites = calls[d].cites /\ calls'[d].text = calls[d].text
           /\ calls'[d].stage = calls[d].stage /\ calls'[d].cut = calls[d].cut
  <2>1. \A d \in Calls : calls'[d] = IF d = c THEN row ELSE Missing(s, c)[d]
    BY <1>3 DEF Missing
  <2>2. ASSUME NEW d \in Calls, d # c
        PROVE  /\ calls'[d].cites = calls[d].cites /\ calls'[d].text = calls[d].text
               /\ calls'[d].stage = calls[d].stage /\ calls'[d].cut = calls[d].cut
    <3>1. calls[d] \in CallRows
      BY DEF ChatOK, TypeOKChat
    <3>2. calls'[d] = IF Waiting(d) /\ calls[d].session = s
                      THEN [calls[d] EXCEPT !.missed = @ \cup {c}] ELSE calls[d]
      BY <2>1, <2>2 DEF Missing
    <3> QED BY <3>1, <3>2 DEF CallRows
  <2> QED BY <2>1, <2>2
<1> HIDE DEF s, base, row
<1>6. ChatOK'
  BY <1>1, <1>2, <1>3, <1>4, SaveStep, Zenon
<1>7. CitesStand'
  <2>1. /\ calls[c].stage = "waiting" /\ calls'[c].cut = calls[c].cut
        /\ calls'[c].cites = calls[c].cites /\ calls'[c].text = calls[c].text
    BY <1>0, <1>1, <1>5
  <2> QED BY <1>5, <2>1, CitesKept, Zenon
<1> QED BY <1>6, <1>7

LEMMA RefuseStep ==
  ASSUME ChatOK, CitesStand, UNCHANGED registry,
         NEW c \in Calls, NEW u \in Principals, NEW s \in Sessions, Refuse(c, u, s)
  PROVE  ChatOK' /\ CitesStand'
<1> DEFINE row == Fresh("refused", NoSession)
<1>1. row \in CallRows /\ row.stage = "refused" /\ row.copy = NoRow
  BY FreshType DEF Fresh
<1>2. /\ calls[c].stage = "new" /\ UNCHANGED asked
      /\ sessions' = [sessions EXCEPT ![s] = Opened(u, s)]
      /\ calls' = [calls EXCEPT ![c] = row]
  BY DEF Refuse
<1>3. \A d \in Calls : calls'[d] = IF d = c THEN row ELSE calls[d]
  BY <1>2 DEF ChatOK, TypeOKChat
<1> HIDE DEF row
<1>4. ChatOK'
  BY <1>1, <1>2, OpenStep, Zenon
<1>5. CitesStand'
  <2>1. calls'[c].stage = "refused"
    BY <1>1, <1>3
  <2>2. \A d \in Calls : d # c =>
          /\ calls'[d].cites = calls[d].cites /\ calls'[d].text = calls[d].text
          /\ calls'[d].stage = calls[d].stage /\ calls'[d].cut = calls[d].cut
    BY <1>3
  <2> QED BY <2>1, <2>2, CitesKept, Zenon
<1> QED BY <1>4, <1>5

LEMMA AskStep ==
  ASSUME ChatOK, CitesStand, UNCHANGED registry,
         NEW c \in Calls, NEW u \in Principals, NEW s \in Sessions,
         NEW e \in Selections \cup {Nothing}, NEW cites \in {e, Nothing},
         Ask(c, u, s, e, cites)
  PROVE  ChatOK' /\ CitesStand'
<1>1. PICK text \in Texts \cup {NoText} :
        /\ Says(cites, text)
        /\ calls' = [calls EXCEPT ![c] =
             [Fresh("waiting", s) EXCEPT !.copy = Opened(u, s), !.cites = cites, !.text = text]]
  BY DEF Ask
<1> DEFINE row == [Fresh("waiting", s) EXCEPT !.copy = Opened(u, s), !.cites = cites, !.text = text]
<1>2. Opened(u, s) \in SessionRows
  BY OpenedType DEF ChatOK
<1>3. e \in Selectable /\ cites \in Selectable
  BY ChatAssumption DEF Selectable, Nothing
<1>4. /\ row \in CallRows /\ row.stage = "waiting" /\ row.session = s
      /\ row.copy = Opened(u, s) /\ row.cites = cites /\ row.text = text
  <2>1. Fresh("waiting", s) \in CallRows
    BY FreshType
  <2> QED BY <1>2, <1>3, <2>1 DEF CallRows, Fresh
<1>5. /\ calls[c].stage = "new" /\ UNCHANGED asked
      /\ sessions' = [sessions EXCEPT ![s] = Opened(u, s)]
      /\ calls' = [calls EXCEPT ![c] = row]
  BY <1>1 DEF Ask
<1>6. \A d \in Calls : calls'[d] = IF d = c THEN row ELSE calls[d]
  BY <1>5 DEF ChatOK, TypeOKChat
<1>7. Follows(cites, text)
  <2>1. CASE cites = e
    <3>1. Found(e)
      BY DEF Ask, Assembles, Found
    <3>2. e.prompt # NoPrompt /\ e.number # Latest => Resolves(prompts[e.prompt], e.number, text)
      BY <1>1, <2>1 DEF Says
    <3> QED BY <2>1, <3>1, <3>2 DEF Follows
  <2>2. CASE cites = Nothing
    BY <2>2, NothingFollows
  <2> QED BY <2>1, <2>2
<1> HIDE DEF row
<1>8. ChatOK'
  BY <1>4, <1>5, OpenStep, Zenon
<1>9. CitesStand'
  <2>1. Follows(calls'[c].cites, calls'[c].text)
    BY <1>4, <1>6, <1>7
  <2>2. \A d \in Calls : d # c =>
          /\ calls'[d].cites = calls[d].cites /\ calls'[d].text = calls[d].text
          /\ calls'[d].stage = calls[d].stage /\ calls'[d].cut = calls[d].cut
    BY <1>6
  <2> QED BY <2>1, <2>2, CitesKept, Zenon
<1> QED BY <1>8, <1>9

-----------------------------------------------------------------------------
(* The whole.                                                               *)

\* The store as a program without tenants left it, before the first start.
Untouched ==
  /\ ~up /\ OnlySeeds
  /\ \A t \in Templates : StoredTemplate(t) => templates[t].owner = Legacy
  /\ \A c \in Calls : calls[c].stage = "new"

IInv ==
  /\ RegistryOK /\ ChatOK /\ TemplatesTyped /\ up \in BOOLEAN
  /\ TemplateRefsResolve /\ CitesStand
  /\ SeedsOwned \/ Untouched

LEMMA InitIInv == Init => IInv
<1> SUFFICES ASSUME Init PROVE IInv
  OBVIOUS
<1>1. PICK found \in SUBSET Seeds, text \in [Seeds -> Texts] :
        prompts = [p \in Prompts |-> IF p \in found THEN LegacyRow(p, text[p]) ELSE NoRow]
  BY DEF Init, InitRegistry
<1>2. clock = 1 /\ Seeds \subseteq Prompts
  BY RegistryAssumption DEF Init, InitRegistry
<1>3. ASSUME NEW p \in found
      PROVE  /\ LegacyRow(p, text[p]) \in PromptRows /\ ActiveNewest(LegacyRow(p, text[p]))
             /\ StampedRow(LegacyRow(p, text[p]), clock)
  <2>1. Legacy \in Owners /\ "organization" \in AllVisibilities /\ 0 \in Nat /\ text[p] \in Texts
    BY DEF Owners, AllVisibilities
  <2>2. /\ LegacyRow(p, text[p]) \in PromptRows /\ ActiveNewest(LegacyRow(p, text[p]))
        /\ \A t \in Nat : 0 <= t => StampedRow(LegacyRow(p, text[p]), t)
    BY <2>1, NewPromptRow DEF LegacyRow
  <2> QED BY <1>2, <2>2
<1>4. skills \in [Skills -> SkillRows \cup {NoRow}]
  <2>1. LegacySkill \in SkillRows
    BY RegistryAssumption DEF LegacySkill, SkillRows, Owners, AllVisibilities
  <2> QED BY <2>1 DEF Init, InitRegistry
<1>5. RegistryOK
  <2>1. TypeOKRegistry
    BY <1>1, <1>2, <1>3, <1>4 DEF TypeOKRegistry
  <2>2. \A p \in Prompts : StoredPrompt(p) => p \in found /\ prompts[p] = LegacyRow(p, text[p])
    BY <1>1 DEF StoredPrompt
  <2>3. Stamped
    BY <1>3, <2>2 DEF Stamped
  <2>4. ActiveIsNewest
    BY <1>3, <2>2 DEF ActiveIsNewest, ActiveNewest
  <2> QED BY <2>1, <2>3, <2>4 DEF RegistryOK
<1>6. /\ \A s \in Sessions : ~StoredSession(s) /\ asked[s] = Private
      /\ \A c \in Calls : calls[c].stage = "new" /\ calls[c].copy = NoRow
      /\ \A t \in Templates : StoredTemplate(t) => templates[t].owner = Legacy
  BY DEF Init, InitChat, StoredSession, StoredTemplate, Fresh
<1>7. ChatOK
  <2>1. calls \in [Calls -> CallRows]
    BY FreshType DEF Init, InitChat
  <2>2. asked \in [Sessions -> Sharing]
    BY DEF Init, InitChat, Private, Sharing
  <2>3. TypeOKChat
    BY <1>6, <2>1, <2>2 DEF TypeOKChat, Init, InitChat, Waiting
  <2> QED BY <1>6, <2>3 DEF ChatOK, TurnsAnswered, SessionsOpened, TurnsTracked, SharingTracked, Waiting
<1>8. TemplatesTyped /\ up \in BOOLEAN /\ ~up
  BY TemplateAssumption DEF Init, TemplatesTyped, TemplateRows
<1>9. TemplateRefsResolve /\ CitesStand
  BY <1>6 DEF TemplateRefsResolve, References, CitesStand
<1>10. OnlySeeds
  BY <1>1 DEF OnlySeeds, StoredPrompt
<1> QED BY <1>5, <1>6, <1>7, <1>8, <1>9, <1>10 DEF IInv, Untouched

LEMMA ChatUntouched ==
  ASSUME UNCHANGED chat
  PROVE  ChatOK => ChatOK'
BY DEF chat, ChatOK, TypeOKChat, TurnsAnswered, SessionsOpened, TurnsTracked, SharingTracked,
       Overlapped, Resaved, StoredSession, Waiting

\* A registry grows, everything else stays.
LEMMA GrowthStep ==
  ASSUME IInv, RegistryOK', SeedsOwned', Grows, UNCHANGED <<chat, templates>>, up' \in BOOLEAN
  PROVE  IInv'
<1>1. UNCHANGED <<calls, templates>> /\ TypeOKChat
  BY DEF chat, IInv, ChatOK
<1>2. TemplateRefsResolve' /\ CitesStand'
  BY <1>1, ReferencesWhenGrown DEF IInv
<1>3. ChatOK' /\ TemplatesTyped'
  BY ChatUntouched DEF IInv, TemplatesTyped
<1> QED BY <1>2, <1>3 DEF IInv

LEMMA EditRegistriesStep ==
  ASSUME IInv, up, NEW u \in Principals, EditRegistries(u)
  PROVE  IInv'
<1>1. UNCHANGED <<chat, templates>> /\ up' \in BOOLEAN /\ RegistryOK /\ SeedsOwned
  BY DEF EditRegistries, IInv, Untouched
<1>2. RegistryOK' /\ Grows /\ SeedsOwned'
  <2>1. ASSUME NEW p \in Prompts, NEW text \in Texts, NEW visibility \in Visibilities,
               CreatePrompt(u, p, visibility, text)
        PROVE  RegistryOK' /\ Grows /\ SeedsOwned'
    BY <1>1, <2>1, CreatePromptStep, OwnersStay
  <2>2. ASSUME NEW p \in Prompts, NEW text \in Texts, NEW n \in Numbers,
               AddPromptVersion(u, p, n, text)
        PROVE  RegistryOK' /\ Grows /\ SeedsOwned'
    BY <1>1, <2>2, AddPromptVersionStep, OwnersStay
  <2>3. ASSUME NEW p \in Prompts, NEW visibility \in Visibilities, SharePrompt(u, p, visibility)
        PROVE  RegistryOK' /\ Grows /\ SeedsOwned'
    BY <1>1, <2>3, SharePromptStep, OwnersStay
  <2>4. ASSUME NEW k \in Skills,
               \/ CreateSkill(u, k)
               \/ \E n \in Numbers : AddSkillVersion(u, k, n)
               \/ \E visibility \in Visibilities : ShareSkill(u, k, visibility)
        PROVE  RegistryOK' /\ Grows /\ SeedsOwned'
    <3>1. UNCHANGED prompts
      BY <2>4 DEF CreateSkill, AddSkillVersion, ShareSkill
    <3>2. SeedsOwned'
      BY <1>1, <3>1 DEF SeedsOwned, StoredPrompt
    <3>3. RegistryOK' /\ Grows
      BY <1>1, <2>4, SkillStep
    <3> QED BY <3>2, <3>3
  <2> QED BY <2>1, <2>2, <2>3, <2>4 DEF EditRegistries
<1> QED BY <1>1, <1>2, GrowthStep

LEMMA RemoveStep ==
  ASSUME IInv, up, NEW u \in Principals, Remove(u)
  PROVE  IInv'
<1>1. /\ UNCHANGED <<sessions, asked, templates, up>> /\ SeedsOwned
      /\ RegistryOK /\ ChatOK /\ TemplatesTyped /\ TemplateRefsResolve /\ CitesStand
  BY DEF Remove, IInv, Untouched
<1>2. RegistryOK' /\ ChatOK' /\ TemplateRefsResolve' /\ CitesStand' /\ SeedsOwned'
  <2>1. ASSUME NEW p \in Prompts, RemovePrompt(u, p)
        PROVE  RegistryOK' /\ ChatOK' /\ TemplateRefsResolve' /\ CitesStand' /\ SeedsOwned'
    <3>1. SeedsOwned'
      BY <1>1, <2>1, OwnersStay DEF RemovePrompt
    <3> QED BY <1>1, <2>1, <3>1, RemovePromptStep
  <2>2. ASSUME NEW p \in Prompts, NEW n \in Numbers, RemoveVersion(u, p, n)
        PROVE  RegistryOK' /\ ChatOK' /\ TemplateRefsResolve' /\ CitesStand' /\ SeedsOwned'
    <3>1. SeedsOwned'
      BY <1>1, <2>2, OwnersStay DEF RemoveVersion
    <3> QED BY <1>1, <2>2, <3>1, RemoveVersionStep
  <2>3. ASSUME NEW k \in Skills, RemoveSkill(u, k)
        PROVE  RegistryOK' /\ ChatOK' /\ TemplateRefsResolve' /\ CitesStand' /\ SeedsOwned'
    <3>1. SeedsOwned'
      BY <1>1, <2>3 DEF RemoveSkill, DeleteSkill, SeedsOwned, StoredPrompt
    <3> QED BY <1>1, <2>3, <3>1, RemoveSkillStep
  <2> QED BY <2>1, <2>2, <2>3 DEF Remove
<1>3. TemplatesTyped' /\ up' \in BOOLEAN
  BY <1>1 DEF IInv, TemplatesTyped
<1> QED BY <1>2, <1>3 DEF IInv

LEMMA EditTemplatesStep ==
  ASSUME IInv, up, NEW u \in Principals, EditTemplates(u)
  PROVE  IInv'
<1>1. UNCHANGED <<registry, chat, up>> /\ SeedsOwned
  BY DEF EditTemplates, IInv, Untouched
<1>2. RegistryOK' /\ SeedsOwned' /\ ChatOK'
  <2>1. UNCHANGED registry /\ UNCHANGED chat /\ RegistryOK /\ SeedsOwned /\ ChatOK
    BY <1>1 DEF IInv
  <2>2. (RegistryOK => RegistryOK') /\ (SeedsOwned => SeedsOwned')
    BY <2>1, SameRegistry
  <2> QED BY <2>1, <2>2, ChatUntouched
<1>3. CitesStand'
  BY <1>1 DEF IInv, CitesStand, Follows, Found, StoredPrompt, StoredSkill, registry, chat
<1>4. \A e : Found(e) => Found(e)'
  BY <1>1, SameRegistry
<1>5. ASSUME NEW steps \in StepLists, Accepts(u, steps)
      PROVE  steps \in SUBSET StepRows /\ \A e \in steps : Found(Checked(e))
  BY <1>5, TemplateAssumption DEF Accepts, Assembles, Found
<1>6. \E t \in Templates, row \in TemplateRows \cup {NoRow} :
        /\ templates' = [templates EXCEPT ![t] = row]
        /\ row # NoRow => \A e \in row.steps : Found(Checked(e))
  <2>1. ASSUME NEW t \in Templates, NEW steps \in StepLists, CreateTemplate(u, t, steps)
        PROVE  \E row \in TemplateRows :
                 /\ templates' = [templates EXCEPT ![t] = row]
                 /\ \A e \in row.steps : Found(Checked(e))
    <3> DEFINE row == [owner |-> u, steps |-> steps]
    <3>1. row \in TemplateRows /\ \A e \in row.steps : Found(Checked(e))
      BY <1>5, <2>1 DEF CreateTemplate, TemplateRows
    <3> QED BY <2>1, <3>1 DEF CreateTemplate
  <2>2. ASSUME NEW t \in Templates, NEW steps \in StepLists, UpdateSteps(u, t, steps)
        PROVE  \E row \in TemplateRows :
                 /\ templates' = [templates EXCEPT ![t] = row]
                 /\ \A e \in row.steps : Found(Checked(e))
    <3> DEFINE row == [templates[t] EXCEPT !.steps = steps]
    <3>1. templates[t] \in TemplateRows
      BY <2>2 DEF UpdateSteps, StoredTemplate, IInv, TemplatesTyped
    <3>2. row \in TemplateRows /\ row.steps = steps
      BY <1>5, <2>2, <3>1 DEF UpdateSteps, TemplateRows
    <3>3. templates' = [templates EXCEPT ![t] = row]
      BY <2>2, <3>1 DEF UpdateSteps, IInv, TemplatesTyped, TemplateRows
    <3>4. \A e \in steps : Found(Checked(e))
      BY <1>5, <2>2 DEF UpdateSteps
    <3> HIDE DEF row
    <3> QED BY <3>2, <3>3, <3>4
  <2>3. ASSUME NEW t \in Templates, DeleteTemplate(u, t)
        PROVE  templates' = [templates EXCEPT ![t] = NoRow]
    BY <2>3 DEF DeleteTemplate
  <2> QED BY <2>1, <2>2, <2>3 DEF EditTemplates
<1>7. PICK t \in Templates, row \in TemplateRows \cup {NoRow} :
        /\ templates' = [templates EXCEPT ![t] = row]
        /\ row # NoRow => \A e \in row.steps : Found(Checked(e))
  BY <1>6
<1>8. TemplatesTyped'
  BY <1>7 DEF IInv, TemplatesTyped
<1>9. ASSUME NEW e \in References' PROVE Found(e)
  <2>1. PICK x \in Templates :
          /\ templates'[x] # NoRow /\ templates'[x].owner # Legacy
          /\ \E step \in templates'[x].steps : e = Checked(step)
    BY <1>9 DEF References, StoredTemplate
  <2>2. CASE x = t
    BY <1>7, <2>1, <2>2 DEF IInv, TemplatesTyped
  <2>3. CASE x # t
    <3>1. templates'[x] = templates[x]
      BY <1>7, <2>3 DEF IInv, TemplatesTyped
    <3>2. e \in References
      BY <2>1, <3>1 DEF References, StoredTemplate
    <3> QED BY <3>2 DEF IInv, TemplateRefsResolve
  <2> QED BY <2>2, <2>3
<1>10. TemplateRefsResolve'
  BY <1>4, <1>9 DEF TemplateRefsResolve
<1> QED BY <1>1, <1>2, <1>3, <1>8, <1>10 DEF IInv

\* A step of the sessions leaves the registries and the templates alone.
LEMMA ChatStep ==
  ASSUME IInv, ChatOK', CitesStand', UNCHANGED <<registry, templates>>, up' \in BOOLEAN, SeedsOwned
  PROVE  IInv'
<1>1. RegistryOK' /\ SeedsOwned'
  <2>1. UNCHANGED registry /\ RegistryOK
    BY DEF IInv
  <2>2. (RegistryOK => RegistryOK') /\ (SeedsOwned => SeedsOwned')
    BY <2>1, SameRegistry
  <2> QED BY <2>1, <2>2
<1>2. TemplatesTyped' /\ References' = References
  BY DEF IInv, TemplatesTyped, References, StoredTemplate
<1>3. TemplateRefsResolve'
  BY <1>2, SameRegistry DEF IInv, TemplateRefsResolve
<1> QED BY <1>1, <1>2, <1>3 DEF IInv

LEMMA ConverseStep ==
  ASSUME IInv, up, NEW u \in Principals, Converse(u)
  PROVE  IInv'
<1>1. UNCHANGED <<registry, templates>> /\ up' \in BOOLEAN /\ SeedsOwned /\ ChatOK /\ CitesStand
  BY DEF Converse, IInv, Untouched
<1>2. ChatOK' /\ CitesStand'
  <2>1. ASSUME NEW s \in Sessions, NEW c \in Calls, Block(c, u, s) \/ Refuse(c, u, s)
        PROVE  ChatOK' /\ CitesStand'
    BY <1>1, <2>1, BlockStep, RefuseStep
  <2>2. ASSUME NEW s \in Sessions, NEW c \in Calls, NEW e \in Selections \cup {Nothing},
               NEW cites \in {e, Nothing}, Ask(c, u, s, e, cites)
        PROVE  ChatOK' /\ CitesStand'
    BY <1>1, <2>2, AskStep
  <2>3. ASSUME NEW s \in Sessions, NEW sharing \in Sharings, UpdateSharing(u, s, sharing)
        PROVE  ChatOK' /\ CitesStand'
    <3>1. ChatOK'
      BY <1>1, <2>3, UpdateSharingStep
    <3>2. \A c \in Calls : /\ calls'[c].stage = calls[c].stage /\ calls'[c].cites = calls[c].cites
                           /\ calls'[c].text = calls[c].text /\ calls'[c].cut = calls[c].cut
      <4> SUFFICES ASSUME NEW c \in Calls
                   PROVE  /\ calls'[c].stage = calls[c].stage /\ calls'[c].cites = calls[c].cites
                          /\ calls'[c].text = calls[c].text /\ calls'[c].cut = calls[c].cut
        OBVIOUS
      <4>1. calls[c] \in CallRows
        BY <1>1 DEF ChatOK, TypeOKChat
      <4>2. calls'[c] = IF Waiting(c) /\ calls[c].session = s
                        THEN [calls[c] EXCEPT !.missed = @ \cup {"sharing"}] ELSE calls[c]
        BY <2>3 DEF UpdateSharing, Missing
      <4> QED BY <4>1, <4>2 DEF CallRows
    <3>3. CitesStand'
      BY <1>1, <3>2
      DEF CitesStand, Follows, Found, StoredPrompt, StoredSkill, HasNumber, Resolves, registry
    <3> QED BY <3>1, <3>3
  <2> QED BY <2>1, <2>2, <2>3 DEF Converse
<1> QED BY <1>1, <1>2, ChatStep

LEMMA CrashStep ==
  ASSUME IInv, Crash
  PROVE  IInv'
<1>1. /\ UNCHANGED <<registry, templates>> /\ up' \in BOOLEAN /\ SeedsOwned /\ ChatOK /\ LoseCalls
  BY DEF Crash, IInv, Untouched, registry
<1>2. ChatOK'
  BY <1>1, LoseCallsStep
<1>3. \A c \in Calls : calls'[c] = calls[c] \/ calls'[c].stage = "refused"
  BY <1>1 DEF LoseCalls, Fresh
<1>4. CitesStand'
  BY <1>1, <1>3
  DEF IInv, CitesStand, Follows, Found, StoredPrompt, StoredSkill, HasNumber, Resolves, registry
<1> QED BY <1>1, <1>2, <1>4, ChatStep

LEMMA StartStep ==
  ASSUME IInv, Start
  PROVE  IInv'
<1>1. /\ UNCHANGED <<chat, templates>> /\ up' = TRUE /\ Seed /\ RegistryOK
  BY DEF Start, IInv
<1>2. RegistryOK' /\ SeedsOwned' /\ (SeedsOwned => Grows)
  BY <1>1, SeedStep
<1>3. CASE SeedsOwned
  BY <1>1, <1>2, <1>3, GrowthStep
<1>4. CASE Untouched
  <2>1. References' = {}
    BY <1>1, <1>4 DEF Untouched, References, StoredTemplate
  <2>2. CitesStand'
    BY <1>1, <1>4 DEF Untouched, CitesStand, chat
  <2>3. ChatOK' /\ TemplatesTyped'
    BY <1>1, ChatUntouched DEF IInv, TemplatesTyped
  <2> QED BY <1>1, <1>2, <2>1, <2>2, <2>3 DEF IInv, TemplateRefsResolve
<1> QED BY <1>3, <1>4 DEF IInv

LEMMA NextIInv == IInv /\ [Next]_vars => IInv'
<1> SUFFICES ASSUME IInv, [Next]_vars PROVE IInv'
  OBVIOUS
<1>1. ASSUME NEW u \in Principals, Request(u) PROVE IInv'
  BY <1>1, EditRegistriesStep, RemoveStep, EditTemplatesStep, ConverseStep DEF Request
<1>2. CASE up /\ Reply
  <2>1. PICK c \in Calls : Answer(c)
    BY <1>2 DEF Reply
  <2>2. UNCHANGED <<registry, templates>> /\ up' \in BOOLEAN /\ SeedsOwned /\ ChatOK /\ CitesStand
    BY <1>2 DEF Reply, IInv, Untouched
  <2>3. ChatOK' /\ CitesStand'
    BY <2>1, <2>2, AnswerStep
  <2> QED BY <2>2, <2>3, ChatStep
<1>3. CASE UNCHANGED vars
  <2>1. UNCHANGED <<registry, chat, templates, up>>
    BY <1>3 DEF vars, registry, chat
  <2>2. RegistryOK' /\ ChatOK'
    BY <2>1, SameRegistry, ChatUntouched DEF IInv
  <2>3. TemplatesTyped' /\ References' = References
    BY <2>1 DEF IInv, TemplatesTyped, References, StoredTemplate
  <2>4. TemplateRefsResolve'
    BY <2>1, <2>3, SameRegistry DEF IInv, TemplateRefsResolve
  <2>5. CitesStand'
    BY <2>1
    DEF IInv, CitesStand, Follows, Found, StoredPrompt, StoredSkill, HasNumber, Resolves,
        registry, chat
  <2>6. (SeedsOwned \/ Untouched)'
    BY <2>1 DEF IInv, SeedsOwned, Untouched, OnlySeeds, StoredPrompt, StoredTemplate, registry, chat
  <2> QED BY <2>1, <2>2, <2>3, <2>4, <2>5, <2>6 DEF IInv
<1> QED BY <1>1, <1>2, <1>3, CrashStep, StartStep DEF Next

LEMMA Invariance == Spec => []IInv
BY InitIInv, NextIInv, PTL DEF Spec

-----------------------------------------------------------------------------
(* The theorems.                                                            *)

\* The stores hold well-formed rows, and the sessions and calls fit together.
THEOREM LibraryIsWellTyped == Spec => []TypeOK
<1>1. IInv => TypeOK
  BY DEF IInv, TypeOK, RegistryOK, ChatOK, TemplatesTyped
<1> QED BY <1>1, Invariance, PTL

\* No template of a request ever follows what was deleted, for any steps, also
\* such that name more than they follow, and any editors, beside any legacy
\* templates (server.py:1873-1945, 2561-2606).
THEOREM TemplatesResolve == Spec => []TemplateRefsResolve
<1>1. IInv => TemplateRefsResolve
  BY DEF IInv
<1> QED BY <1>1, Invariance, PTL

\* A transcript's citations stand, unless one was cut while it was in none
\* (server.py:1915-1940, prompts.py:298-310).
THEOREM CitationsStand == Spec => []PinnedTextStands
<1>1. ASSUME IInv PROVE PinnedTextStands
  <2> SUFFICES ASSUME NEW c \in Turns, ~calls[c].cut
               PROVE  Follows(calls[c].cites, calls[c].text)
    BY DEF PinnedTextStands, Follows
  <2>1. PICK s \in Sessions : StoredSession(s) /\ c \in sessions[s].turns
    BY DEF Turns
  <2>2. c \in Calls /\ calls[c].stage = "answered"
    BY <1>1, <2>1
    DEF IInv, ChatOK, TurnsAnswered, TypeOKChat, SessionRows, StoredSession
  <2> QED BY <1>1, <2>2 DEF IInv, CitesStand
<1> QED BY <1>1, Invariance, PTL

\* An unpinned prompt runs on its newest version (prompts.py:420-448, 494-513).
THEOREM NewestRuns == Spec => []ActiveIsNewest
<1>1. IInv => ActiveIsNewest
  BY DEF IInv, RegistryOK
<1> QED BY <1>1, Invariance, PTL

\* Only a copy that was read before can lose an answer (chat/service.py:424-492).
THEOREM AnswersAreKept == Spec => []LostOnlyToOverlap
<1>1. IInv => LostOnlyToOverlap
  BY DEF IInv, ChatOK, TurnsTracked, LostOnlyToOverlap, Overlapped
<1> QED BY <1>1, Invariance, PTL

\* Only such a copy can undo a choice of sharing, however many readers are
\* listed and kept (chat/service.py:189-219).
THEOREM SharingIsKept == Spec => []SharingStands
<1>1. ASSUME IInv, NEW s \in Sessions, StoredSession(s), ~Resaved(s), NEW u \in Principals
      PROVE  LET Reads(sharing) == MayRead(u, sessions[s].owner, sharing) IN
               /\ Reads(sessions[s].sharing) => Reads(asked[s])
               /\ Reads(asked[s]) /\ u \notin LongNames /\ Fits(asked[s].with) =>
                    Reads(sessions[s].sharing)
  <2>1. Grants(sessions[s].sharing, asked[s])
    BY <1>1 DEF IInv, ChatOK, SharingTracked
  <2>2. /\ sessions[s].sharing.visibility = asked[s].visibility
        /\ sessions[s].sharing.with \subseteq asked[s].with
        /\ Fits(asked[s].with) => sessions[s].sharing.with = asked[s].with \ LongNames
    BY <2>1 DEF Grants, Kept
  <2> QED BY <2>2 DEF MayRead
<1>2. IInv => SharingStands
  BY <1>1 DEF SharingStands, Resaved
<1> QED BY <1>2, Invariance, PTL

\* A start loses nobody's text (prompts.py:79-195).
THEOREM StartsKeepTexts == Spec => StartKeepsTexts
<1> DEFINE TextsStay ==
      ~up /\ up' =>
        \A p \in Prompts : StoredPrompt(p) =>
          \E q \in Prompts :
            prompts'[q] # NoRow /\ prompts'[q].versions = prompts[p].versions
<1>1. ASSUME IInv, [Next]_vars PROVE [TextsStay]_vars
  <2> SUFFICES ASSUME ~up, up', NEW p \in Prompts, StoredPrompt(p)
               PROVE  \E q \in Prompts :
                        prompts'[q] # NoRow /\ prompts'[q].versions = prompts[p].versions
    OBVIOUS
  <2>1. Seed
    BY <1>1 DEF Next, Request, Crash, Start, vars
  <2> QED BY <1>1, <2>1, SeedKeepsTexts DEF IInv, Untouched
<1>2. Spec => [][TextsStay]_vars
  BY <1>1, Invariance, PTL DEF Spec
<1> QED BY <1>2 DEF StartKeepsTexts
=============================================================================
