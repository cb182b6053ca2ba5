--------------------------- MODULE ContactsProofs ---------------------------
(***************************************************************************)
(* What Contacts promises, for any users, addresses and seeded contacts.   *)
(***************************************************************************)
EXTENDS Contacts, SequenceTheorems, FiniteSetTheorems, TLAPS

\* While the process runs its seeded contacts are as a start leaves them.
SeedsRefreshed ==
  up => \A i \in DOMAIN contacts : Refreshed(contacts[i]) = contacts[i]

\* An objection stays on the contact it was recorded on.
Recorded ==
  \A o \in objections : \E i \in DOMAIN contacts :
    contacts[i].objected /\ Refreshed(contacts[i]) = o

\* Nothing is rendered by a process that does not run.
NothingWhileDown == ~up => \A l \in Letters : ~Rendering(l)

IInv ==
  /\ TypeOK /\ SeedsRefreshed /\ Recorded /\ NothingWhileDown /\ LetterOnlyIfClear

-----------------------------------------------------------------------------
(* Rows.                                                                    *)

LEMMA RefreshedType ==
  ASSUME NEW row \in ContactRows
  PROVE  /\ Refreshed(row) \in ContactRows
         /\ Refreshed(Refreshed(row)) = Refreshed(row)
         /\ Refreshed(row).objected = row.objected
         /\ Refreshed(row).spelling = row.spelling
  BY ContactsAssumption DEF Refreshed, ContactRows

LEMMA RefreshedObjected ==
  ASSUME NEW row \in ContactRows, Refreshed(row) = row
  PROVE  Refreshed([row EXCEPT !.objected = TRUE]) = [row EXCEPT !.objected = TRUE]
  BY DEF Refreshed, ContactRows

LEMMA NewContactType ==
  ASSUME NEW u \in Users, NEW s \in Spellings,
         NEW visibility \in {"personal", "department", "organization"}
  PROVE  LET row == NewContact(u, s, visibility) IN
         row \in ContactRows /\ Refreshed(row) = row /\ ~row.objected
  BY ContactsAssumption DEF NewContact, ContactRows, Refreshed

LEMMA SeedRowType ==
  ASSUME NEW i \in SeedIds, NEW o \in Organizations
  PROVE  /\ SeedRow(i, o) \in ContactRows
         /\ Refreshed(SeedRow(i, Default)) = SeedRow(i, Default)
         /\ SeedRow(i, o).seed = i /\ ~SeedRow(i, o).objected
  BY ContactsAssumption DEF SeedRow, ContactRows, Refreshed

-----------------------------------------------------------------------------
(* The invariant.                                                           *)

LEMMA InitIsSafe == Init => IInv
<1> SUFFICES ASSUME Init PROVE IInv
  OBVIOUS
<1>1. contacts \in Seq(ContactRows)
  <2>1. CASE contacts = <<>>
    BY <2>1
  <2>2. ASSUME NEW i \in SeedIds, NEW b \in BOOLEAN,
               contacts = <<[SeedRow(i, LegacyOrganization) EXCEPT !.objected = b]>>
        PROVE  contacts \in Seq(ContactRows)
    <3>1. [SeedRow(i, LegacyOrganization) EXCEPT !.objected = b] \in ContactRows
      BY SeedRowType, ContactsAssumption DEF ContactRows
    <3> QED BY <2>2, <3>1
  <2> QED BY <2>1, <2>2 DEF Init
<1>2. objections \subseteq ContactRows /\ Recorded
  <2>1. ASSUME NEW j \in DOMAIN contacts, contacts[j].objected
        PROVE  Refreshed(contacts[j]) \in ContactRows
    BY <1>1, RefreshedType
  <2> QED BY <2>1 DEF Init, Recorded
<1>3. letters \in [Letters -> LetterRows] /\ \A l \in Letters : ~Rendering(l)
  <2> DEFINE fresh(s) == [stage |-> "none", spelling |-> s, by |-> Nobody, late |-> FALSE]
  <2>1. ASSUME NEW s \in Spellings PROVE fresh(s) \in LetterRows /\ fresh(s).by = Nobody
    BY DEF LetterRows
  <2>2. letters \in [Letters -> {fresh(s) : s \in Spellings}]
    BY DEF Init
  <2> HIDE DEF fresh
  <2> QED BY <2>1, <2>2 DEF Rendering
<1> QED BY <1>1, <1>2, <1>3
      DEF Init, IInv, TypeOK, SeedsRefreshed, NothingWhileDown, LetterOnlyIfClear

LEMMA AddContactStep ==
  ASSUME IInv, NEW u \in Users, NEW s \in Spellings,
         NEW visibility \in {"personal", "department", "organization"},
         AddContact(u, s, visibility)
  PROVE  IInv'
<1> DEFINE row == NewContact(u, s, visibility)
<1>1. row \in ContactRows /\ Refreshed(row) = row /\ ~row.objected
  BY NewContactType
<1>2. /\ contacts' = Append(contacts, row) /\ contacts \in Seq(ContactRows)
      /\ up /\ UNCHANGED <<letters, objections, up>>
  BY DEF AddContact, IInv, TypeOK
<1> HIDE DEF row
<1>3. /\ contacts' \in Seq(ContactRows)
      /\ DOMAIN contacts' = DOMAIN contacts \cup {Len(contacts) + 1}
      /\ \A i \in DOMAIN contacts : contacts'[i] = contacts[i]
      /\ contacts'[Len(contacts) + 1] = row
  BY <1>1, <1>2
<1>4. TypeOK' /\ SeedsRefreshed' /\ NothingWhileDown'
  BY <1>1, <1>2, <1>3 DEF IInv, TypeOK, SeedsRefreshed, NothingWhileDown, Rendering
<1>5. Recorded'
  BY <1>2, <1>3 DEF IInv, Recorded
<1>6. ASSUME NEW v \in Users \cup {Nobody}, NEW a, Permitted(v, a) PROVE Permitted(v, a)'
  BY <1>1, <1>2, <1>3, <1>6 DEF Permitted, Matches, Visible
<1>7. LetterOnlyIfClear'
  BY <1>2, <1>6 DEF IInv, TypeOK, LetterRows, LetterOnlyIfClear, Rendering
<1> QED BY <1>4, <1>5, <1>7 DEF IInv

LEMMA OptOutStep ==
  ASSUME IInv, NEW u \in Users, NEW i \in DOMAIN contacts, OptOut(u, i)
  PROVE  IInv'
<1> DEFINE row == [contacts[i] EXCEPT !.objected = TRUE]
<1>1. /\ contacts' = [contacts EXCEPT ![i] = row] /\ contacts \in Seq(ContactRows)
      /\ objections' = objections \cup {row} /\ up /\ up' = up
      /\ contacts[i] \in ContactRows /\ Refreshed(contacts[i]) = contacts[i]
  BY DEF OptOut, IInv, TypeOK, SeedsRefreshed
<1>2. row \in ContactRows /\ row.objected /\ Refreshed(row) = row
  BY <1>1, RefreshedObjected DEF ContactRows
<1>3. \A a \in Users \cup {Nobody} : Visible(row, a) <=> Visible(contacts[i], a)
  BY <1>1 DEF Visible, ContactRows
<1>4. row.spelling = contacts[i].spelling
  BY <1>1 DEF ContactRows
<1> HIDE DEF row
<1>5. /\ contacts' \in Seq(ContactRows) /\ DOMAIN contacts' = DOMAIN contacts
      /\ contacts'[i] = row /\ \A j \in DOMAIN contacts : j # i => contacts'[j] = contacts[j]
  BY <1>1, <1>2
<1>6. letters' \in [Letters -> LetterRows]
  BY DEF OptOut, IInv, TypeOK, LetterRows
<1>7. TypeOK' /\ SeedsRefreshed' /\ NothingWhileDown'
  BY <1>1, <1>2, <1>5, <1>6 DEF IInv, TypeOK, SeedsRefreshed, NothingWhileDown
<1>8. Recorded'
  <2>1. ASSUME NEW o \in objections
        PROVE  \E j \in DOMAIN contacts' : contacts'[j].objected /\ Refreshed(contacts'[j]) = o
    <3>1. PICK j \in DOMAIN contacts : contacts[j].objected /\ Refreshed(contacts[j]) = o
      BY DEF IInv, Recorded
    <3>2. CASE j # i
      BY <3>1, <3>2, <1>5
    <3>3. CASE j = i
      <4>1. row = contacts[i]
        BY <3>1, <3>3, <1>1 DEF row, ContactRows
      <4> QED BY <3>1, <3>3, <4>1, <1>5
    <3> QED BY <3>2, <3>3
  <2> QED BY <2>1, <1>1, <1>2, <1>5 DEF Recorded
<1>9. ASSUME NEW l \in Letters, Rendering(l)', ~(letters[l].late)'
      PROVE  Permitted(letters[l].by, letters[l].spelling)'
  <2>1. /\ letters'[l] = letters[l] /\ Rendering(l) /\ ~letters[l].late
        /\ i \notin Matches(letters[l].by, letters[l].spelling)
        /\ letters[l].by \in Users \cup {Nobody}
    BY <1>9 DEF OptOut, IInv, TypeOK, LetterRows, Rendering
  <2>2. Permitted(letters[l].by, letters[l].spelling)
    BY <2>1 DEF IInv, LetterOnlyIfClear
  <2> QED BY <2>1, <2>2, <1>3, <1>4, <1>5 DEF Permitted, Matches
<1> QED BY <1>7, <1>8, <1>9 DEF IInv, LetterOnlyIfClear

\* A step that only changes letters.
LEMMA LetterStep ==
  ASSUME IInv, NEW l \in Letters, NEW row \in LetterRows,
         letters' = [letters EXCEPT ![l] = row], UNCHANGED <<contacts, objections, up>>,
         up, row.by # Nobody /\ ~row.late => Permitted(row.by, row.spelling)
  PROVE  IInv'
<1>1. TypeOK' /\ SeedsRefreshed' /\ Recorded' /\ NothingWhileDown'
  BY DEF IInv, TypeOK, SeedsRefreshed, Recorded, NothingWhileDown
<1>2. ASSUME NEW a, NEW s PROVE Permitted(a, s)' <=> Permitted(a, s)
  BY DEF Permitted, Matches
<1>3. ASSUME NEW m \in Letters, Rendering(m)', ~(letters[m].late)'
      PROVE  Permitted(letters[m].by, letters[m].spelling)'
  <2>1. CASE m = l
    BY <1>2, <1>3, <2>1 DEF IInv, TypeOK, Rendering, Permitted, Matches
  <2>2. CASE m # l
    BY <1>3, <2>2 DEF IInv, TypeOK, LetterOnlyIfClear, Rendering, Permitted, Matches
  <2> QED BY <2>1, <2>2
<1> QED BY <1>1, <1>3 DEF IInv, LetterOnlyIfClear

LEMMA CrashStep == ASSUME IInv, Crash PROVE IInv'
<1>1. letters' \in [Letters -> LetterRows] /\ \A l \in Letters : ~Rendering(l)'
  BY DEF Crash, IInv, TypeOK, LetterRows, Rendering
<1> QED BY <1>1 DEF Crash, IInv, TypeOK, SeedsRefreshed, Recorded, NothingWhileDown,
          LetterOnlyIfClear

LEMMA StartStep == ASSUME IInv, Start PROVE IInv'
<1> DEFINE kept == [i \in DOMAIN contacts |-> Refreshed(contacts[i])]
<1>1. PICK rows \in [1 .. Cardinality(Missing) -> {SeedRow(i, Default) : i \in Missing}] :
        contacts' = kept \o rows
  BY DEF Start
<1>2. contacts \in Seq(ContactRows)
  BY DEF IInv, TypeOK
<1>3. kept \in Seq(ContactRows) /\ Len(kept) = Len(contacts)
  BY <1>2, RefreshedType
<1>4. Cardinality(Missing) \in Nat
  BY ContactsAssumption, FS_Subset, FS_CardinalityType DEF Missing
<1>5. rows \in Seq(ContactRows) /\ \A n \in DOMAIN rows : Refreshed(rows[n]) = rows[n]
  <2>1. \A n \in DOMAIN rows : rows[n] \in ContactRows /\ Refreshed(rows[n]) = rows[n]
    BY <1>1, SeedRowType, ContactsAssumption DEF Missing
  <2> QED BY <2>1, <1>4
<1>6. \A i \in DOMAIN kept : kept[i] = Refreshed(contacts[i])
  OBVIOUS
<1>7. DOMAIN kept = DOMAIN contacts
  OBVIOUS
<1> HIDE DEF kept
<1>8. /\ contacts' \in Seq(ContactRows) /\ DOMAIN contacts \subseteq DOMAIN contacts'
      /\ \A i \in DOMAIN contacts : contacts'[i] = Refreshed(contacts[i])
      /\ \A i \in DOMAIN contacts' \ DOMAIN contacts : \E n \in DOMAIN rows : contacts'[i] = rows[n]
  <2>1. /\ contacts' \in Seq(ContactRows) /\ Len(contacts') = Len(kept) + Len(rows)
        /\ \A i \in 1 .. Len(kept) + Len(rows) :
             contacts'[i] = IF i <= Len(kept) THEN kept[i] ELSE rows[i - Len(kept)]
    BY <1>1, <1>3, <1>5, ConcatProperties
  <2>2. DOMAIN contacts = 1 .. Len(kept) /\ DOMAIN contacts' = 1 .. Len(kept) + Len(rows)
    BY <2>1, <1>2, <1>3
  <2>3. Len(kept) \in Nat /\ Len(rows) \in Nat /\ DOMAIN rows = 1 .. Len(rows)
    BY <1>3, <1>5
  <2>4. \A i \in DOMAIN contacts : contacts'[i] = Refreshed(contacts[i])
    BY <2>1, <2>2, <2>3, <1>6, <1>7
  <2>5. ASSUME NEW i \in DOMAIN contacts' \ DOMAIN contacts
        PROVE  \E n \in DOMAIN rows : contacts'[i] = rows[n]
    <3>1. i - Len(kept) \in DOMAIN rows /\ contacts'[i] = rows[i - Len(kept)]
      BY <2>1, <2>2, <2>3, <2>5
    <3> QED BY <3>1
  <2>6. DOMAIN contacts \subseteq DOMAIN contacts'
    BY <2>2, <2>3
  <2> QED BY <2>1, <2>4, <2>5, <2>6
<1>9. \A i \in DOMAIN contacts' : Refreshed(contacts'[i]) = contacts'[i]
  BY <1>2, <1>5, <1>8, RefreshedType
<1>10. Recorded'
  <2>1. ASSUME NEW o \in objections
        PROVE  \E i \in DOMAIN contacts' : contacts'[i].objected /\ Refreshed(contacts'[i]) = o
    <3>1. PICK i \in DOMAIN contacts : contacts[i].objected /\ Refreshed(contacts[i]) = o
      BY DEF IInv, Recorded
    <3>2. contacts[i] \in ContactRows
      BY <1>2
    <3> QED BY <3>1, <3>2, <1>8, RefreshedType
  <2> QED BY <2>1 DEF Start, Recorded
<1>11. \A l \in Letters : ~Rendering(l)'
  BY DEF Start, IInv, NothingWhileDown, Rendering
<1> QED BY <1>8, <1>9, <1>10, <1>11
      DEF Start, IInv, TypeOK, SeedsRefreshed, NothingWhileDown, LetterOnlyIfClear

LEMMA NextIsSafe == IInv /\ [Next]_vars => IInv'
<1> SUFFICES ASSUME IInv, [Next]_vars PROVE IInv'
  OBVIOUS
<1>1. ASSUME NEW u \in Users, NEW s \in Spellings,
             NEW visibility \in {"personal", "department", "organization"},
             AddContact(u, s, visibility)
      PROVE  IInv'
  BY <1>1, AddContactStep
<1>2. ASSUME NEW u \in Users, NEW i \in DOMAIN contacts, OptOut(u, i) PROVE IInv'
  BY <1>2, OptOutStep
<1>3. ASSUME NEW u \in Users, NEW l \in Letters, RequestLetter(l, u) PROVE IInv'
  <2> DEFINE row == [letters[l] EXCEPT !.by = u, !.late = FALSE]
  <2>1. row \in LetterRows /\ row.by = u /\ row.spelling = letters[l].spelling
    BY DEF IInv, TypeOK, LetterRows
  <2>2. letters' = [letters EXCEPT ![l] = row]
    BY <1>3 DEF RequestLetter, IInv, TypeOK, LetterRows
  <2> QED BY <1>3, <2>1, <2>2, LetterStep DEF RequestLetter
<1>4. ASSUME NEW u \in Users, NEW l \in Letters, NEW s \in Spellings, Draft(l, u, s) PROVE IInv'
  <2> DEFINE row == [stage |-> IF Permitted(u, s) THEN "written" ELSE "blocked",
                     spelling |-> s, by |-> Nobody, late |-> FALSE]
  <2>1. row \in LetterRows /\ row.by = Nobody
    BY DEF LetterRows
  <2>2. letters' = [letters EXCEPT ![l] = row] /\ up /\ UNCHANGED <<contacts, objections, up>>
    BY <1>4 DEF Draft
  <2> HIDE DEF row
  <2> QED BY <2>1, <2>2, LetterStep
<1>5. ASSUME NEW l \in Letters, FinishLetter(l) PROVE IInv'
  <2> DEFINE row == [letters[l] EXCEPT !.by = Nobody, !.late = FALSE]
  <2>1. row \in LetterRows /\ row.by = Nobody
    BY DEF IInv, TypeOK, LetterRows
  <2>2. letters' = [letters EXCEPT ![l] = row]
    BY <1>5 DEF FinishLetter, IInv, TypeOK, LetterRows
  <2> QED BY <1>5, <2>1, <2>2, LetterStep DEF FinishLetter
<1>6. CASE Crash
  BY <1>6, CrashStep
<1>7. CASE Start
  BY <1>7, StartStep
<1>8. CASE UNCHANGED vars
  BY <1>8 DEF vars, IInv, TypeOK, SeedsRefreshed, Recorded, NothingWhileDown,
     LetterOnlyIfClear, Rendering, Permitted, Matches
<1> QED BY <1>1, <1>2, <1>3, <1>4, <1>5, <1>6, <1>7, <1>8 DEF Next

-----------------------------------------------------------------------------
(* What follows.                                                            *)

\* Contacts, letters and objections are well typed, whatever is requested
\* (core/privacy_contacts.py).
THEOREM ContactsAreWellTyped == Spec => []TypeOK
<1>1. IInv => TypeOK
  BY DEF IInv
<1> QED BY <1>1, InitIsSafe, NextIsSafe, PTL DEF Spec

LEMMA RecordedIsPermanent == IInv => ObjectionIsPermanent
<1> SUFFICES ASSUME IInv, up, NEW o \in objections, NEW u \in Users, NEW s \in Spellings,
                    Visible(o, u), Address[s] = Address[o.spelling]
             PROVE  ~Permitted(u, s)
  BY DEF ObjectionIsPermanent
<1>1. PICK i \in DOMAIN contacts : contacts[i].objected /\ Refreshed(contacts[i]) = o
  BY DEF IInv, Recorded
<1>2. contacts[i] = o
  BY <1>1 DEF IInv, SeedsRefreshed
<1> QED BY <1>1, <1>2 DEF Permitted, Matches

\* Whoever could see an objection is never permitted to write to its address
\* again, however many contacts, users and starts follow.
THEOREM ObjectionsArePermanent == Spec => []ObjectionIsPermanent
  BY RecordedIsPermanent, InitIsSafe, NextIsSafe, PTL DEF Spec

\* No letter is rendered for somebody who may not write to its address, unless
\* the objection came while it was being rendered.
THEOREM LettersAreClear == Spec => []LetterOnlyIfClear
<1>1. IInv => LetterOnlyIfClear
  BY DEF IInv
<1> QED BY <1>1, InitIsSafe, NextIsSafe, PTL DEF Spec
=============================================================================
