-------------------------- MODULE DocumentsProofs --------------------------
(***************************************************************************)
(* Theorems about Documents for any owners, workflows, documents and dates *)
(***************************************************************************)
EXTENDS Documents, TLAPS

\* The invariant: a workflow that has extracted, or was overtaken, has a
\* document's id, ...
Extracted(r) == run[r].by \in Owners

HasDocument ==
  \A r \in Runs : Extracted(r) \/ r \in overtaken =>
                    run[r].stage # "new" /\ run[r].id \in Docs

\* ... the row of the id a suspended workflow will write to is its owner's or
\* nobody's, unless it was overtaken, ...
OwnerKept ==
  \A r \in Runs : Suspended(r) /\ Stored(run[r].id) =>
                    doc[run[r].id].owner \in {run[r].by, Legacy} \/ r \in overtaken

\* ... suspended workflows meet in an id only if they have the same owner or
\* somebody was overtaken at it, ...
OneOwner ==
  \A r, q \in Runs :
    Suspended(r) /\ Suspended(q) /\ run[r].id = run[q].id =>
      run[r].by = run[q].by \/ Overtaken(run[r].id)

\* ... and so do a suspended workflow and the one whose content the row has, ...
OneContent ==
  \A r \in Runs :
    Suspended(r) /\ Stored(run[r].id) =>
      run[r].by = run[doc[run[r].id].of].by \/ Overtaken(run[r].id)

\* ... and a row holds what a workflow extracted under the row's id.
RowNamesRun ==
  \A d \in Docs : Stored(d) => Extracted(doc[d].of) /\ run[doc[d].of].id = d

\* A dispute ticket belongs to a workflow that has extracted.
TicketHasDocument == \A r \in Runs : ticket[r] # "none" => Extracted(r)

Belongs ==
  /\ HasDocument /\ OwnerKept /\ OneOwner /\ OneContent /\ RowNamesRun
  /\ ContentStaysWithOwner

IInv == TypeOK /\ Belongs /\ TicketHasDocument /\ BookedIsInLedger

-----------------------------------------------------------------------------
(* What the handlers write.                                                 *)

LEMMA ActiveRun ==
  ASSUME TypeOK, NEW r \in Runs, run[r].stage \in {"auditing", "booking", "disputing"}
  PROVE  /\ Suspended(r) /\ Extracted(r)
         /\ run[r].by \in Owners /\ run[r].id \in Docs
BY DEF TypeOK, Extracted, Suspended

\* A row a workflow writes back keeps owner and protection, or is a new
\* legacy row.
LEMMA WritingBack ==
  ASSUME TypeOK, NEW r \in Runs, run[r].id \in Docs,
         NEW s \in {"extracted", "verified", "disputed", "booked"},
         doc' = WriteBack(r, s)
  PROVE  \E new \in Rows :
           /\ doc' = [doc EXCEPT ![run[r].id] = new]
           /\ new.of = r /\ (s # "booked" => new.status # "booked")
           /\ Stored(run[r].id) => /\ new.owner = doc[run[r].id].owner
                                   /\ new.until = doc[run[r].id].until
                                   /\ new.hold = doc[run[r].id].hold
           /\ ~Stored(run[r].id) => new.owner = Legacy /\ new.until = 0 /\ ~new.hold
<1>1. CASE Stored(run[r].id)
  <2> DEFINE new == [doc[run[r].id] EXCEPT !.of = r, !.status = s]
  <2>1. doc[run[r].id] \in Rows
    BY <1>1 DEF TypeOK, Stored
  <2>2. /\ new \in Rows /\ new.of = r /\ new.status = s
        /\ new.owner = doc[run[r].id].owner
        /\ new.until = doc[run[r].id].until /\ new.hold = doc[run[r].id].hold
    BY <2>1 DEF Rows
  <2>3. doc' = [doc EXCEPT ![run[r].id] = new]
    BY <1>1 DEF WriteBack, Stored
  <2>. QED
    BY <1>1, <2>2, <2>3
<1>2. CASE ~Stored(run[r].id)
  <2>1. MaxTime \in Nat
    BY OwnersAssumption
  <2>2. doc' = [doc EXCEPT ![run[r].id] = NewRow(r, Legacy, s)]
    BY <1>2 DEF WriteBack, Stored
  <2> DEFINE new == NewRow(r, Legacy, s)
  <2>3. /\ new \in Rows /\ new.of = r /\ new.status = s
        /\ new.owner = Legacy /\ new.until = 0 /\ ~new.hold
    BY <2>1 DEF NewRow, Rows
  <2> HIDE DEF new
  <2>4. doc' = [doc EXCEPT ![run[r].id] = new]
    BY <2>2 DEF new
  <2>. QED
    BY <1>2, <2>3, <2>4
<1>. QED
  BY <1>1, <1>2

LEMMA Putting ==
  ASSUME TypeOK, NEW r \in Runs, NEW who \in Owners, NEW d \in Docs
  PROVE  /\ Put(r, who, d) \in Rows
         /\ Put(r, who, d).of = r /\ Put(r, who, d).owner = who
         /\ Put(r, who, d).status = "extracted"
         /\ Stored(d) => /\ Put(r, who, d).until = doc[d].until
                         /\ Put(r, who, d).hold = doc[d].hold
         /\ ~Stored(d) => Put(r, who, d).until = 0 /\ ~Put(r, who, d).hold
<1>1. MaxTime \in Nat
  BY OwnersAssumption
<1>2. NewRow(r, who, "extracted") \in Rows /\ NewRow(r, who, "extracted").of = r
      /\ NewRow(r, who, "extracted").owner = who
      /\ NewRow(r, who, "extracted").status = "extracted"
      /\ NewRow(r, who, "extracted").until = 0 /\ ~NewRow(r, who, "extracted").hold
  BY <1>1 DEF NewRow, Rows
<1>3. CASE Stored(d)
  <2>1. doc[d] \in Rows
    BY <1>3 DEF TypeOK, Stored
  <2>. QED
    BY <1>2, <1>3, <2>1 DEF Put, Rows
<1>4. CASE ~Stored(d)
  BY <1>2, <1>4 DEF Put
<1>. QED
  BY <1>3, <1>4

\* What a request may write: the row with other flags, or nothing.
Rewritten(d, new) ==
  /\ Stored(d)
  /\ Set(d, new)
  /\ new \in Rows \cup {NoDoc}
  /\ new # NoDoc => /\ new.of = doc[d].of /\ new.owner = doc[d].owner
                    /\ new.status = doc[d].status

LEMMA Requests ==
  ASSUME TypeOK, NEW who \in Owners, Request(who)
  PROVE  \/ \E d \in Docs, new \in Rows \cup {NoDoc} : Rewritten(d, new)
         \/ \E r \in Runs : Approve(who, r) \/ Reject(who, r)
<1>1. CASE \E r \in Runs : Approve(who, r) \/ Reject(who, r)
  BY <1>1
<1>2. ASSUME NEW d \in Docs,
             \/ \E visibility \in {"private", "organization"} : UpdateSharing(who, d, visibility)
             \/ \E date \in 0 .. MaxTime : SetRetention(who, d, date)
             \/ \E enabled \in BOOLEAN : SetLegalHold(who, d, enabled)
             \/ DeleteDocument(who, d)
      PROVE  \E new \in Rows \cup {NoDoc} : Rewritten(d, new)
  <2>1. Stored(d) /\ doc[d] \in Rows
    BY <1>2 DEF UpdateSharing, SetRetention, SetLegalHold, DeleteDocument, Changes, Stored, TypeOK
  <2>2. ASSUME NEW visibility \in {"private", "organization"}, UpdateSharing(who, d, visibility)
        PROVE  Rewritten(d, [doc[d] EXCEPT !.visibility = visibility])
    BY <2>1, <2>2 DEF UpdateSharing, Rewritten, Rows
  <2>3. ASSUME NEW date \in 0 .. MaxTime, SetRetention(who, d, date)
        PROVE  Rewritten(d, [doc[d] EXCEPT !.until = date])
    BY <2>1, <2>3 DEF SetRetention, Rewritten, Rows
  <2>4. ASSUME NEW enabled \in BOOLEAN, SetLegalHold(who, d, enabled)
        PROVE  Rewritten(d, [doc[d] EXCEPT !.hold = enabled])
    BY <2>1, <2>4 DEF SetLegalHold, Rewritten, Rows
  <2>5. ASSUME DeleteDocument(who, d) PROVE Rewritten(d, NoDoc)
    BY <2>1, <2>5 DEF DeleteDocument, Rewritten
  <2>. QED
    BY <1>2, <2>2, <2>3, <2>4, <2>5 DEF Rewritten
<1>. QED
  BY <1>1, <1>2 DEF Request

LEMMA RunGoes ==
  ASSUME TypeOK, NEW r \in Runs,
         NEW s \in {"auditing", "booking", "disputing", "over"}, Goes(r, s),
         s = "over" \/ run[r].stage \in {"auditing", "booking", "disputing"}
  PROVE  /\ run' \in [Runs -> RunRows]
         /\ \A q \in Runs : /\ run'[q].by = run[q].by /\ run'[q].id = run[q].id
                            /\ run'[q].stage = "new" => run[q].stage = "new"
                            /\ Suspended(q)' => Suspended(q)
         /\ \A q \in Runs : Suspended(q)' => run'[q].by \in Owners /\ run'[q].id \in Docs
<1>1. \A q \in Runs : run[q] \in RunRows
  BY DEF TypeOK
<1>2. run' = [run EXCEPT ![r] = [run[r] EXCEPT !.stage = s]]
  BY DEF Goes
<1>3. [run[r] EXCEPT !.stage = s] \in RunRows
  BY <1>1 DEF RunRows
<1>4. /\ [run[r] EXCEPT !.stage = s].by = run[r].by
      /\ [run[r] EXCEPT !.stage = s].id = run[r].id
      /\ [run[r] EXCEPT !.stage = s].stage = s
  BY <1>1 DEF RunRows
<1>. QED
  BY <1>1, <1>2, <1>3, <1>4 DEF TypeOK, Suspended

LEMMA RowSet ==
  ASSUME TypeOK, NEW d \in Docs, NEW new \in Rows \cup {NoDoc},
         doc' = [doc EXCEPT ![d] = new]
  PROVE  /\ doc' \in [Docs -> Rows \cup {NoDoc}]
         /\ doc'[d] = new
         /\ \A e \in Docs \ {d} : doc'[e] = doc[e]
BY DEF TypeOK

LEMMA Approval ==
  ASSUME TypeOK, NEW who \in Owners, NEW r \in Runs, Approve(who, r)
  PROVE  run[r].id \in Docs /\ Stored(run[r].id) =>
           \E new \in Rows :
             /\ doc' = [doc EXCEPT ![run[r].id] = new]
             /\ new.of = doc[run[r].id].of /\ new.owner = doc[run[r].id].owner
             /\ new.until = doc[run[r].id].until /\ new.hold = doc[run[r].id].hold
             /\ new.status = "disputed"
<1> SUFFICES ASSUME run[r].id \in Docs, Stored(run[r].id)
             PROVE  \E new \in Rows :
                      /\ doc' = [doc EXCEPT ![run[r].id] = new]
                      /\ new.of = doc[run[r].id].of /\ new.owner = doc[run[r].id].owner
                      /\ new.until = doc[run[r].id].until /\ new.hold = doc[run[r].id].hold
                      /\ new.status = "disputed"
  OBVIOUS
<1>1. doc[run[r].id] \in Rows
  BY DEF TypeOK, Stored
<1> DEFINE new == [doc[run[r].id] EXCEPT !.status = "disputed"]
<1>2. /\ new \in Rows /\ new.of = doc[run[r].id].of /\ new.owner = doc[run[r].id].owner
      /\ new.until = doc[run[r].id].until /\ new.hold = doc[run[r].id].hold
      /\ new.status = "disputed"
  BY <1>1 DEF Rows
<1>3. doc' = [doc EXCEPT ![run[r].id] = new]
  BY DEF Approve
<1> HIDE DEF new
<1>. QED
  BY <1>2, <1>3

-----------------------------------------------------------------------------
(* Who a row belongs to.                                                    *)

SameRuns ==
  /\ overtaken' = overtaken
  /\ \A q \in Runs : /\ run'[q].by = run[q].by /\ run'[q].id = run[q].id
                     /\ run'[q].stage = "new" => run[q].stage = "new"
                     /\ Suspended(q)' => Suspended(q)

LEMMA SameOvertaken ==
  ASSUME TypeOK, SameRuns
  PROVE  /\ \A r \in Runs : Extracted(r)' <=> Extracted(r)
         /\ \A d : Overtaken(d)' <=> Overtaken(d)
BY DEF TypeOK, SameRuns, Extracted, Overtaken

\* A row that keeps its content and its owner, is written back by a suspended
\* workflow, or goes.
HandedOn(d, new) ==
  /\ Stored(d) => new.owner = doc[d].owner
  /\ ~Stored(d) => new.owner = Legacy
  /\ \/ Stored(d) /\ new.of = doc[d].of
     \/ new.of \in Runs /\ Suspended(new.of) /\ run[new.of].id = d

LEMMA RowsChangeHands ==
  ASSUME TypeOK, Belongs, SameRuns,
         NEW d \in Docs, NEW new \in Rows \cup {NoDoc}, doc' = [doc EXCEPT ![d] = new],
         new # NoDoc => HandedOn(d, new)
  PROVE  Belongs'
<1>1. doc'[d] = new /\ \A e \in Docs \ {d} : doc'[e] = doc[e]
  BY RowSet
<1>2. /\ \A r \in Runs : Extracted(r)' <=> Extracted(r)
      /\ \A e : Overtaken(e)' <=> Overtaken(e)
  BY SameOvertaken
<1>3. HasDocument'
  BY <1>2 DEF Belongs, HasDocument, SameRuns
<1>4. OneOwner'
  BY <1>2 DEF Belongs, OneOwner, SameRuns
<1>5. ASSUME NEW r \in Runs, Suspended(r) PROVE Extracted(r) /\ run[r].id \in Docs
  BY <1>5 DEF TypeOK, Extracted
<1>6. \A e \in Docs : Stored(e) => /\ doc[e].of \in Runs /\ Extracted(doc[e].of)
                                   /\ run[doc[e].of].id = e
  BY DEF Belongs, RowNamesRun, Stored, TypeOK, Rows
<1>7. \A e \in Docs : Stored(e)' => /\ doc'[e].of \in Runs /\ Extracted(doc'[e].of)
                                    /\ run[doc'[e].of].id = e
  BY <1>1, <1>5, <1>6 DEF HandedOn, Stored
<1>8. RowNamesRun'
  BY <1>2, <1>7 DEF RowNamesRun, SameRuns
<1>9. ASSUME NEW r \in Runs, Suspended(r), doc'[run[r].id] # NoDoc
      PROVE  doc'[run[r].id].owner \in {run[r].by, Legacy} \/ r \in overtaken
  <2>1. Stored(run[r].id) =>
          doc[run[r].id].owner \in {run[r].by, Legacy} \/ r \in overtaken
    BY <1>9 DEF Belongs, OwnerKept
  <2>2. CASE run[r].id = d
    BY <1>1, <1>9, <2>1, <2>2 DEF HandedOn, Stored
  <2>3. CASE run[r].id # d
    BY <1>1, <1>5, <1>9, <2>1, <2>3 DEF Stored
  <2>. QED
    BY <2>2, <2>3
<1>10. OwnerKept'
  BY <1>9 DEF OwnerKept, SameRuns, Stored
<1>11. ASSUME NEW r \in Runs, Suspended(r), doc'[run[r].id] # NoDoc
       PROVE  run[r].by = run[doc'[run[r].id].of].by \/ Overtaken(run[r].id)
  <2>1. Stored(run[r].id) =>
          run[r].by = run[doc[run[r].id].of].by \/ Overtaken(run[r].id)
    BY <1>11 DEF Belongs, OneContent
  <2>2. CASE run[r].id = d
    <3>1. CASE Stored(d) /\ new.of = doc[d].of
      BY <1>1, <2>1, <2>2, <3>1
    <3>2. CASE new.of \in Runs /\ Suspended(new.of) /\ run[new.of].id = d
      BY <1>1, <1>11, <2>2, <3>2 DEF Belongs, OneOwner
    <3>. QED
      BY <1>1, <1>11, <2>2, <3>1, <3>2 DEF HandedOn
  <2>3. CASE run[r].id # d
    BY <1>1, <1>5, <1>11, <2>1, <2>3 DEF Stored
  <2>. QED
    BY <2>2, <2>3
<1>12. OneContent'
  BY <1>2, <1>5, <1>7, <1>11 DEF OneContent, SameRuns, Stored
<1>13. ASSUME NEW e \in Docs, doc'[e] # NoDoc
       PROVE  doc'[e].owner \in {run[doc'[e].of].by, Legacy} \/ doc'[e].of \in overtaken
  <2>1. Stored(e) => doc[e].owner \in {run[doc[e].of].by, Legacy} \/ doc[e].of \in overtaken
    BY DEF Belongs, ContentStaysWithOwner
  <2>2. CASE e = d
    <3>1. CASE Stored(d) /\ new.of = doc[d].of
      BY <1>1, <1>13, <2>1, <2>2, <3>1 DEF HandedOn
    <3>2. CASE new.of \in Runs /\ Suspended(new.of) /\ run[new.of].id = d
      BY <1>1, <1>13, <2>2, <3>2 DEF HandedOn, Belongs, OwnerKept
    <3>. QED
      BY <1>1, <1>13, <2>2, <3>1, <3>2 DEF HandedOn
  <2>3. CASE e # d
    BY <1>1, <1>13, <2>1, <2>3 DEF Stored
  <2>. QED
    BY <2>2, <2>3
<1>14. ContentStaysWithOwner'
  BY <1>7, <1>13 DEF ContentStaysWithOwner, SameRuns, Stored
<1>. QED
  BY <1>3, <1>4, <1>8, <1>10, <1>12, <1>14 DEF Belongs

-----------------------------------------------------------------------------
(* Every step keeps the invariant.                                          *)

\* What the steps do to workflows and tickets.
StagesTyped ==
  /\ run' \in [Runs -> RunRows]
  /\ \A q \in Runs : Suspended(q)' => run'[q].by \in Owners /\ run'[q].id \in Docs

TicketsTyped ==
  /\ ticket' \in [Runs -> {"none", "pending", "approved", "rejected"}]
  /\ \A q \in Runs : ticket'[q] # "none" => Extracted(q)

LEMMA NothingButRows ==
  ASSUME IInv, run' = run, overtaken' = overtaken, ticket' = ticket
  PROVE  SameRuns /\ StagesTyped /\ TicketsTyped
BY DEF IInv, TypeOK, TicketHasDocument, SameRuns, StagesTyped, TicketsTyped, Suspended

\* A step that changes a row without booking it.
LEMMA RowsKeep ==
  ASSUME IInv, SameRuns, StagesTyped, TicketsTyped, ledger' = ledger, clock' = clock,
         NEW d \in Docs, NEW new \in Rows \cup {NoDoc}, doc' = [doc EXCEPT ![d] = new],
         new # NoDoc => /\ HandedOn(d, new)
                        /\ new.status = "booked" =>
                             Stored(d) /\ doc[d].status = "booked" /\ new.of = doc[d].of
  PROVE  IInv'
<1>1. TypeOK /\ Belongs /\ BookedIsInLedger
  BY DEF IInv
<1>2. /\ doc' \in [Docs -> Rows \cup {NoDoc}]
      /\ doc'[d] = new /\ \A e \in Docs \ {d} : doc'[e] = doc[e]
  BY <1>1, RowSet
<1>3. TypeOK'
  BY <1>1, <1>2 DEF TypeOK, SameRuns, StagesTyped, TicketsTyped
<1>4. Belongs'
  BY <1>1, RowsChangeHands
<1>5. BookedIsInLedger'
  <2> SUFFICES ASSUME NEW e \in Docs, Stored(e)', doc'[e].status = "booked"
               PROVE  ledger'[e] = run'[doc'[e].of].by \/ Overtaken(e)'
    BY DEF BookedIsInLedger
  <2>1. Stored(e) /\ doc[e].status = "booked" /\ doc'[e].of = doc[e].of
    BY <1>2 DEF Stored
  <2>2. doc[e].of \in Runs
    BY <1>1, <2>1 DEF TypeOK, Stored, Rows
  <2>3. Overtaken(e)' <=> Overtaken(e)
    BY <1>1, SameOvertaken
  <2>. QED
    BY <1>1, <2>1, <2>2, <2>3 DEF BookedIsInLedger, SameRuns
<1>6. TicketHasDocument'
  BY DEF TicketHasDocument, TicketsTyped, SameRuns, Extracted
<1>. QED
  BY <1>3, <1>4, <1>5, <1>6 DEF IInv

\* A step that changes no row, and the ledger only for a suspended workflow's
\* own document.
LEMMA LedgerKeeps ==
  ASSUME IInv, SameRuns, StagesTyped, TicketsTyped, doc' = doc, clock' \in Times,
         ledger' = ledger \/ \E r \in Runs : Suspended(r) /\ Booked(r)
  PROVE  IInv'
<1>1. TypeOK /\ Belongs /\ BookedIsInLedger
  BY DEF IInv
<1>2. /\ \A q \in Runs : Extracted(q)' <=> Extracted(q)
      /\ \A e : Overtaken(e)' <=> Overtaken(e)
  BY <1>1, SameOvertaken
<1>3. \A q \in Runs : Suspended(q) => run[q].by \in Owners /\ run[q].id \in Docs
  BY <1>1 DEF TypeOK
<1>4. ledger' \in [Docs -> Owners \cup {Nobody}]
  BY <1>1, <1>3 DEF TypeOK, Booked
<1>5. TypeOK'
  BY <1>1, <1>4 DEF TypeOK, SameRuns, StagesTyped, TicketsTyped
<1>6. \A e \in Docs : Stored(e) => doc[e].of \in Runs
  BY <1>1 DEF TypeOK, Stored, Rows
<1>7. HasDocument' /\ OneOwner'
  BY <1>1, <1>2 DEF Belongs, HasDocument, OneOwner, SameRuns
<1>8. OwnerKept'
  BY <1>1 DEF Belongs, OwnerKept, SameRuns, Stored
<1>9. OneContent'
  BY <1>1, <1>2, <1>3, <1>6 DEF Belongs, OneContent, SameRuns, Stored
<1>10. RowNamesRun' /\ ContentStaysWithOwner'
  BY <1>1, <1>2, <1>6 DEF Belongs, RowNamesRun, ContentStaysWithOwner, SameRuns, Stored
<1>11. BookedIsInLedger'
  <2> SUFFICES ASSUME NEW e \in Docs, Stored(e), doc[e].status = "booked"
               PROVE  ledger'[e] = run[doc[e].of].by \/ Overtaken(e)
    BY <1>2, <1>6 DEF BookedIsInLedger, SameRuns, Stored
  <2>1. ledger[e] = run[doc[e].of].by \/ Overtaken(e)
    BY <1>1 DEF BookedIsInLedger
  <2>2. CASE ledger' = ledger
    BY <2>1, <2>2
  <2>3. ASSUME NEW r \in Runs, Suspended(r), Booked(r)
        PROVE  ledger'[e] = run[doc[e].of].by \/ Overtaken(e)
    <3>1. CASE run[r].id = e
      <4>1. run[r].by = run[doc[e].of].by \/ Overtaken(e)
        BY <1>1, <2>3, <3>1 DEF Belongs, OneContent
      <4>. QED
        BY <1>1, <2>3, <3>1, <4>1 DEF Booked, TypeOK
    <3>2. CASE run[r].id # e
      BY <1>1, <2>1, <2>3, <3>2 DEF Booked, TypeOK
    <3>. QED
      BY <3>1, <3>2
  <2>. QED
    BY <2>2, <2>3
<1>12. TicketHasDocument'
  BY DEF TicketHasDocument, TicketsTyped, SameRuns, Extracted
<1>. QED
  BY <1>5, <1>7, <1>8, <1>9, <1>10, <1>11, <1>12 DEF IInv, Belongs

LEMMA RequestKeeps ==
  ASSUME IInv, NEW who \in Owners, Request(who)
  PROVE  IInv'
<1>1. TypeOK
  BY DEF IInv
<1>2. ASSUME NEW d \in Docs, NEW new \in Rows \cup {NoDoc}, Rewritten(d, new) PROVE IInv'
  <2>1. doc[d] \in Rows /\ doc[d].of \in Runs
    BY <1>1, <1>2 DEF Rewritten, Stored, TypeOK, Rows
  <2>3. /\ run' = run /\ overtaken' = overtaken /\ ledger' = ledger /\ clock' = clock
        /\ ticket' = ticket /\ doc' = [doc EXCEPT ![d] = new]
    BY <1>2 DEF Rewritten, Set
  <2>4. SameRuns /\ StagesTyped /\ TicketsTyped
    BY <2>3, NothingButRows
  <2>5. new # NoDoc => /\ HandedOn(d, new)
                       /\ new.status = "booked" =>
                            Stored(d) /\ doc[d].status = "booked" /\ new.of = doc[d].of
    BY <1>2, <2>1 DEF Rewritten, HandedOn
  <2>. QED
    BY <2>3, <2>4, <2>5, RowsKeep
<1>3. ASSUME NEW r \in Runs, Approve(who, r) \/ Reject(who, r)
      PROVE  Extracted(r) /\ SameRuns /\ StagesTyped /\ TicketsTyped
  <2>1. Extracted(r)
    BY <1>3 DEF Approve, Reject, IInv, TicketHasDocument
  <2>2. run' = run /\ overtaken' = overtaken
    BY <1>3 DEF Approve, Reject
  <2>3. TicketsTyped
    BY <1>1, <1>3, <2>1 DEF Approve, Reject, TicketsTyped, TypeOK, IInv, TicketHasDocument
  <2>. QED
    BY <1>1, <2>1, <2>2, <2>3 DEF SameRuns, StagesTyped, TypeOK, Suspended
<1>4. ASSUME NEW r \in Runs, Approve(who, r) PROVE IInv'
  <2> DEFINE d == run[r].id
  <2>1. d \in Docs /\ Stored(d)
    BY <1>1, <1>3, <1>4 DEF IInv, Belongs, HasDocument, TypeOK, Approve, Reads
  <2>2. PICK new \in Rows :
          /\ doc' = [doc EXCEPT ![d] = new]
          /\ new.of = doc[d].of /\ new.owner = doc[d].owner /\ new.status = "disputed"
    BY <1>1, <1>4, <2>1, Approval
  <2>3. HandedOn(d, new)
    BY <2>1, <2>2 DEF HandedOn
  <2>4. ledger' = ledger /\ clock' = clock
    BY <1>4 DEF Approve
  <2> HIDE DEF d
  <2>. QED
    BY <1>3, <1>4, <2>1, <2>2, <2>3, <2>4, RowsKeep
<1>5. ASSUME NEW r \in Runs, Reject(who, r) PROVE IInv'
  <2>1. doc' = doc /\ ledger' = ledger /\ clock' \in Times
    BY <1>1, <1>5 DEF Reject, TypeOK
  <2>. QED
    BY <1>3, <1>5, <2>1, LedgerKeeps
<1>. QED
  BY <1>1, <1>2, <1>4, <1>5, Requests

LEMMA ExtractKeeps ==
  ASSUME IInv, NEW r \in Runs, NEW who \in Owners, NEW d \in Docs, Extract(r, who, d)
  PROVE  IInv'
<1> DEFINE new == Put(r, who, d)
<1>1. TypeOK /\ Belongs
  BY DEF IInv
<1>2. new \in Rows /\ new.of = r /\ new.owner = who /\ new.status = "extracted"
  <2>1. new \in Rows /\ new.of = r /\ new.owner = who
    BY <1>1, Putting
  <2>2. new.status = "extracted"
    BY DEF Put, NewRow
  <2>. QED
    BY <2>1, <2>2
<1>3. doc' = [doc EXCEPT ![d] = new]
  BY DEF Extract
<1> HIDE DEF new
<1>4. /\ doc' \in [Docs -> Rows \cup {NoDoc}]
      /\ doc'[d] = new /\ new # NoDoc /\ \A e \in Docs \ {d} : doc'[e] = doc[e]
  BY <1>1, <1>2, <1>3, RowSet, RowAssumption
<1>5. run[r].by = Nobody \/ run[r].by \in Owners
  BY <1>1 DEF TypeOK, RunRows
<1>6. ~Extracted(r) /\ ~Suspended(r)
  BY <1>1 DEF Extract, At, Belongs, HasDocument, Suspended
<1>7. /\ run'[r] = [stage |-> "auditing", by |-> who, id |-> d]
      /\ \A q \in Runs \ {r} : run'[q] = run[q]
      /\ run' \in [Runs -> RunRows]
      /\ ledger' = ledger /\ ticket' = ticket /\ clock' = clock
  BY <1>1 DEF Extract, TypeOK, RunRows
<1>8. /\ Extracted(r)' /\ Suspended(r)'
      /\ \A q \in Runs \ {r} : /\ Extracted(q)' <=> Extracted(q)
                               /\ Suspended(q)' <=> Suspended(q)
  BY <1>7 DEF Extracted, Suspended
<1> DEFINE late == {q \in Runs : Suspended(q) /\ run[q].id = d /\ run[q].by # who}
<1>9. /\ overtaken \subseteq overtaken' /\ overtaken' \subseteq overtaken \cup late
      /\ ~Stored(d) => late \subseteq overtaken'
  BY DEF Extract
<1> HIDE DEF late
<1>10. r \notin overtaken /\ overtaken \subseteq Runs
  BY <1>1 DEF Extract, At, Belongs, HasDocument, TypeOK
<1>11. \A e : Overtaken(e) => Overtaken(e)'
  BY <1>7, <1>9, <1>10 DEF Overtaken
<1>12. TypeOK'
  BY <1>1, <1>4, <1>7, <1>8, <1>9 DEF TypeOK, late
<1>13. HasDocument'
  BY <1>1, <1>6, <1>7, <1>8, <1>9, <1>12 DEF Belongs, HasDocument, late, TypeOK, Suspended
\* A suspended workflow's row was its owner's, or the id is free and it is
\* overtaken now.
<1>14. ASSUME NEW q \in Runs, Suspended(q), run[q].id = d
       PROVE  run[q].by = who \/ q \in overtaken'
  <2>1. CASE Stored(d)
    <3>1. doc[d].owner = who
      BY <2>1 DEF Extract, Usable
    <3>2. who \in {run[q].by, Legacy} \/ q \in overtaken
      BY <1>1, <1>14, <2>1, <3>1 DEF Belongs, OwnerKept
    <3>. QED
      BY <1>9, <3>2, OwnersAssumption
  <2>2. CASE ~Stored(d)
    BY <1>9, <1>14, <2>2 DEF late
  <2>. QED
    BY <2>1, <2>2
<1>15. ASSUME NEW q \in Runs, Suspended(q), run[q].id = d
       PROVE  run[q].by = who \/ Overtaken(d)'
  BY <1>6, <1>7, <1>14, <1>15 DEF Overtaken
<1>16. \A e \in Docs : Stored(e) => /\ doc[e].of \in Runs /\ doc[e].of # r
                                    /\ Extracted(doc[e].of) /\ run[doc[e].of].id = e
  BY <1>1, <1>6 DEF Belongs, RowNamesRun, TypeOK, Stored, Rows
<1>17. OneOwner'
  <2> SUFFICES ASSUME NEW q \in Runs, NEW p \in Runs, Suspended(q)', Suspended(p)',
                      run'[q].id = run'[p].id
               PROVE  run'[q].by = run'[p].by \/ Overtaken(run[q].id)'
    BY DEF OneOwner
  <2>1. CASE q = r \/ p = r
    BY <1>7, <1>8, <1>15, <2>1
  <2>2. CASE q # r /\ p # r
    BY <1>1, <1>7, <1>8, <1>11, <2>2 DEF Belongs, OneOwner
  <2>. QED
    BY <2>1, <2>2
<1>18. ASSUME NEW q \in Runs, q # r, Suspended(q)', run[q].id # d
       PROVE  /\ Suspended(q) /\ run'[q] = run[q] /\ run[q].id \in Docs
              /\ doc'[run[q].id] = doc[run[q].id]
  BY <1>1, <1>4, <1>7, <1>8, <1>18 DEF TypeOK
<1>19. OwnerKept'
  <2> SUFFICES ASSUME NEW q \in Runs, Suspended(q)', Stored(run[q].id)'
               PROVE  doc'[run'[q].id].owner \in {run'[q].by, Legacy} \/ q \in overtaken'
    BY DEF OwnerKept
  <2>1. CASE q = r
    BY <1>2, <1>4, <1>7, <2>1
  <2>2. CASE q # r /\ run[q].id = d
    BY <1>2, <1>4, <1>7, <1>8, <1>14, <2>2
  <2>3. CASE q # r /\ run[q].id # d
    BY <1>1, <1>9, <1>18, <2>3 DEF Belongs, OwnerKept, Stored
  <2>. QED
    BY <2>1, <2>2, <2>3
<1>20. OneContent'
  <2> SUFFICES ASSUME NEW q \in Runs, Suspended(q)', Stored(run[q].id)'
               PROVE  \/ run'[q].by = run'[doc'[run'[q].id].of].by
                      \/ Overtaken(run[q].id)'
    BY DEF OneContent
  <2>1. CASE q = r
    BY <1>2, <1>4, <1>7, <2>1
  <2>2. CASE q # r /\ run[q].id = d
    BY <1>2, <1>4, <1>7, <1>8, <1>15, <2>2
  <2>3. CASE q # r /\ run[q].id # d
    <3>1. Stored(run[q].id) /\ Suspended(q)
      BY <1>7, <1>18, <2>3 DEF Stored
    <3>2. run[q].by = run[doc[run[q].id].of].by \/ Overtaken(run[q].id)
      BY <1>1, <3>1 DEF Belongs, OneContent
    <3>. QED
      BY <1>7, <1>11, <1>16, <1>18, <2>3, <3>1, <3>2
  <2>. QED
    BY <2>1, <2>2, <2>3
<1>21. RowNamesRun'
  BY <1>2, <1>4, <1>7, <1>8, <1>16 DEF RowNamesRun, Stored
<1>22. ContentStaysWithOwner'
  BY <1>1, <1>2, <1>4, <1>7, <1>9, <1>16 DEF Belongs, ContentStaysWithOwner, Stored
<1>23. TicketHasDocument'
  BY <1>7, <1>8 DEF IInv, TicketHasDocument
<1>24. BookedIsInLedger'
  <2> SUFFICES ASSUME NEW e \in Docs, Stored(e)', doc'[e].status = "booked"
               PROVE  ledger'[e] = run'[doc'[e].of].by \/ Overtaken(e)'
    BY DEF BookedIsInLedger
  <2>1. e # d
    BY <1>2, <1>4
  <2>2. doc'[e] = doc[e] /\ Stored(e)
    BY <1>4, <2>1 DEF Stored
  <2>. QED
    BY <1>7, <1>11, <1>16, <2>2 DEF IInv, BookedIsInLedger
<1>. QED
  BY <1>12, <1>13, <1>17, <1>19, <1>20, <1>21, <1>22, <1>23, <1>24 DEF IInv, Belongs

LEMMA Going ==
  ASSUME IInv, NEW r \in Runs,
         NEW s \in {"auditing", "booking", "disputing", "over"}, Goes(r, s),
         s = "over" \/ run[r].stage \in {"auditing", "booking", "disputing"},
         overtaken' = overtaken
  PROVE  SameRuns /\ StagesTyped
<1>1. TypeOK
  BY DEF IInv
<1>. QED
  BY <1>1, RunGoes DEF SameRuns, StagesTyped

LEMMA AuditKeeps ==
  ASSUME IInv, NEW r \in Runs, NEW passed \in BOOLEAN, Audit(r, passed)
  PROVE  IInv'
<1>1. TypeOK
  BY DEF IInv
<1> DEFINE d == run[r].id
           s == IF passed THEN "verified" ELSE "disputed"
           next == IF passed THEN "booking" ELSE "disputing"
<1>2. /\ run[r].stage = "auditing" /\ doc' = WriteBack(r, s) /\ Goes(r, next)
      /\ overtaken' = overtaken /\ ledger' = ledger /\ clock' = clock /\ ticket' = ticket
  BY DEF Audit, At
<1>3. s \in {"extracted", "verified", "disputed", "booked"} /\ s # "booked"
      /\ next \in {"auditing", "booking", "disputing", "over"}
  OBVIOUS
<1> HIDE DEF s, next
<1>4. Extracted(r) /\ d \in Docs
  BY <1>1, <1>2, ActiveRun
<1>5. SameRuns /\ StagesTyped
  BY <1>2, <1>3, Going
<1>6. TicketsTyped
  BY <1>1, <1>2 DEF IInv, TicketHasDocument, TicketsTyped, TypeOK
<1>10. Suspended(r)
  BY <1>2 DEF Suspended
<1>7. PICK new \in Rows :
        /\ doc' = [doc EXCEPT ![d] = new]
        /\ new.of = r /\ new.status # "booked"
        /\ Stored(d) => new.owner = doc[d].owner
        /\ ~Stored(d) => new.owner = Legacy
  BY <1>1, <1>2, <1>3, <1>4, WritingBack
<1>8. run[r].id = d
  OBVIOUS
<1> HIDE DEF d
<1>9. HandedOn(d, new)
  BY <1>10, <1>7, <1>8 DEF HandedOn
<1>. QED
  BY <1>2, <1>3, <1>4, <1>5, <1>6, <1>7, <1>9, RowsKeep

LEMMA BookKeeps ==
  ASSUME IInv, NEW r \in Runs, Book(r)
  PROVE  IInv'
<1>1. TypeOK /\ Belongs /\ BookedIsInLedger
  BY DEF IInv
<1> DEFINE d == run[r].id
<1>2. /\ run[r].stage = "booking" /\ doc' = WriteBack(r, "booked") /\ Goes(r, "over")
      /\ ledger' = [ledger EXCEPT ![d] = run[r].by]
      /\ overtaken' = overtaken /\ clock' = clock /\ ticket' = ticket
  BY DEF Book, At, Booked
<1>3. Suspended(r) /\ d \in Docs /\ run[r].by \in Owners
  BY <1>1, <1>2, ActiveRun
<1>4. SameRuns /\ StagesTyped
  BY <1>2, Going
<1>5. TicketsTyped
  BY <1>1, <1>2 DEF IInv, TicketHasDocument, TicketsTyped, TypeOK
<1>6. PICK new \in Rows :
        /\ doc' = [doc EXCEPT ![d] = new]
        /\ new.of = r
        /\ Stored(d) => new.owner = doc[d].owner
        /\ ~Stored(d) => new.owner = Legacy
  BY <1>1, <1>2, <1>3, WritingBack
<1>7. run[r].id = d
  OBVIOUS
<1> HIDE DEF d
<1>8. /\ doc' \in [Docs -> Rows \cup {NoDoc}]
      /\ doc'[d] = new /\ \A e \in Docs \ {d} : doc'[e] = doc[e]
  BY <1>1, <1>3, <1>6, RowSet
<1>9. ledger' \in [Docs -> Owners \cup {Nobody}]
  BY <1>1, <1>2, <1>3 DEF TypeOK
<1>10. TypeOK'
  BY <1>1, <1>2, <1>4, <1>5, <1>8, <1>9 DEF TypeOK, StagesTyped, TicketsTyped, SameRuns
<1>11. Belongs'
  <2>1. HandedOn(d, new)
    BY <1>3, <1>6, <1>7 DEF HandedOn
  <2>. QED
    BY <1>1, <1>3, <1>4, <1>6, <2>1, RowsChangeHands
<1>12. TicketHasDocument'
  BY <1>4, <1>5 DEF TicketHasDocument, TicketsTyped, SameRuns, Extracted
<1>13. BookedIsInLedger'
  <2> SUFFICES ASSUME NEW e \in Docs, Stored(e)', doc'[e].status = "booked"
               PROVE  ledger'[e] = run'[doc'[e].of].by \/ Overtaken(e)'
    BY DEF BookedIsInLedger
  <2>1. CASE e = d
    BY <1>1, <1>2, <1>3, <1>4, <1>6, <1>8, <2>1 DEF TypeOK, SameRuns
  <2>2. CASE e # d
    <3>1. doc'[e] = doc[e] /\ Stored(e) /\ ledger'[e] = ledger[e]
      BY <1>1, <1>2, <1>8, <2>2 DEF Stored, TypeOK
    <3>2. doc[e].of \in Runs
      BY <1>1, <3>1 DEF TypeOK, Stored, Rows
    <3>3. Overtaken(e)' <=> Overtaken(e)
      BY <1>1, <1>4, SameOvertaken
    <3>. QED
      BY <1>1, <1>4, <3>1, <3>2, <3>3 DEF BookedIsInLedger, SameRuns
  <2>. QED
    BY <2>1, <2>2
<1>. QED
  BY <1>10, <1>11, <1>12, <1>13 DEF IInv

LEMMA WorkflowKeeps ==
  ASSUME IInv, NEW r \in Runs, Workflow(r)
  PROVE  IInv'
<1>1. TypeOK
  BY DEF IInv
<1>2. CASE \E who \in Owners, d \in Docs : Extract(r, who, d)
  BY <1>2, ExtractKeeps
<1>3. CASE \E passed \in BOOLEAN : Audit(r, passed)
  BY <1>3, AuditKeeps
<1>4. CASE Book(r)
  BY <1>4, BookKeeps
\* The others leave the rows alone.
<1>5. CASE ExtractFails(r) \/ BookHalfway(r) \/ Dispute(r) \/ Stops(r)
  <2>1. /\ doc' = doc /\ overtaken' = overtaken /\ clock' = clock /\ Goes(r, "over")
        /\ ledger' = ledger \/ BookHalfway(r)
        /\ ticket' = ticket \/ Dispute(r)
    BY <1>5 DEF ExtractFails, BookHalfway, Dispute, Stops
  <2>2. SameRuns /\ StagesTyped
    BY <2>1, Going
  <2>3. TicketsTyped
    <3>1. CASE ticket' = ticket
      BY <1>1, <3>1 DEF IInv, TicketHasDocument, TicketsTyped, TypeOK
    <3>2. CASE Dispute(r)
      <4>1. Extracted(r) /\ ticket' = [ticket EXCEPT ![r] = "pending"]
        BY <1>1, <3>2, ActiveRun DEF Dispute, At
      <4>. QED
        BY <1>1, <4>1 DEF IInv, TicketHasDocument, TicketsTyped, TypeOK
    <3>. QED
      BY <2>1, <3>1, <3>2
  <2>4. ledger' = ledger \/ (Suspended(r) /\ Booked(r))
    BY <1>1, <2>1, ActiveRun DEF BookHalfway, At
  <2>5. clock' \in Times
    BY <1>1, <2>1 DEF TypeOK
  <2>. QED
    BY <2>1, <2>2, <2>3, <2>4, <2>5, LedgerKeeps
<1>. QED
  BY <1>2, <1>3, <1>4, <1>5 DEF Workflow

LEMMA Inductive == Spec => []IInv
<1>1. Init => IInv
  <2> SUFFICES ASSUME Init PROVE IInv
    OBVIOUS
  <2>1. \A r \in Runs : ~Extracted(r) /\ ~Suspended(r)
    BY OwnersAssumption DEF Init, Extracted, Suspended
  <2>2. \A d \in Docs : ~Stored(d)
    BY DEF Init, Stored
  <2>3. TypeOK
    BY <2>1, OwnersAssumption DEF Init, TypeOK, Times, RunRows
  <2>. QED
    BY <2>1, <2>2, <2>3 DEF Init, IInv, Belongs, HasDocument, OwnerKept, OneOwner, OneContent,
                            RowNamesRun, ContentStaysWithOwner, TicketHasDocument,
                            BookedIsInLedger
<1>2. IInv /\ [Next]_vars => IInv'
  <2> SUFFICES ASSUME IInv, [Next]_vars PROVE IInv'
    OBVIOUS
  <2>1. TypeOK
    BY DEF IInv
  <2>2. CASE UNCHANGED vars \/ Tick
    <3>1. /\ run' = run /\ overtaken' = overtaken /\ ticket' = ticket /\ ledger' = ledger
          /\ doc' = doc
      BY <2>2 DEF vars, Tick
    <3>2. clock' \in Times
      BY <2>1, <2>2, OwnersAssumption DEF TypeOK, Times, vars, Tick
    <3>. QED
      BY <3>1, <3>2, NothingButRows, LedgerKeeps
  <2>. QED
    BY <2>2, WorkflowKeeps, RequestKeeps DEF Next
<1>. QED
  BY <1>1, <1>2, PTL DEF Spec

\* Every document, workflow and ticket is well typed, and a suspended
\* workflow has an owner and a document's id.
THEOREM DocumentsAreWellTyped == Spec => []TypeOK
<1>1. IInv => TypeOK
  BY DEF IInv
<1>. QED
  BY <1>1, Inductive, PTL

\* However extraction, deletion and late writes interleave, content lies in
\* its owner's row or in one nobody reads (structured_documents.py:138-142),
\* unless another owner drew the id after a deletion while the workflow was
\* still to write (server.py:3573-3584, 3600).
THEOREM ContentNeverChangesHands == Spec => []ContentStaysWithOwner
<1>1. IInv => ContentStaysWithOwner
  BY DEF IInv, Belongs
<1>. QED
  BY <1>1, Inductive, PTL

\* A document marked booked is in the ledger under its workflow's owner
\* (reconciliation.py:76-94), unless a workflow was overtaken at its id.
THEOREM BookedDocumentsAreInLedger == Spec => []BookedIsInLedger
<1>1. IInv => BookedIsInLedger
  BY DEF IInv
<1>. QED
  BY <1>1, Inductive, PTL

-----------------------------------------------------------------------------
(* The store keeps what Retention promises.                                 *)

\* A workflow adds a row without protection or leaves protection alone.
LEMMA WritingKeepsPromise ==
  ASSUME TypeOK, clock' = clock,
         NEW d \in Docs, NEW new \in Rows, doc' = [doc EXCEPT ![d] = new],
         Stored(d) => new.until = doc[d].until /\ new.hold = doc[d].hold,
         ~Stored(d) => new.until = 0 /\ ~new.hold
  PROVE  [Promise!Next]_(Promise!vars)
<1>1. /\ doc'[d] = new /\ new # NoDoc
      /\ \A e \in Docs \ {d} : doc'[e] = doc[e]
  BY RowSet, RowAssumption
<1>2. CASE Stored(d)
  <2>1. /\ {e \in Docs : Stored(e)}' = {e \in Docs : Stored(e)}
        /\ {e \in Docs : Stored(e) /\ doc[e].hold}' = {e \in Docs : Stored(e) /\ doc[e].hold}
        /\ [e \in Docs |-> IF Stored(e) THEN doc[e].until ELSE 0]'
             = [e \in Docs |-> IF Stored(e) THEN doc[e].until ELSE 0]
    BY <1>1, <1>2 DEF Stored
  <2>. QED
    BY <2>1 DEF Promise!vars
<1>3. CASE ~Stored(d)
  <2>1. /\ {e \in Docs : Stored(e)}' = {e \in Docs : Stored(e)} \cup {d}
        /\ {e \in Docs : Stored(e) /\ doc[e].hold}' = {e \in Docs : Stored(e) /\ doc[e].hold}
        /\ [e \in Docs |-> IF Stored(e) THEN doc[e].until ELSE 0]'
             = [e \in Docs |-> IF Stored(e) THEN doc[e].until ELSE 0]
    BY <1>1, <1>3 DEF Stored
  <2>2. Promise!Add(d)
    BY <1>3, <2>1 DEF Promise!Add
  <2>. QED
    BY <2>2 DEF Promise!Next
<1>. QED
  BY <1>2, <1>3

LEMMA WorkflowKeepsPromise ==
  ASSUME IInv, NEW r \in Runs, Workflow(r)
  PROVE  [Promise!Next]_(Promise!vars)
<1>1. TypeOK
  BY DEF IInv
<1>2. ASSUME NEW who \in Owners, NEW d \in Docs, Extract(r, who, d)
      PROVE  [Promise!Next]_(Promise!vars)
  <2> DEFINE new == Put(r, who, d)
  <2>1. /\ new \in Rows
        /\ Stored(d) => new.until = doc[d].until /\ new.hold = doc[d].hold
        /\ ~Stored(d) => new.until = 0 /\ ~new.hold
    BY <1>1, Putting
  <2>2. doc' = [doc EXCEPT ![d] = new] /\ clock' = clock
    BY <1>2 DEF Extract
  <2> HIDE DEF new
  <2>. QED
    BY <1>1, <2>1, <2>2, WritingKeepsPromise
<1>3. ASSUME NEW s \in {"extracted", "verified", "disputed", "booked"},
             doc' = WriteBack(r, s), clock' = clock,
             run[r].stage \in {"auditing", "booking", "disputing"}
      PROVE  [Promise!Next]_(Promise!vars)
  <2> DEFINE d == run[r].id
  <2>1. d \in Docs
    BY <1>1, <1>3, ActiveRun
  <2>2. PICK new \in Rows :
          /\ doc' = [doc EXCEPT ![d] = new]
          /\ Stored(d) => new.until = doc[d].until /\ new.hold = doc[d].hold
          /\ ~Stored(d) => new.until = 0 /\ ~new.hold
    BY <1>1, <1>3, <2>1, WritingBack
  <2> HIDE DEF d
  <2>. QED
    BY <1>1, <1>3, <2>1, <2>2, WritingKeepsPromise
<1>4. ASSUME NEW passed \in BOOLEAN, Audit(r, passed)
      PROVE  [Promise!Next]_(Promise!vars)
  <2>1. /\ run[r].stage = "auditing" /\ clock' = clock
        /\ doc' = WriteBack(r, "verified") \/ doc' = WriteBack(r, "disputed")
    BY <1>4 DEF Audit, At
  <2>. QED
    BY <1>3, <2>1
<1>5. CASE Book(r)
  BY <1>3, <1>5 DEF Book, At
<1>6. CASE ExtractFails(r) \/ BookHalfway(r) \/ Dispute(r) \/ Stops(r)
  <2>1. doc' = doc /\ clock' = clock
    BY <1>6 DEF ExtractFails, BookHalfway, Dispute, Stops
  <2>. QED
    BY <2>1 DEF Promise!vars, Stored
<1>. QED
  BY <1>2, <1>4, <1>5, <1>6 DEF Workflow

LEMMA RequestKeepsPromise ==
  ASSUME IInv, NEW who \in Owners, Request(who)
  PROVE  [Promise!Next]_(Promise!vars)
<1>1. TypeOK
  BY DEF IInv
<1>2. ASSUME NEW d \in Docs, NEW new, Changes(who, d), Set(d, new)
      PROVE  /\ Stored(d) /\ doc[d] \in Rows /\ clock' = clock
             /\ doc'[d] = new /\ \A e \in Docs \ {d} : doc'[e] = doc[e]
  BY <1>1, <1>2 DEF Changes, Stored, Set, TypeOK
<1>3. ASSUME NEW d \in Docs, NEW visibility \in {"private", "organization"},
             UpdateSharing(who, d, visibility)
      PROVE  UNCHANGED Promise!vars
  <2> DEFINE new == [doc[d] EXCEPT !.visibility = visibility]
  <2>1. /\ Stored(d) /\ doc[d] \in Rows /\ clock' = clock
        /\ doc'[d] = new /\ \A e \in Docs \ {d} : doc'[e] = doc[e]
    BY <1>2, <1>3 DEF UpdateSharing
  <2>2. new.until = doc[d].until /\ new.hold = doc[d].hold /\ new \in Rows
    BY <2>1 DEF Rows
  <2> HIDE DEF new
  <2>3. new # NoDoc
    BY <2>2, RowAssumption
  <2>. QED
    BY <2>1, <2>2, <2>3 DEF Promise!vars, Stored
<1>4. ASSUME NEW d \in Docs, NEW date \in 0 .. MaxTime, SetRetention(who, d, date)
      PROVE  Promise!Extend(d) \/ UNCHANGED Promise!vars
  <2> DEFINE new == [doc[d] EXCEPT !.until = date]
  <2>1. /\ Stored(d) /\ doc[d] \in Rows /\ clock' = clock
        /\ doc'[d] = new /\ \A e \in Docs \ {d} : doc'[e] = doc[e]
    BY <1>2, <1>4 DEF SetRetention
  <2>2. new.until = date /\ new.hold = doc[d].hold /\ new \in Rows
    BY <2>1 DEF Rows
  <2> HIDE DEF new
  <2>3. new # NoDoc
    BY <2>2, RowAssumption
  <2>4. CASE date = 0
    <3>1. doc[d].until = date
      BY <1>4, <2>4 DEF SetRetention
    <3>. QED
      BY <2>1, <2>2, <2>3, <3>1 DEF Promise!vars, Stored
  <2>5. CASE date # 0
    <3>1. date > clock /\ date >= doc[d].until /\ date \in Nat
      BY <1>4, <2>5, OwnersAssumption DEF SetRetention
    <3>2. /\ {e \in Docs : Stored(e)}' = {e \in Docs : Stored(e)}
          /\ {e \in Docs : Stored(e) /\ doc[e].hold}' = {e \in Docs : Stored(e) /\ doc[e].hold}
      BY <2>1, <2>2, <2>3 DEF Stored
    <3> DEFINE until == [e \in Docs |-> IF Stored(e) THEN doc[e].until ELSE 0]
    <3>3. until' = [until EXCEPT ![d] = date]
      BY <2>1, <2>2, <2>3 DEF Stored
    <3>4. until'[d] = date /\ until[d] = doc[d].until
      BY <2>1, <2>2, <2>3 DEF Stored
    <3>. QED
      BY <2>1, <3>1, <3>2, <3>3, <3>4 DEF Promise!Extend
  <2>. QED
    BY <2>4, <2>5
<1>5. ASSUME NEW d \in Docs, NEW enabled \in BOOLEAN, SetLegalHold(who, d, enabled)
      PROVE  Promise!Hold(d) \/ Promise!LiftHold(d)
  <2> DEFINE new == [doc[d] EXCEPT !.hold = enabled]
  <2>1. /\ Stored(d) /\ doc[d] \in Rows /\ clock' = clock
        /\ doc'[d] = new /\ \A e \in Docs \ {d} : doc'[e] = doc[e]
    BY <1>2, <1>5 DEF SetLegalHold
  <2>2. new.until = doc[d].until /\ new.hold = enabled /\ new \in Rows
    BY <2>1 DEF Rows
  <2> HIDE DEF new
  <2>3. new # NoDoc
    BY <2>2, RowAssumption
  <2>4. /\ {e \in Docs : Stored(e)}' = {e \in Docs : Stored(e)}
        /\ [e \in Docs |-> IF Stored(e) THEN doc[e].until ELSE 0]'
             = [e \in Docs |-> IF Stored(e) THEN doc[e].until ELSE 0]
    BY <2>1, <2>2, <2>3 DEF Stored
  <2>5. {e \in Docs : Stored(e) /\ doc[e].hold}'
          = IF enabled THEN {e \in Docs : Stored(e) /\ doc[e].hold} \cup {d}
                       ELSE {e \in Docs : Stored(e) /\ doc[e].hold} \ {d}
    BY <2>1, <2>2, <2>3 DEF Stored
  <2>. QED
    BY <2>1, <2>4, <2>5 DEF Promise!Hold, Promise!LiftHold
<1>6. ASSUME NEW d \in Docs, DeleteDocument(who, d)
      PROVE  Promise!Remove(d)
  <2>1. /\ Stored(d) /\ doc[d] \in Rows /\ clock' = clock
        /\ doc'[d] = NoDoc /\ \A e \in Docs \ {d} : doc'[e] = doc[e]
    BY <1>2, <1>6 DEF DeleteDocument
  <2>2. ~doc[d].hold /\ doc[d].until <= clock
    BY <1>6 DEF DeleteDocument
  <2>3. /\ {e \in Docs : Stored(e)}' = {e \in Docs : Stored(e)} \ {d}
        /\ {e \in Docs : Stored(e) /\ doc[e].hold}' = {e \in Docs : Stored(e) /\ doc[e].hold}
    BY <2>1, <2>2 DEF Stored
  <2> DEFINE until == [e \in Docs |-> IF Stored(e) THEN doc[e].until ELSE 0]
  <2>4. until' = [until EXCEPT ![d] = 0] /\ until[d] = doc[d].until
    BY <2>1 DEF Stored
  <2>. QED
    BY <2>1, <2>2, <2>3, <2>4 DEF Promise!Remove
<1>7. ASSUME NEW r \in Runs, Approve(who, r)
      PROVE  [Promise!Next]_(Promise!vars)
  <2> DEFINE d == run[r].id
  <2>1. d \in Docs /\ Stored(d)
    BY <1>1, <1>7 DEF IInv, Belongs, HasDocument, TicketHasDocument, TypeOK, Approve, Reads
  <2>2. PICK new \in Rows :
          /\ doc' = [doc EXCEPT ![d] = new]
          /\ new.until = doc[d].until /\ new.hold = doc[d].hold
    BY <1>1, <1>7, <2>1, Approval, Zenon
  <2>3. clock' = clock
    BY <1>7 DEF Approve
  <2> HIDE DEF d
  <2>. QED
    BY <1>1, <2>1, <2>2, <2>3, WritingKeepsPromise
<1>8. ASSUME NEW r \in Runs, Reject(who, r)
      PROVE  UNCHANGED Promise!vars
  BY <1>8 DEF Reject, Promise!vars, Stored
<1>9. CASE \E d \in Docs :
             \/ \E visibility \in {"private", "organization"} : UpdateSharing(who, d, visibility)
             \/ \E date \in 0 .. MaxTime : SetRetention(who, d, date)
             \/ \E enabled \in BOOLEAN : SetLegalHold(who, d, enabled)
             \/ DeleteDocument(who, d)
  <2>1. \/ \E d \in Docs : Promise!Extend(d) \/ Promise!Hold(d) \/ Promise!LiftHold(d)
                             \/ Promise!Remove(d)
        \/ UNCHANGED Promise!vars
    BY <1>3, <1>4, <1>5, <1>6, <1>9
  <2>. QED
    BY <2>1 DEF Promise!Next
<1>. QED
  BY <1>7, <1>8, <1>9 DEF Request

\* Whatever workflows, owners and managers do, documents are kept as long as
\* Retention promises (structured_documents.py:209-268).
THEOREM DocumentsKeepRetention == Spec => ImplementsRetention
<1>1. Init => Promise!Init
  <2> SUFFICES ASSUME Init PROVE Promise!Init
    OBVIOUS
  <2>1. \A d \in Docs : ~Stored(d)
    BY DEF Init, Stored
  <2>. QED
    BY <2>1 DEF Init, Promise!Init
<1>2. IInv /\ [Next]_vars => [Promise!Next]_(Promise!vars)
  <2> SUFFICES ASSUME IInv, [Next]_vars PROVE [Promise!Next]_(Promise!vars)
    OBVIOUS
  <2>1. CASE UNCHANGED vars
    BY <2>1 DEF vars, Promise!vars, Stored
  <2>2. CASE Tick
    <3>1. clock' \in Nat /\ clock' > clock /\ doc' = doc
      BY <2>2 DEF Tick, IInv, TypeOK, Times
    <3>2. Promise!Tick
      BY <3>1 DEF Promise!Tick, Stored
    <3>. QED
      BY <3>2 DEF Promise!Next
  <2>. QED
    BY <2>1, <2>2, WorkflowKeepsPromise, RequestKeepsPromise DEF Next
<1>. QED
  BY <1>1, <1>2, Inductive, PTL DEF Spec, ImplementsRetention, Promise!Spec
=============================================================================
