----------------------------- MODULE Documents -----------------------------
(***************************************************************************)
(* core/structured_documents.py and the invoice workflow that fills it     *)
(* (web/server.py), with the ledger and the dispute tickets.               *)
(*                                                                         *)
(* A workflow suspends in its gateway calls and writes its document back   *)
(* after each; owners and managers share, retain, hold and delete          *)
(* documents meanwhile.  An id whose row was deleted may be drawn again,   *)
(* by another owner too.  FleetRuns has the calls' own outcomes.           *)
(***************************************************************************)
EXTENDS Naturals

CONSTANTS
  Owners,        \* data owners that process and own documents
  Organization,  \* Organization[o]: the tenant of o
  Managers,      \* those who may set any retention and hold of their tenant
  Legacy,        \* the owner of rows written without a principal
  Runs,          \* workflows
  Docs,          \* document ids
  NoDoc,         \* what the store returns for an id it does not hold
  Nobody,        \* no owner yet
  MaxTime        \* bound on the clock

ASSUME OwnersAssumption ==
  /\ Managers \subseteq Owners
  /\ Legacy \notin Owners /\ Nobody \notin Owners \cup {Legacy}
  /\ MaxTime \in Nat \ {0}

VARIABLES
  clock,
  doc,      \* the document store
  ledger,   \* ledger[d]: who booked d, or Nobody
  run,      \* the workflows
  ticket,   \* the dispute ticket of a workflow
  overtaken \* history: workflows at work on an id when another owner drew it

vars == <<clock, doc, ledger, run, ticket, overtaken>>

Times == 1 .. MaxTime

\* A row holds the document of a workflow.  Its date is 0 under the
\* creator_managed policy, which knows none.
Rows ==
  [owner : Owners \cup {Legacy}, of : Runs,
   status : {"extracted", "verified", "disputed", "booked"},
   visibility : {"private", "organization"}, until : 0 .. MaxTime, hold : BOOLEAN]

ASSUME RowAssumption == NoDoc \notin Rows

RunRows ==
  [stage : {"new", "auditing", "booking", "disputing", "over"},
   by : Owners \cup {Nobody}, id : Docs \cup {NoDoc}]

Stored(d) == doc[d] # NoDoc

Suspended(r) == run[r].stage \in {"auditing", "booking", "disputing"}

TypeOK ==
  /\ clock \in Times
  /\ doc \in [Docs -> Rows \cup {NoDoc}]
  /\ ledger \in [Docs -> Owners \cup {Nobody}]
  /\ run \in [Runs -> RunRows]
  /\ \A r \in Runs : Suspended(r) => run[r].by \in Owners /\ run[r].id \in Docs
  /\ ticket \in [Runs -> {"none", "pending", "approved", "rejected"}]
  /\ overtaken \subseteq {r \in Runs : run[r].id \in Docs}

Init ==
  /\ clock = 1
  /\ doc = [d \in Docs |-> NoDoc]
  /\ ledger = [d \in Docs |-> Nobody]
  /\ run = [r \in Runs |-> [stage |-> "new", by |-> Nobody, id |-> NoDoc]]
  /\ ticket = [r \in Runs |-> "none"]
  /\ overtaken = {}

-----------------------------------------------------------------------------
(* The invoice workflow.                                                    *)

At(r, stage) == run[r].stage = stage

Goes(r, stage) == run' = [run EXCEPT ![r].stage = stage]

NewRow(r, owner, status) ==
  [owner |-> owner, of |-> r, status |-> status, visibility |-> "private",
   until |-> 0, hold |-> FALSE]

\* put_scoped: a row its owner puts again keeps its protection.
Put(r, who, d) ==
  IF Stored(d)
  THEN [NewRow(r, who, "extracted") EXCEPT !.until = doc[d].until, !.hold = doc[d].hold]
  ELSE NewRow(r, who, "extracted")

\* Mistake: an id that is taken is not checked for its owner.
Any(who, d) == TRUE

\* An id is drawn at random until no other owner's row has it.
Usable(who, d) == Stored(d) => doc[d].owner = who

Extract(r, who, d) ==
  /\ At(r, "new") /\ Usable(who, d)
  /\ doc' = [doc EXCEPT ![d] = Put(r, who, d)]
  /\ run' = [run EXCEPT ![r] = [stage |-> "auditing", by |-> who, id |-> d]]
  /\ overtaken' = IF Stored(d) THEN overtaken
                  ELSE overtaken \cup
                         {q \in Runs : Suspended(q) /\ run[q].id = d /\ run[q].by # who}
  /\ UNCHANGED <<clock, ledger, ticket>>

\* The extraction is refused or fails, or draws taken ids only.
ExtractFails(r) ==
  /\ At(r, "new")
  /\ Goes(r, "over")
  /\ UNCHANGED <<clock, doc, ledger, ticket, overtaken>>

\* __setitem__: an id that is gone becomes a legacy row nobody may touch.
WriteBack(r, status) ==
  [doc EXCEPT ![run[r].id] =
     IF @ = NoDoc THEN NewRow(r, Legacy, status)
     ELSE [@ EXCEPT !.of = r, !.status = status]]

Audit(r, passed) ==
  /\ At(r, "auditing")
  /\ doc' = WriteBack(r, IF passed THEN "verified" ELSE "disputed")
  /\ Goes(r, IF passed THEN "booking" ELSE "disputing")
  /\ UNCHANGED <<clock, ledger, ticket, overtaken>>

Booked(r) == ledger' = [ledger EXCEPT ![run[r].id] = run[r].by]

\* Mistake: the document is marked before the ledger has its entry.
BookLater(r) ==
  /\ At(r, "booking")
  /\ Goes(r, "over")
  /\ doc' = WriteBack(r, "booked")
  /\ UNCHANGED <<clock, ledger, ticket, overtaken>>

Book(r) ==
  /\ At(r, "booking")
  /\ Booked(r)
  /\ doc' = WriteBack(r, "booked")
  /\ Goes(r, "over")
  /\ UNCHANGED <<clock, ticket, overtaken>>

\* The entry is in the ledger and remembering it fails: the tool has failed.
BookHalfway(r) ==
  /\ At(r, "booking")
  /\ Booked(r)
  /\ Goes(r, "over")
  /\ UNCHANGED <<clock, doc, ticket, overtaken>>

\* The letter is drafted and its dispatch waits for a human.
Dispute(r) ==
  /\ At(r, "disputing")
  /\ ticket' = [ticket EXCEPT ![r] = "pending"]
  /\ Goes(r, "over")
  /\ UNCHANGED <<clock, doc, ledger, overtaken>>

\* A gateway call is refused or fails, or the process dies.
Stops(r) ==
  /\ Suspended(r)
  /\ Goes(r, "over")
  /\ UNCHANGED <<clock, doc, ledger, ticket, overtaken>>

-----------------------------------------------------------------------------
(* Requests on documents and tickets.                                       *)

SameTenant(who, d) ==
  doc[d].owner \in Owners /\ Organization[doc[d].owner] = Organization[who]

\* can_read, inside one department.
Reads(who, d) ==
  /\ Stored(d) /\ SameTenant(who, d)
  /\ doc[d].owner = who \/ doc[d].visibility = "organization"

\* A legacy row is nobody's to change.
Changes(who, d) == Stored(d) /\ SameTenant(who, d)

Set(d, row) ==
  /\ doc' = [doc EXCEPT ![d] = row]
  /\ UNCHANGED <<clock, ledger, run, ticket, overtaken>>

UpdateSharing(who, d, visibility) ==
  /\ Changes(who, d) /\ doc[d].owner = who
  /\ Set(d, [doc[d] EXCEPT !.visibility = visibility])

\* Mistake: giving the policy up is no shortening.
RetainOrGiveUp(who, d, date) ==
  /\ Changes(who, d) /\ (doc[d].owner = who \/ who \in Managers)
  /\ date = 0 \/ (date > clock /\ date >= doc[d].until)
  /\ Set(d, [doc[d] EXCEPT !.until = date])

\* A date of 0 asks for the creator_managed policy.
SetRetention(who, d, date) ==
  /\ Changes(who, d) /\ (doc[d].owner = who \/ who \in Managers)
  /\ IF date = 0 THEN doc[d].until = 0 ELSE date > clock /\ date >= doc[d].until
  /\ Set(d, [doc[d] EXCEPT !.until = date])

SetLegalHold(who, d, enabled) ==
  /\ Changes(who, d) /\ who \in Managers
  /\ Set(d, [doc[d] EXCEPT !.hold = enabled])

DeleteDocument(who, d) ==
  /\ Changes(who, d) /\ doc[d].owner = who
  /\ ~doc[d].hold /\ doc[d].until <= clock
  /\ Set(d, NoDoc)

\* A ticket is decided by someone who reads its document; an approval says
\* on the document that its letter goes out.
Approve(who, r) ==
  /\ ticket[r] = "pending" /\ Reads(who, run[r].id)
  /\ ticket' = [ticket EXCEPT ![r] = "approved"]
  /\ doc' = [doc EXCEPT ![run[r].id].status = "disputed"]
  /\ UNCHANGED <<clock, ledger, run, overtaken>>

Reject(who, r) ==
  /\ ticket[r] = "pending" /\ Reads(who, run[r].id)
  /\ ticket' = [ticket EXCEPT ![r] = "rejected"]
  /\ UNCHANGED <<clock, doc, ledger, run, overtaken>>

Tick ==
  /\ clock < MaxTime
  /\ clock' = clock + 1
  /\ UNCHANGED <<doc, ledger, run, ticket, overtaken>>

-----------------------------------------------------------------------------
Workflow(r) ==
  \/ \E who \in Owners, d \in Docs : Extract(r, who, d)
  \/ \E passed \in BOOLEAN : Audit(r, passed)
  \/ ExtractFails(r) \/ Book(r) \/ BookHalfway(r) \/ Dispute(r) \/ Stops(r)

Request(who) ==
  \/ \E d \in Docs :
       \/ \E visibility \in {"private", "organization"} : UpdateSharing(who, d, visibility)
       \/ \E date \in 0 .. MaxTime : SetRetention(who, d, date)
       \/ \E enabled \in BOOLEAN : SetLegalHold(who, d, enabled)
       \/ DeleteDocument(who, d)
  \/ \E r \in Runs : Approve(who, r) \/ Reject(who, r)

Next == (\E r \in Runs : Workflow(r)) \/ (\E who \in Owners : Request(who)) \/ Tick

Spec == Init /\ [][Next]_vars

-----------------------------------------------------------------------------
\* What a workflow read from its owner's upload lies in the owner's row or in
\* one nobody reads, however extraction, deletion and late writes interleave
\* (structured_documents.py:138-142, 304-312).  The one exception is a workflow
\* that was overtaken: its document was deleted and the id drawn by another
\* owner, and its next write goes to that owner's row (server.py:3600, 3623).
ContentStaysWithOwner ==
  \A d \in Docs :
    Stored(d) => doc[d].owner \in {run[doc[d].of].by, Legacy} \/ doc[d].of \in overtaken

Overtaken(d) == \E r \in overtaken : run[r].id = d

\* A document marked booked is in the ledger, under the owner whose workflow
\* booked it, deleted meanwhile or not (reconciliation.py:76-94,
\* server.py:3606-3622); an id somebody was overtaken at has one entry for two.
BookedIsInLedger ==
  \A d \in Docs :
    Stored(d) /\ doc[d].status = "booked" =>
      ledger[d] = run[doc[d].of].by \/ Overtaken(d)

\* Documents are kept as long as Retention promises, workflows writing over
\* them or not.
Promise == INSTANCE Retention WITH
  Records <- Docs,
  now <- clock,
  kept <- {d \in Docs : Stored(d)},
  until <- [d \in Docs |-> IF Stored(d) THEN doc[d].until ELSE 0],
  held <- {d \in Docs : Stored(d) /\ doc[d].hold}

ImplementsRetention == Promise!Spec
=============================================================================
