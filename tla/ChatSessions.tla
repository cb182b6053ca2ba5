---------------------------- MODULE ChatSessions ----------------------------
(***************************************************************************)
(* chat/service.py: conversations whose turns and races are appended to a  *)
(* copy of the session that was read before the model was called.          *)
(*                                                                         *)
(* A call is one send or one race.  Between reading its session and saving *)
(* it, it waits for one model call (send), for all lanes and perhaps the   *)
(* judge (race); it reads no state in between.  Sessions are not deleted.  *)
(***************************************************************************)
EXTENDS ComponentRegistry, FiniteSets

CONSTANTS
  Sessions, Calls,
  NoPrompt, Latest,  \* no prompt selected; a prompt without a pinned version
  Selections,        \* what can be selected: a prompt, its version and skills
  Sharings,          \* how owners share their sessions
  Names, LongNames,  \* whom they list, and the names of over 200 characters
  MaxReaders,        \* the names that are kept of a list, 50 in the code
  NoSession, NoText

Selectable ==
  [prompt : Prompts \cup {NoPrompt}, number : Numbers \cup {Latest}, skills : SUBSET Skills]

Nothing == [prompt |-> NoPrompt, number |-> Latest, skills |-> {}]

ASSUME ChatAssumption ==
  /\ Selections \subseteq Selectable
  /\ \A e \in Selections : e.prompt = NoPrompt => e.number = Latest
  /\ NoPrompt \notin Prompts /\ Latest \notin Numbers
  /\ NoText \notin Texts /\ NoSession \notin Sessions

VARIABLES
  sessions,  \* the session store
  calls,     \* the sends and races
  asked      \* asked[s]: how the owner last chose to share s

chat == <<sessions, calls, asked>>

Sharing == [visibility : {"private", "department", "organization"}, with : SUBSET Names]

ASSUME SharingAssumption ==
  Sharings \subseteq Sharing /\ MaxReaders \in Nat \ {0}

\* turns: the calls whose messages or race the session holds.
SessionRows == [owner : Principals, sharing : Sharing, turns : SUBSET Calls]

\* cites is what the reply will say it used, text what a version it pins said.
\* missed holds what was saved in the session while the call waited, cut says
\* that something it cites was deleted while it was in no transcript.
CallRows ==
  [stage : {"new", "waiting", "answered", "refused"}, session : Sessions \cup {NoSession},
   copy : SessionRows \cup {NoRow}, cites : Selectable, text : Texts \cup {NoText},
   missed : SUBSET (Calls \cup {"sharing"}), cut : BOOLEAN]

ASSUME NoSessionRowAssumption == NoRow \notin SessionRows /\ "sharing" \notin Calls

StoredSession(s) == sessions[s] # NoRow
Waiting(c) == calls[c].stage = "waiting"

Private == [visibility |-> "private", with |-> {}]

-----------------------------------------------------------------------------
(* build_system_prompt.                                                     *)

\* Approval, role, gate and screen of a component can also refuse it: a call
\* may be refused whatever it selected.
Assembles(u, e) ==
  /\ \A k \in e.skills : StoredSkill(k) /\ Readable(skills[k], {}, u)
  /\ e.prompt # NoPrompt =>
       /\ StoredPrompt(e.prompt) /\ Readable(prompts[e.prompt], Named, u)
       /\ e.number # Latest => HasNumber(prompts[e.prompt], e.number)

Says(e, text) ==
  IF e.number = Latest THEN text = NoText ELSE Resolves(prompts[e.prompt], e.number, text)

-----------------------------------------------------------------------------
(* send and race.                                                           *)

\* The session a call starts in: its own, or one that is created.
Opened(u, s) ==
  IF StoredSession(s) THEN sessions[s]
  ELSE [owner |-> u, sharing |-> Private, turns |-> {}]

MayUse(u, s) == StoredSession(s) => sessions[s].owner = u

\* The others that hold a copy of s miss what is saved now.
Missing(s, what) ==
  [d \in Calls |->
     IF Waiting(d) /\ calls[d].session = s
     THEN [calls[d] EXCEPT !.missed = @ \cup {what}] ELSE calls[d]]

Fresh(stage, s) ==
  [stage |-> stage, session |-> s, copy |-> NoRow, cites |-> Nothing, text |-> NoText,
   missed |-> {}, cut |-> FALSE]

Finished(c) == [calls[c] EXCEPT !.stage = "answered", !.copy = NoRow]

\* Mistake: the refusal is answered and not saved.
BlockUnsaved(c, u, s) ==
  /\ calls[c].stage = "new" /\ MayUse(u, s)
  /\ sessions' = [sessions EXCEPT ![s] = Opened(u, s)]
  /\ calls' = [Missing(s, c) EXCEPT ![c] = Fresh("answered", s)]
  /\ UNCHANGED asked

\* The message is blocked: the refusal is a turn, saved at once.
Block(c, u, s) ==
  /\ calls[c].stage = "new" /\ MayUse(u, s)
  /\ sessions' = [sessions EXCEPT ![s] = [Opened(u, s) EXCEPT !.turns = @ \cup {c}]]
  /\ calls' = [Missing(s, c) EXCEPT ![c] = Fresh("answered", s)]
  /\ UNCHANGED asked

\* A component is refused: nothing is saved but the session, if it is new.
Refuse(c, u, s) ==
  /\ calls[c].stage = "new" /\ MayUse(u, s)
  /\ sessions' = [sessions EXCEPT ![s] = Opened(u, s)]
  /\ calls' = [calls EXCEPT ![c] = Fresh("refused", NoSession)]
  /\ UNCHANGED asked

\* A send cites what was selected; a race uses it and records none of it.
Ask(c, u, s, e, cites) ==
  /\ calls[c].stage = "new" /\ MayUse(u, s) /\ Assembles(u, e)
  /\ cites \in {e, Nothing}
  /\ sessions' = [sessions EXCEPT ![s] = Opened(u, s)]
  /\ \E text \in Texts \cup {NoText} :
       /\ Says(cites, text)
       /\ calls' = [calls EXCEPT ![c] =
            [Fresh("waiting", s) EXCEPT !.copy = Opened(u, s), !.cites = cites, !.text = text]]
  /\ UNCHANGED asked

\* The models have answered, or the gateway has refused: a turn either way,
\* appended to the copy, and the copy is saved.
Answer(c) ==
  /\ Waiting(c)
  /\ LET s == calls[c].session IN
       /\ sessions' = [sessions EXCEPT ![s] =
            [calls[c].copy EXCEPT !.turns = @ \cup {c}]]
       /\ calls' = [Missing(s, c) EXCEPT ![c] = Finished(c)]
  /\ UNCHANGED asked

Fits(with) == Cardinality(with \ LongNames) <= MaxReaders

\* What is stored of a list: its first short names.  Their order is left out.
Kept(with) ==
  {readers \in SUBSET (with \ LongNames) :
     IF Fits(with) THEN readers = with \ LongNames ELSE Cardinality(readers) = MaxReaders}

\* Mistake: nobody but the owner is kept.
UpdateSharingAlone(u, s, sharing) ==
  /\ StoredSession(s) /\ sessions[s].owner = u
  /\ sharing.visibility = "department" => Department[u] # NoDepartment
  /\ sessions' = [sessions EXCEPT ![s].sharing = [sharing EXCEPT !.with = @ \cap {u}]]
  /\ asked' = [asked EXCEPT ![s] = [sharing EXCEPT !.with = @ \ {u}]]
  /\ calls' = Missing(s, "sharing")

UpdateSharing(u, s, sharing) ==
  /\ StoredSession(s) /\ sessions[s].owner = u
  /\ sharing.visibility = "department" => Department[u] # NoDepartment
  /\ LET chosen == [sharing EXCEPT !.with = @ \ {u}] IN
       /\ \E readers \in Kept(chosen.with) :
            sessions' = [sessions EXCEPT ![s].sharing = [chosen EXCEPT !.with = readers]]
       /\ asked' = [asked EXCEPT ![s] = chosen]
  /\ calls' = Missing(s, "sharing")

\* The process dies: calls in flight save nothing.
LoseCalls ==
  /\ calls' = [c \in Calls |-> IF Waiting(c) THEN Fresh("refused", NoSession) ELSE calls[c]]
  /\ UNCHANGED <<sessions, asked>>

-----------------------------------------------------------------------------

\* can_read, under a choice of sharing.
MayRead(u, owner, sharing) ==
  /\ Organization[u] = Organization[owner]
  /\ \/ u = owner
     \/ sharing.visibility = "organization"
     \/ u \in sharing.with
     \/ sharing.visibility = "department" /\ Department[u] # NoDepartment
          /\ Department[u] = Department[owner]

InitChat ==
  /\ sessions = [s \in Sessions |-> NoRow]
  /\ calls = [c \in Calls |-> Fresh("new", NoSession)]
  /\ asked = [s \in Sessions |-> Private]

TypeOKChat ==
  /\ sessions \in [Sessions -> SessionRows \cup {NoRow}]
  /\ calls \in [Calls -> CallRows]
  /\ \A c \in Calls : /\ Waiting(c) <=> calls[c].copy # NoRow
                      /\ calls[c].stage \in {"waiting", "answered"} => calls[c].session \in Sessions
  /\ asked \in [Sessions -> Sharing]
=============================================================================
