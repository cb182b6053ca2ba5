------------------------------ MODULE Library ------------------------------
(***************************************************************************)
(* The component registries, the task templates (uas/task_templates.py)    *)
(* and the chat sessions together, as web/server.py wires them: templates  *)
(* and turns refer to components, and a component that is referred to is   *)
(* not deleted.                                                            *)
(***************************************************************************)
EXTENDS ChatSessions

CONSTANTS
  Templates,
  StepLists   \* the steps a template can be given

\* A step takes its prompt from the library or has its own text; it can name a
\* prompt all the same.
StepRows ==
  [library : BOOLEAN, prompt : Prompts \cup {NoPrompt}, number : Numbers \cup {Latest},
   skills : SUBSET Skills]

ASSUME TemplateAssumption == StepLists \subseteq (SUBSET StepRows) \ {{}}

VARIABLES
  templates,  \* the template store
  up          \* whether the process runs

vars == <<prompts, skills, clock, sessions, calls, asked, templates, up>>

\* The order of the steps is left out: a reference is one in any step.
\* A template of a program without tenants is Legacy's, and nobody edits it.
TemplateRows == [owner : Principals \cup {Legacy}, steps : SUBSET StepRows]

ASSUME NoTemplateRowAssumption == NoRow \notin TemplateRows

StoredTemplate(t) == templates[t] # NoRow

TypeOK ==
  /\ TypeOKRegistry /\ TypeOKChat
  /\ templates \in [Templates -> TemplateRows \cup {NoRow}]
  /\ up \in BOOLEAN

-----------------------------------------------------------------------------
(* References.                                                              *)

Turns == UNION {sessions[s].turns : s \in {x \in Sessions : StoredSession(x)}}

Steps == UNION {templates[t].steps : t \in {x \in Templates : StoredTemplate(x)}}

\* _references_to looks at every template and every turn, readable or not.
InUse == Steps \cup {calls[c].cites : c \in Turns}

PromptInUse(p) == \E e \in InUse : e.prompt = p
VersionInUse(p, n) == \E e \in InUse : e.prompt = p /\ e.number = n
\* Mistake: only conversations are looked at.
SkillCited(k) == \E c \in Turns : k \in calls[c].cites.skills

SkillInUse(k) == \E e \in InUse : k \in e.skills

\* What is deleted under replies that no transcript shows, not yet or no longer:
\* they can still be saved.
Cut(citing) ==
  calls' = [c \in Calls |->
    IF c \in citing \ Turns THEN [calls[c] EXCEPT !.cut = TRUE] ELSE calls[c]]

-----------------------------------------------------------------------------
(* Templates.                                                               *)

\* What is checked of a step, and what a run of it follows: the prompt only if
\* it comes from the library, which is not the default, the skills always.
Checked(e) ==
  IF e.library THEN [prompt |-> e.prompt, number |-> e.number, skills |-> e.skills]
  ELSE [Nothing EXCEPT !.skills = e.skills]

Accepts(u, steps) == \A e \in steps : Assembles(u, Checked(e))

CreateTemplate(u, t, steps) ==
  /\ ~StoredTemplate(t) /\ Accepts(u, steps)
  /\ templates' = [templates EXCEPT ![t] = [owner |-> u, steps |-> steps]]

\* The whole list is replaced, and checked against what its editor can read.
UpdateSteps(u, t, steps) ==
  /\ StoredTemplate(t)
  /\ Organization[templates[t].owner] = Organization[u]
  /\ templates[t].owner = u \/ u \in Editors
  /\ Accepts(u, steps)
  /\ templates' = [templates EXCEPT ![t].steps = steps]

\* Bindings to routines and schedules can refuse it too.
DeleteTemplate(u, t) ==
  /\ StoredTemplate(t) /\ templates[t].owner = u
  /\ templates' = [templates EXCEPT ![t] = NoRow]

EditTemplates(u) ==
  /\ \E t \in Templates :
       \/ \E steps \in StepLists : CreateTemplate(u, t, steps) \/ UpdateSteps(u, t, steps)
       \/ DeleteTemplate(u, t)
  /\ UNCHANGED <<registry, chat, up>>

-----------------------------------------------------------------------------
(* The routes of the registries.                                            *)

RemovePrompt(u, p) ==
  /\ ~PromptInUse(p)
  /\ DeletePrompt(u, p)
  /\ Cut({c \in Calls : calls[c].cites.prompt = p})

RemoveVersion(u, p, n) ==
  /\ ~VersionInUse(p, n)
  /\ DeletePromptVersion(u, p, n)
  /\ Cut({c \in Calls : calls[c].cites.prompt = p /\ calls[c].cites.number = n})

RemoveSkill(u, k) ==
  /\ ~SkillInUse(k)
  /\ DeleteSkill(u, k)
  /\ Cut({c \in Calls : k \in calls[c].cites.skills})

Remove(u) ==
  /\ \/ \E p \in Prompts : RemovePrompt(u, p) \/ \E n \in Numbers : RemoveVersion(u, p, n)
     \/ \E k \in Skills : RemoveSkill(u, k)
  /\ UNCHANGED <<sessions, asked, templates, up>>

EditRegistries(u) ==
  /\ \/ \E p \in Prompts, text \in Texts :
          \/ \E visibility \in Visibilities : CreatePrompt(u, p, visibility, text)
          \/ \E n \in Numbers : AddPromptVersion(u, p, n, text)
     \/ \E p \in Prompts, visibility \in Visibilities : SharePrompt(u, p, visibility)
     \/ \E k \in Skills :
          \/ CreateSkill(u, k)
          \/ \E n \in Numbers : AddSkillVersion(u, k, n)
          \/ \E visibility \in Visibilities : ShareSkill(u, k, visibility)
  /\ UNCHANGED <<chat, templates, up>>

Converse(u) ==
  /\ \E s \in Sessions :
       \/ \E c \in Calls :
            \/ Block(c, u, s) \/ Refuse(c, u, s)
            \/ \E e \in Selections \cup {Nothing} : \E cites \in {e, Nothing} : Ask(c, u, s, e, cites)
       \/ \E sharing \in Sharings : UpdateSharing(u, s, sharing)
  /\ UNCHANGED <<registry, templates, up>>

Reply ==
  /\ \E c \in Calls : Answer(c)
  /\ UNCHANGED <<registry, templates, up>>

-----------------------------------------------------------------------------
(* The process.                                                             *)

Crash ==
  /\ up /\ up' = FALSE
  /\ LoseCalls
  /\ UNCHANGED <<registry, templates>>

Start ==
  /\ ~up /\ up' = TRUE
  /\ Seed
  /\ UNCHANGED <<chat, templates>>

Init ==
  /\ InitRegistry /\ InitChat
  /\ templates \in [Templates -> {NoRow} \cup [owner : {Legacy}, steps : StepLists]]
  /\ up = FALSE

Request(u) ==
  /\ up
  /\ EditRegistries(u) \/ Remove(u) \/ EditTemplates(u) \/ Converse(u)

Next ==
  \/ \E u \in Principals : Request(u)
  \/ up /\ Reply
  \/ Crash
  \/ Start

Spec == Init /\ [][Next]_vars

-----------------------------------------------------------------------------
(* What holds.                                                              *)

\* A reference that can still be followed.
Found(e) ==
  /\ \A k \in e.skills : StoredSkill(k)
  /\ e.prompt # NoPrompt =>
       /\ StoredPrompt(e.prompt)
       /\ e.number # Latest => HasNumber(prompts[e.prompt], e.number)

References ==
  UNION {{Checked(e) : e \in templates[t].steps} :
           t \in {x \in Templates : StoredTemplate(x) /\ templates[x].owner # Legacy}}

\* No template that was stored by a request follows a skill, a prompt or a
\* version that does not exist: what its steps follow is checked when they are
\* stored, and whoever deletes a component is held up by every template, those
\* he cannot read included.  Nothing is promised of a prompt that a step names
\* and does not follow (server.py:1873-1945, 2561-2606).
TemplateRefsResolve == \A e \in References : Found(e)

\* What a reply cites exists, and the version it pins still has the text the
\* reply ran on, whoever edits or shares the prompt meanwhile and however often
\* a number is used again.  The exception is a reply that was in no transcript
\* when what it cites was deleted: transcripts are where the routes look, and a
\* reply that is waited for, or was saved over while a later call holds a copy
\* of it, is added to one afterwards (server.py:1915-1940, prompts.py:298-310).
PinnedTextStands ==
  \A c \in Turns :
    LET e == calls[c].cites IN
      ~calls[c].cut =>
        /\ Found(e)
        /\ e.prompt # NoPrompt /\ e.number # Latest =>
             Resolves(prompts[e.prompt], e.number, calls[c].text)

\* What a prompt runs on without a pinned version is its newest version,
\* whichever versions were deleted and whatever their numbers
\* (prompts.py:420-448, 494-513).
ActiveIsNewest ==
  \A p \in Prompts : StoredPrompt(p) =>
    \E v \in prompts[p].versions :
      /\ Newest(prompts[p].versions, v)
      /\ v.number = prompts[p].active /\ v.text = prompts[p].text

\* A turn that was answered is in its session, unless another call of the same
\* session was under way when it was saved and saved its older copy over it
\* (chat/service.py:424-492, 521-613).
LostOnlyToOverlap ==
  \A c \in Calls : calls[c].stage = "answered" =>
    \/ c \in sessions[calls[c].session].turns
    \/ \E d \in Calls : calls[d].stage = "answered" /\ c \in calls[d].missed

\* Nobody can read a session but those whom its owner last chose, and they all
\* can, but for names that are too long and lists that are, unless a call that
\* was under way when he chose has saved the sharing it had read before
\* (chat/service.py:189-219, 492).
SharingStands ==
  \A s \in Sessions : StoredSession(s) =>
    \/ \A u \in Principals :
         LET Reads(sharing) == MayRead(u, sessions[s].owner, sharing) IN
           /\ Reads(sessions[s].sharing) => Reads(asked[s])
           /\ Reads(asked[s]) /\ u \notin LongNames /\ Fits(asked[s].with) =>
                Reads(sessions[s].sharing)
    \/ \E d \in Calls :
         calls[d].stage = "answered" /\ calls[d].session = s /\ "sharing" \in calls[d].missed

\* A start keeps every text that anyone wrote: what it finds under a shipped id
\* is adopted only if it is the shipped prompt, otherwise it stays or is moved
\* out of the way (prompts.py:79-195).
StartKeepsTexts ==
  [][~up /\ up' =>
       \A p \in Prompts : StoredPrompt(p) =>
         \E q \in Prompts :
           prompts'[q] # NoRow /\ prompts'[q].versions = prompts[p].versions]_vars
=============================================================================
