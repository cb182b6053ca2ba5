----------------------------- MODULE DemoGuard -----------------------------
(***************************************************************************)
(* core/demo_guard.py: what one instance of the public demo lets visitors  *)
(* do in a window of time, with the middleware of web/server.py that       *)
(* reserves before a mutating request and refunds after it.                *)
(*                                                                         *)
(* Nothing is stored: a restart forgets it all and is left out.  No two    *)
(* reservations have the same time stamp, the clock is finer than that.    *)
(***************************************************************************)
EXTENDS Naturals, FiniteSets, Sequences

CONSTANTS
  Workspaces,     \* the visitors' workspaces
  Agents,         \* what a visitor can quarantine for himself
  MaxWorkspaces,  \* max_workspaces
  Window,         \* window_seconds
  GlobalLimit,    \* GlobalLimit[kind]: what the service allows in a window
  ShareLimit,     \* ShareLimit[kind]: what one workspace may use of it
  MaxGap,         \* bound on the time between two requests
  MaxTime         \* bound on the clock

Kinds == {"write", "external"}

ASSUME GuardAssumption ==
  /\ MaxWorkspaces \in Nat \ {0} /\ Window \in Nat /\ MaxGap \in Nat /\ MaxTime \in Nat
  /\ GlobalLimit \in [Kinds -> Nat] /\ ShareLimit \in [Kinds -> Nat]

Leases == [workspace : Workspaces, kind : Kinds, at : Nat]

VARIABLES
  now,         \* the time of the latest request
  global,      \* global[kind]: the service's rows
  shares,      \* shares[w][kind]: the rows of a workspace, none if it is unknown
  seen,        \* seen[w]: when the workspace was last seen, 0 if it is unknown
  open,        \* the leases of requests under way
  charges,     \* every lease given and not refunded
  forgotten,   \* the charges whose workspace was forgotten since
  quarantines  \* the visitors' quarantines, the oldest first

vars == <<now, global, shares, seen, open, charges, forgotten, quarantines>>

NoRows == [k \in Kinds |-> {}]

TypeOK ==
  /\ now \in Nat
  /\ global \in [Kinds -> SUBSET Nat]
  /\ shares \in [Workspaces -> [Kinds -> SUBSET Nat]]
  /\ seen \in [Workspaces -> Nat]
  /\ charges \subseteq Leases
  /\ open \subseteq charges /\ forgotten \subseteq charges
  /\ quarantines \in Seq(Workspaces \X Agents)

-----------------------------------------------------------------------------
(* The rolling window.                                                      *)

\* Mistake: the window is one short.
RecentShort(rows, t) == {at \in rows : at + Window > t + 1}

\* _prune: a row is dropped when the window has passed.
Recent(rows, t) == {at \in rows : at + Window > t}

Known(w) == seen[w] > 0

\* _workspace_rows: whoever was not seen for longest makes room for a new one.
Dropped(w) ==
  IF Known(w) \/ Cardinality({v \in Workspaces : Known(v)}) < MaxWorkspaces THEN {}
  ELSE {v \in Workspaces : Known(v) /\ \A u \in Workspaces : Known(u) => seen[v] <= seen[u]}

Spent(w, kind) ==
  {c \in charges : c.workspace = w /\ c.kind = kind /\ c \notin forgotten}

\* What any request does to the rows before it is admitted or refused.
Look(w, kind, t, taken) ==
  /\ now < t /\ t <= now + MaxGap /\ t <= MaxTime
  /\ now' = t
  /\ global' = [global EXCEPT ![kind] = Recent(@, t) \cup taken]
  /\ shares' = [v \in Workspaces |->
       IF v \in Dropped(w) THEN NoRows
       ELSE IF v = w THEN [shares[w] EXCEPT ![kind] = Recent(@, t) \cup taken]
       ELSE shares[v]]
  /\ seen' = [v \in Workspaces |-> IF v = w THEN t ELSE IF v \in Dropped(w) THEN 0 ELSE seen[v]]
  /\ forgotten' = forgotten \cup {c \in charges : c.workspace \in Dropped(w)}

\* Mistake: a workspace may go one over its share.
WithinLimitsPlusOne(w, kind, t) ==
  /\ Cardinality(Recent(global[kind], t)) < GlobalLimit[kind]
  /\ Cardinality(Recent(shares[w][kind], t)) <= ShareLimit[kind]

WithinLimits(w, kind, t) ==
  /\ Cardinality(Recent(global[kind], t)) < GlobalLimit[kind]
  /\ Cardinality(Recent(shares[w][kind], t)) < ShareLimit[kind]

Admit(w, kind, t) ==
  LET lease == [workspace |-> w, kind |-> kind, at |-> t] IN
    /\ WithinLimits(w, kind, t)
    /\ Look(w, kind, t, {t})
    /\ open' = open \cup {lease}
    /\ charges' = charges \cup {lease}
    /\ UNCHANGED quarantines

\* A request that is refused has been seen nevertheless.
Refuse(w, kind, t) ==
  /\ ~WithinLimits(w, kind, t)
  /\ Look(w, kind, t, {})
  /\ UNCHANGED <<open, charges, quarantines>>

\* The request succeeds, raises, or was external: its reservation stays.
Keep(lease) ==
  /\ lease \in open
  /\ open' = open \ {lease}
  /\ UNCHANGED <<now, global, shares, seen, charges, forgotten, quarantines>>

\* Mistake: a workspace that was forgotten takes its refund with it.
ReleaseIfKnown(lease) ==
  /\ lease \in open /\ lease.kind = "write"
  /\ open' = open \ {lease}
  /\ charges' = charges \ {lease}
  /\ forgotten' = forgotten \ {lease}
  /\ global' = [global EXCEPT ![lease.kind] = IF Known(lease.workspace) THEN @ \ {lease.at} ELSE @]
  /\ shares' = [shares EXCEPT ![lease.workspace][lease.kind] = @ \ {lease.at}]
  /\ UNCHANGED <<now, seen, quarantines>>

\* The application refused the write: nothing ran, and the rows give it back.
Release(lease) ==
  /\ lease \in open /\ lease.kind = "write"
  /\ open' = open \ {lease}
  /\ charges' = charges \ {lease}
  /\ forgotten' = forgotten \ {lease}
  /\ global' = [global EXCEPT ![lease.kind] = @ \ {lease.at}]
  /\ shares' = [shares EXCEPT ![lease.workspace][lease.kind] = @ \ {lease.at}]
  /\ UNCHANGED <<now, seen, quarantines>>

-----------------------------------------------------------------------------
(* A visitor's own quarantines.                                             *)

\* A visitor quarantines an agent once, the entry is made anew.
Without(q) ==
  IF \E i \in DOMAIN quarantines : quarantines[i] = q
  THEN LET i == CHOOSE i \in DOMAIN quarantines : quarantines[i] = q
       IN  SubSeq(quarantines, 1, i - 1) \o SubSeq(quarantines, i + 1, Len(quarantines))
  ELSE quarantines

Quarantine(q) ==
  /\ LET all == Append(Without(q), q) IN
       quarantines' = IF Len(all) > MaxWorkspaces THEN Tail(all) ELSE all
  /\ UNCHANGED <<now, global, shares, seen, open, charges, forgotten>>

ReleaseQuarantine(q) ==
  /\ quarantines' = Without(q)
  /\ UNCHANGED <<now, global, shares, seen, open, charges, forgotten>>

-----------------------------------------------------------------------------

Init ==
  /\ now = 0
  /\ global = NoRows /\ shares = [w \in Workspaces |-> NoRows]
  /\ seen = [w \in Workspaces |-> 0]
  /\ open = {} /\ charges = {} /\ forgotten = {}
  /\ quarantines = <<>>

Next ==
  \/ \E w \in Workspaces, kind \in Kinds, t \in now + 1 .. now + MaxGap :
       Admit(w, kind, t) \/ Refuse(w, kind, t)
  \/ \E lease \in open : Keep(lease) \/ Release(lease)
  \/ \E q \in Workspaces \X Agents : Quarantine(q) \/ ReleaseQuarantine(q)

Spec == Init /\ [][Next]_vars

-----------------------------------------------------------------------------
(* What holds.                                                              *)

Of(kind) == {c \in charges : c.kind = kind}

InWindow(cs) == {c \in cs : c.at + Window > now}

\* In no window does the service run more than it allows, however many
\* workspaces its visitors make up and have forgotten again
\* (demo_guard.py:31-34, 82-105).
ServiceCeiling == \A k \in Kinds : Cardinality(InWindow(Of(k))) <= GlobalLimit[k]

\* In no window does a workspace use more than its share, unless it was
\* forgotten in between (demo_guard.py:69-76, 99-102).
ShareUnlessForgotten ==
  \A w \in Workspaces, k \in Kinds : Cardinality(InWindow(Spent(w, k))) <= ShareLimit[k]

\* Nobody is refused for what was refunded: every row stands for a request
\* that was let through and ran, or is under way (demo_guard.py:107-121,
\* server.py:277-281).
RowsAreCharges ==
  /\ \A k \in Kinds : global[k] \subseteq {c.at : c \in Of(k)}
  /\ \A w \in Workspaces, k \in Kinds : shares[w][k] \subseteq {c.at : c \in Spent(w, k)}
=============================================================================
