----------------------------- MODULE RunConsole -----------------------------
(***************************************************************************)
(* The run-log bus (core/run_log.py) and the WebSocket console that reads  *)
(* along (/ws/run/{run_id}, web/server.py), for one run.                   *)
(*                                                                         *)
(* Lines are their sequence numbers.  The bus keeps the last Retained      *)
(* lines and saves them with every change, so reloading a run it has       *)
(* evicted from memory gives back the same log; the model has no eviction. *)
(* A console is suspended in every send and in every wait for its queue.   *)
(***************************************************************************)
EXTENDS Naturals, Sequences

CONSTANTS
  Viewers,     \* console connections, each used once
  Closed,      \* the RUN_CLOSED sentinel
  Retained,    \* MAX_RETAINED_LINES
  MaxBurst,    \* bound: lines a run emits between two suspensions
  MaxLines     \* bound: lines of the run

ASSUME LinesAssumption ==
  /\ Retained \in Nat \ {0} /\ MaxLines \in Nat /\ MaxBurst \in 1..MaxLines
  /\ Closed \notin Nat

VARIABLES
  kind,        \* what the task is: a template run, an invoice, a manual task
  record,      \* the task record: absent, open, awaiting_approval, ended,
               \* cancelled, deleted
  writer,      \* whether the run's coroutine is still there
  seq,         \* sequence number of the last line
  closed,      \* the bus entry's flag
  at,          \* per console: out, accepted, replaying, live, done, gone
  inbox,       \* per console: lines and sentinel put on its queue
  replay,      \* per console: lines of its snapshot still to send
  lastSeq,     \* per console: last sequence number of its snapshot
  sawClosed,   \* per console: whether the snapshot was closed already
  seen         \* per console: the lines sent to it

consoles == <<at, inbox, replay, lastSeq, sawClosed, seen>>
consoleVars == <<kind, record, writer, seq, closed, consoles>>

Entries == 1..MaxLines \cup {Closed}

\* Mistake: the queue is attached once the replay is through.
SubscribedOnceLive(v) == at[v] = "live"

Subscribed(v) == at[v] \in {"replaying", "live"}

ConsoleTypeOK ==
  /\ kind \in {"template", "invoice", "manual"}
  /\ record \in {"absent", "open", "awaiting_approval", "ended", "cancelled", "deleted"}
  /\ writer \in BOOLEAN
  /\ seq \in 0..MaxLines
  /\ closed \in BOOLEAN
  /\ at \in [Viewers -> {"out", "accepted", "replaying", "live", "done", "gone"}]
  /\ inbox \in [Viewers -> Seq(Entries)]
  /\ replay \in [Viewers -> Seq(1..MaxLines)]
  /\ lastSeq \in [Viewers -> 0..MaxLines]
  /\ sawClosed \in [Viewers -> BOOLEAN]
  /\ seen \in [Viewers -> Seq(1..MaxLines)]
  /\ \A v \in Viewers : at[v] # "replaying" => replay[v] = <<>>

ConsoleInit ==
  /\ kind \in {"template", "invoice", "manual"}
  /\ record = "absent"
  /\ writer = FALSE
  /\ seq = 0
  /\ closed = FALSE
  /\ at = [v \in Viewers |-> "out"]
  /\ inbox = [v \in Viewers |-> <<>>]
  /\ replay = [v \in Viewers |-> <<>>]
  /\ lastSeq = [v \in Viewers |-> 0]
  /\ sawClosed = [v \in Viewers |-> FALSE]
  /\ seen = [v \in Viewers |-> <<>>]

-----------------------------------------------------------------------------
(* The bus.                                                                 *)

From(a, b) == [i \in 1..(IF b < a THEN 0 ELSE b - a + 1) |-> a + i - 1]

\* Mistake: a queue that still holds something is not handed more.
FanOutIfRoom(entries) ==
  inbox' = [v \in Viewers |-> IF Subscribed(v) /\ inbox[v] = <<>> THEN entries ELSE inbox[v]]

\* Every subscriber of the moment is handed each entry.
FanOut(entries) ==
  inbox' = [v \in Viewers |-> IF Subscribed(v) THEN inbox[v] \o entries ELSE inbox[v]]

Emit(k) == seq' = seq + k

\* The ring: a run that emitted more than it retains replays its tail.
RingStart(last) == IF last > Retained THEN last - Retained + 1 ELSE 1
Snapshot == From(RingStart(seq), seq)

-----------------------------------------------------------------------------
(* The run, seen from its log: between two suspensions it emits a burst of  *)
(* lines; the last burst ends with the sentinel and the task's own outcome. *)

StartRun(k) ==
  /\ record = "absent"
  /\ IF kind = "template" THEN Emit(k) ELSE UNCHANGED seq
  /\ record' = "open" /\ writer' = (kind # "manual")
  /\ UNCHANGED <<kind, closed, consoles>>

Progress(k) ==
  /\ writer /\ kind = "template"
  /\ seq + k <= MaxLines
  /\ Emit(k) /\ FanOut(From(seq + 1, seq + k))
  /\ UNCHANGED <<kind, record, writer, closed, at, replay, lastSeq, sawClosed, seen>>

Finish(k) ==
  /\ writer /\ kind = "template"
  /\ seq + k <= MaxLines
  /\ Emit(k) /\ FanOut(From(seq + 1, seq + k) \o <<Closed>>)
  /\ closed' = TRUE
  /\ record' \in {"ended", "awaiting_approval"} /\ writer' = FALSE
  /\ UNCHANGED <<kind, at, replay, lastSeq, sawClosed, seen>>

\* An invoice workflow ends without a word on the bus.
FinishUnlogged ==
  /\ writer /\ kind = "invoice"
  /\ record' \in {"ended", "awaiting_approval"} /\ writer' = FALSE
  /\ UNCHANGED <<kind, seq, closed, consoles>>

\* A task that waits is called off, be it a run or one an operator queued.
Cancel ==
  /\ record = "awaiting_approval" \/ (kind = "manual" /\ record = "open")
  /\ record' = "cancelled"
  /\ UNCHANGED <<kind, writer, seq, closed, consoles>>

Delete ==
  /\ record \in {"ended", "cancelled"}
  /\ record' = "deleted"
  /\ UNCHANGED <<kind, writer, seq, closed, consoles>>

-----------------------------------------------------------------------------
(* A console.                                                               *)

Accept(v) ==
  /\ at[v] = "out"
  /\ record \notin {"absent", "deleted"}
  /\ at' = [at EXCEPT ![v] = "accepted"]
  /\ UNCHANGED <<kind, record, writer, seq, closed, inbox, replay, lastSeq, sawClosed, seen>>

ConsoleTerminal == {"ended", "awaiting_approval"}

\* Mistake: a replay is all a console gets.
DecidedAtOnce(snapshotClosed) == IF record # "absent" THEN "done" ELSE "live"

\* Mistake: only the task record counts.
DecidedByTask(snapshotClosed) == IF record \in ConsoleTerminal THEN "done" ELSE "live"

\* The task is read again once the replay is sent; the flag is the
\* snapshot's.  The socket is closed, or the queue read from now on.
Decided(snapshotClosed) ==
  IF snapshotClosed \/ record \in ConsoleTerminal THEN "done" ELSE "live"

\* subscribe and snapshot, with no await in between.
Subscribe(v) ==
  /\ at[v] = "accepted"
  /\ replay' = [replay EXCEPT ![v] = Snapshot]
  /\ lastSeq' = [lastSeq EXCEPT ![v] = seq]
  /\ sawClosed' = [sawClosed EXCEPT ![v] = closed]
  /\ at' = [at EXCEPT ![v] = IF Snapshot = <<>> THEN Decided(closed) ELSE "replaying"]
  /\ UNCHANGED <<kind, record, writer, seq, closed, inbox, seen>>

\* The line is out; the next one is sent, or the replay is through.
Send(v) ==
  /\ at[v] = "replaying"
  /\ seen' = [seen EXCEPT ![v] = Append(@, Head(replay[v]))]
  /\ replay' = [replay EXCEPT ![v] = Tail(@)]
  /\ at' = [at EXCEPT ![v] = IF Len(replay[v]) > 1 THEN @ ELSE Decided(sawClosed[v])]
  /\ UNCHANGED <<kind, record, writer, seq, closed, inbox, lastSeq, sawClosed>>

Receive(v) ==
  /\ at[v] = "live" /\ inbox[v] # <<>>
  /\ inbox' = [inbox EXCEPT ![v] = Tail(@)]
  /\ IF Head(inbox[v]) = Closed
     THEN at' = [at EXCEPT ![v] = "done"] /\ UNCHANGED seen
     ELSE /\ seen' = [seen EXCEPT ![v] =
                        IF Head(inbox[v]) > lastSeq[v] THEN Append(@, Head(inbox[v])) ELSE @]
          /\ UNCHANGED at
  /\ UNCHANGED <<kind, record, writer, seq, closed, replay, lastSeq, sawClosed>>

Disconnect(v) ==
  /\ at[v] \in {"accepted", "replaying", "live"}
  /\ at' = [at EXCEPT ![v] = "gone"]
  /\ replay' = [replay EXCEPT ![v] = <<>>]
  /\ UNCHANGED <<kind, record, writer, seq, closed, inbox, lastSeq, sawClosed, seen>>

\* A restart drops connections and the run; record and log are durable.
Restart ==
  /\ writer
  /\ writer' = FALSE
  /\ at' = [v \in Viewers |-> IF at[v] = "out" THEN "out" ELSE "gone"]
  /\ replay' = [v \in Viewers |-> <<>>]
  /\ UNCHANGED <<kind, record, seq, closed, inbox, lastSeq, sawClosed, seen>>

-----------------------------------------------------------------------------
Run ==
  \/ \E k \in 1..MaxBurst : StartRun(k) \/ Progress(k) \/ Finish(k)
  \/ FinishUnlogged \/ Cancel \/ Delete \/ Restart

Console(v) == Subscribe(v) \/ Send(v) \/ Receive(v)

ConsoleNext == Run \/ \E v \in Viewers : Accept(v) \/ Console(v) \/ Disconnect(v)

ConsoleSpec == ConsoleInit /\ [][ConsoleNext]_consoleVars

\* Sends go out and a filled queue is read; the run owes nothing.
FairConsoleSpec == ConsoleSpec /\ \A v \in Viewers : WF_consoleVars(Console(v))

-----------------------------------------------------------------------------
\* What a console shows is a gapless piece of the log, each line once, in
\* order, and it starts where the ring started when the console joined.
SeenIsGapless ==
  \A v \in Viewers :
    \A i \in 1..Len(seen[v]) - 1 : seen[v][i + 1] = seen[v][i] + 1

\* Seen, still to be replayed and still on the queue: together they are every
\* line from the snapshot's first to the log's last, and then at most the
\* sentinel.
NothingMissedWhileOpen ==
  \A v \in Viewers :
    Subscribed(v) =>
      \E end \in {<<>>, <<Closed>>} :
        seen[v] \o replay[v] \o inbox[v] = From(RingStart(lastSeq[v]), seq) \o end

\* A console that the server closes has shown its whole snapshot, and the log to
\* its end unless the run ended under the replay: then exactly the lines that
\* wait on its queue are cut off (web/server.py:3030-3031, 3048-3050).
LetGoWithWholeLog ==
  \A v \in Viewers :
    at[v] = "done" =>
      \E n \in lastSeq[v]..seq :
        /\ seen[v] = From(RingStart(lastSeq[v]), n)
        /\ inbox[v] \in {<<>>, From(n + 1, seq) \o <<Closed>>}
        /\ sawClosed[v] \/ inbox[v] = <<>> => n = seq

\* Every console of a run that closed its log is let go.
ConsolesAreLetGo ==
  \A v \in Viewers :
    (closed /\ at[v] \in {"accepted", "replaying", "live"}) ~> (at[v] \in {"done", "gone"})
=============================================================================
