--------------------------- MODULE MCScheduleMath ---------------------------
EXTENDS ScheduleMath

\* Hours of four minutes, days of 24: the clock of a zone goes forward or back
\* by an hour at the end of the second hour of its day.
Forward == [before |-> 0, after |-> 4]
Back == [before |-> 4, after |-> 0]
MCZones == {Forward, Back}

MCSpecs ==
  {[kind |-> "daily", at |-> {time}] : time \in 0 .. Day - 1}
    \cup {[kind |-> "cron", at |-> {w \in 0 .. Day - 1 : w % 2 = 0}]}
=============================================================================
