------------------------------ MODULE DurableTask ------------------------------
(***************************************************************************)
(* What the AI service promises of its background tasks (index rebuilds    *)
(* and corpus builds): a task is admitted only when nothing else runs, and *)
(* its record is written by its own worker until that worker is gone; only *)
(* then a task that still says RUNNING is declared interrupted, once and   *)
(* for all.                                                                *)
(***************************************************************************)
CONSTANTS Task, None

VARIABLES
  record,  \* record[t]: what the task's status file says
  owner    \* the task whose worker is at work, or None

taskVars == <<record, owner>>

Worked == {"SUCCEEDED", "FAILED", "UNREADABLE"}

TaskInit ==
  /\ record = [t \in Task |-> "ABSENT"]
  /\ owner = None

Set(t, status) == record' = [record EXCEPT ![t] = status]

\* The record may be stored although its request fails: then nobody owns it.
Start(t) ==
  /\ owner = None
  /\ record[t] = "ABSENT"
  /\ \A u \in Task : record[u] # "RUNNING"
  /\ Set(t, "RUNNING")
  /\ owner' \in {t, None}

\* The owner writes how it ended; a write it takes for failed may have succeeded.
Settle(t) ==
  /\ owner = t
  /\ \E status \in Worked : Set(t, status)
  /\ owner' \in {t, None}

\* The worker is through, or died without a word.
Leave ==
  /\ owner # None
  /\ owner' = None
  /\ UNCHANGED record

Interrupt(t) ==
  /\ owner = None
  /\ record[t] = "RUNNING"
  /\ \E status \in {"INTERRUPTED", "UNREADABLE"} : Set(t, status)
  /\ UNCHANGED owner

TaskNext == Leave \/ \E t \in Task : Start(t) \/ Settle(t) \/ Interrupt(t)

TaskSpec == TaskInit /\ [][TaskNext]_taskVars
=============================================================================
