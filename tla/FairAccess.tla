------------------------------- MODULE FairAccess ------------------------------
(***************************************************************************)
(* What the coordinator promises of the single Bluetooth connection: one   *)
(* task at a time talks to the lock, tasks are served in the order they    *)
(* came, a task may give up while it waits, and what the user is shown     *)
(* changes only in a conversation.                                         *)
(***************************************************************************)
EXTENDS Integers, SequencesExt

CONSTANTS Tasks, Values

VARIABLES talking, line, shown

fvars == <<talking, line, shown>>

Init ==
    /\ talking = {}
    /\ line = <<>>
    /\ shown \notin Values

Join(t) ==
    /\ t \notin talking /\ t \notin Range(line)
    /\ line' = Append(line, t)
    /\ UNCHANGED <<talking, shown>>

GiveUp(t) ==
    /\ \E i \in DOMAIN line : line[i] = t /\ line' = RemoveAt(line, i)
    /\ UNCHANGED <<talking, shown>>

\* The first in line is served; a newcomer is only when nobody is in line.
Start(t) ==
    /\ talking = {}
    /\ \/ line = <<>> /\ UNCHANGED line
       \/ line # <<>> /\ t = Head(line) /\ line' = Tail(line)
    /\ talking' = {t}
    /\ UNCHANGED shown

\* The first in line turns away without having talked.
Refused(t) ==
    /\ talking = {}
    /\ line # <<>> /\ t = Head(line)
    /\ line' = Tail(line)
    /\ UNCHANGED <<talking, shown>>

Hear(t) ==
    /\ t \in talking
    /\ shown' \in Values
    /\ UNCHANGED <<talking, line>>

Finish(t) ==
    /\ t \in talking
    /\ talking' = talking \ {t}
    /\ shown' \in {shown} \union Values
    /\ UNCHANGED line

Next == \E t \in Tasks : Join(t) \/ GiveUp(t) \/ Start(t) \/ Refused(t) \/ Hear(t) \/ Finish(t)

Spec == Init /\ [][Next]_fvars

Ahead(s, t) == \E i, j \in DOMAIN line : i < j /\ line[i] = s /\ line[j] = t

\* Nobody overtakes a task s that is in line: a task t that is not ahead of it, be it
\* behind or only about to come, neither gets ahead of it nor talks before it.
NobodyOvertakes ==
    [][\A s, t \in Tasks :
          s \in Range(line) /\ s # t /\ ~Ahead(t, s) /\ t \notin talking
          => t \notin talking' /\ ~Ahead(t, s)']_fvars

================================================================================
