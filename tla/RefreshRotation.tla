---------------------------- MODULE RefreshRotation ----------------------------
(***************************************************************************)
(* How the values shown in Home Assistant get read: async_refresh_all, run *)
(* once after setup and for every press of the Refresh button, and the     *)
(* opt-in battery loop that reads one value per cycle.                     *)
(*                                                                         *)
(* The single reads wait for the operation lock; Coordinator says how.     *)
(* Here a read starts and some time later has or has not brought a value.  *)
(***************************************************************************)
EXTENDS Integers, SequencesExt

CONSTANTS
    Refreshers,   \* tasks that run async_refresh_all
    Names,        \* the values that can be read
    RefreshOrder, \* order: the names, as async_refresh_all goes through them
    PollOrder,    \* tasks: the names the battery loop rotates through
    Gating,       \* the values have_all asks for
    Unreadable,   \* values the lock never gives: best effort, or panel asleep
    MaxMisses     \* bound on the reads of other values that bring nothing

ASSUME RotationConstants ==
    /\ RefreshOrder \in Seq(Names) /\ RefreshOrder # <<>>
    /\ IsInjective(RefreshOrder) /\ Range(RefreshOrder) = Names
    /\ PollOrder \in Seq(Names) /\ PollOrder # <<>>
    /\ Gating \subseteq Range(PollOrder)
    /\ Unreadable \subseteq Names
    /\ MaxMisses \in Nat

VARIABLES
    known,    \* the names whose value is not None
    refresh,  \* each refresh: its phase, its pass and the places left in it
    battery,  \* the battery loop: its phase, index and interval
    stop,     \* _battery_stop
    misses    \* reads of readable values that brought nothing so far

vars == <<known, refresh, battery, stop, misses>>

Places == DOMAIN RefreshOrder

Finished(task) == [task EXCEPT !.phase = "idle", !.pass = 1, !.left = {}]

\* tries and late are history: attempts per name, reads begun after the stop.
Fresh == [phase |-> "idle", pass |-> 1, left |-> {}, tries |-> [n \in Names |-> 0], late |-> 0]

Init ==
    /\ known = {}
    /\ refresh = [r \in Refreshers |-> Fresh]
    /\ battery \in {[phase |-> p, index |-> 0, interval |-> "fill"] : p \in {"delay", "off"}}
    /\ stop = FALSE
    /\ misses = 0

--------------------------------------------------------------------------------
\* One read: the value arrives, or None (no answer, unreachable, an error).
ReadBrings(name, got) ==
    \/ /\ got /\ name \notin Unreadable
       /\ known' = known \union {name}
       /\ UNCHANGED misses
    \/ /\ ~got
       /\ name \in Unreadable \/ misses < MaxMisses
       /\ misses' = IF name \in Unreadable THEN misses ELSE misses + 1
       /\ UNCHANGED known

--------------------------------------------------------------------------------
(* async_refresh_all.                                                        *)

BeginRead(task) ==
    [task EXCEPT !.phase = "read", !.late = IF stop THEN task.late + 1 ELSE 0]

\* Mutant: only what the battery loop cares about is tried again.
UnreadGating(names) == {i \in Places : RefreshOrder[i] \in Gating \ names}

\* _is_unread
Unread(names) == {i \in Places : RefreshOrder[i] \notin names}

\* Mutant: does not look at the stop event.
ProceedRegardless(task, names) ==
    IF task.left # {} THEN [task EXCEPT !.phase = "gap"]
    ELSE IF task.pass = 1 /\ Unread(names) # {}
         THEN [task EXCEPT !.phase = "gap", !.pass = 2, !.left = Unread(names)]
    ELSE Finished(task)

\* The head of the loop in _async_refresh_pass: the stop event is looked at before
\* the gap, not after it.  After the first pass the names still unread get another.
Proceed(task, names) ==
    IF stop THEN Finished(task)
    ELSE IF task.left # {} THEN [task EXCEPT !.phase = "gap"]
    ELSE IF task.pass = 1 /\ Unread(names) # {}
         THEN [task EXCEPT !.phase = "gap", !.pass = 2, !.left = Unread(names)]
    ELSE Finished(task)

StartRefresh(r) ==
    /\ refresh[r].phase = "idle"
    /\ refresh' = [refresh EXCEPT ![r] =
                      IF stop THEN Fresh
                      ELSE BeginRead([Fresh EXCEPT !.left = Places])]
    /\ UNCHANGED <<known, battery, stop, misses>>

\* REFRESH_GAP_SECONDS have passed.
GapOver(r) ==
    /\ refresh[r].phase = "gap"
    /\ refresh' = [refresh EXCEPT ![r] = BeginRead(refresh[r])]
    /\ UNCHANGED <<known, battery, stop, misses>>

\* The value at a place has been asked for.
Asked(task, place) ==
    [task EXCEPT !.left = task.left \ {place},
                 !.tries = [task.tries EXCEPT ![RefreshOrder[place]] = @ + 1]]

\* In order, the first place that is left.
RefreshRead(r) ==
    \E place \in refresh[r].left :
        /\ refresh[r].phase = "read"
        /\ \A i \in refresh[r].left : place <= i
        /\ \E got \in BOOLEAN : ReadBrings(RefreshOrder[place], got)
        /\ refresh' = [refresh EXCEPT ![r] = Proceed(Asked(refresh[r], place), known')]
        /\ UNCHANGED <<battery, stop>>

--------------------------------------------------------------------------------
(* _async_battery_loop.                                                      *)

\* The initial delay or the interval is over and nobody has stopped the loop.
BatteryWakes ==
    /\ battery.phase \in {"delay", "wait"} /\ ~stop
    /\ battery' = [battery EXCEPT !.phase = "read"]
    /\ UNCHANGED <<known, refresh, stop, misses>>

\* Mutant: waits for the best-effort values too.
HaveEverything(names) == Range(PollOrder) \subseteq names

HaveAll(names) == Gating \subseteq names

\* Mutants: the rotation does not wrap; it does not move on.
IndexRunsOff(i) == i + 1
IndexStays(i) == i

NextIndex(i) == (i + 1) % Len(PollOrder)

BatteryRead ==
    /\ battery.phase = "read"
    /\ \E got \in BOOLEAN : ReadBrings(PollOrder[battery.index + 1], got)
    /\ battery' = [phase    |-> IF stop THEN "off" ELSE "wait",
                   index    |-> NextIndex(battery.index),
                   interval |-> IF HaveAll(known') THEN "poll" ELSE "fill"]
    /\ UNCHANGED <<refresh, stop>>

--------------------------------------------------------------------------------
(* The entry is unloaded.                                                    *)

\* async_stop_battery: cancels the loop.  A read that is just disconnecting
\* swallows the cancellation; the stop event then ends the loop.
StopBattery ==
    /\ ~stop
    /\ stop' = TRUE
    /\ battery' \in {[battery EXCEPT !.phase = p] :
                         p \in IF battery.phase = "read" THEN {"read", "off"} ELSE {"off"}}
    /\ UNCHANGED <<known, refresh, misses>>

\* The entry's background tasks are cancelled after its unload callbacks.
CancelRefresh(r) ==
    /\ stop
    /\ refresh[r].phase # "idle"
    /\ refresh' = [refresh EXCEPT ![r] = Finished(refresh[r])]
    /\ UNCHANGED <<known, battery, stop, misses>>

Next ==
    \/ \E r \in Refreshers :
          StartRefresh(r) \/ GapOver(r) \/ RefreshRead(r) \/ CancelRefresh(r)
    \/ BatteryWakes \/ BatteryRead \/ StopBattery

Spec == Init /\ [][Next]_vars

\* Timers expire and every read ends.
FairSpec ==
    /\ Spec
    /\ WF_vars(BatteryWakes \/ BatteryRead)
    /\ \A r \in Refreshers : WF_vars(GapOver(r) \/ RefreshRead(r))

--------------------------------------------------------------------------------
(* Properties.                                                               *)

\* Every variable has its type; in particular a refresh tries no value more than
\* twice.
TypeOK ==
    /\ known \subseteq Names
    /\ refresh \in [Refreshers -> [phase : {"idle", "gap", "read"}, pass : {1, 2},
                                   left : SUBSET Places, tries : [Names -> 0..2],
                                   late : Nat]]
    /\ battery \in [phase : {"off", "delay", "read", "wait"},
                    index : 0..(Len(PollOrder) - 1), interval : {"fill", "poll"}]
    /\ stop \in BOOLEAN
    /\ misses \in 0..MaxMisses

\* Once the entry is being unloaded, a refresh still under way begins at most one
\* more read, in whichever pass and gap it is; one pressed later begins none.
OneReadAfterStop == \A r \in Refreshers : refresh[r].late <= 1

\* A refresh that runs to its end gives up only on values it has tried twice, no
\* matter what another refresh or the battery loop reads meanwhile ("a single
\* retry pass over just the names still unread after the first lap").
GivesUpAfterTwo ==
    [][\A r \in Refreshers :
          refresh[r].phase = "read" /\ refresh'[r].phase = "idle" /\ ~stop
          => \A n \in Names \ known' : refresh'[r].tries[n] = 2]_vars

BatteryReads == battery.phase = "read" /\ battery'.phase # "read" /\ stop' = stop

\* Reads of the battery loop before it is the turn of a place in its rotation.
Distance(place) ==
    place - 1 - battery.index + IF place > battery.index THEN 0 ELSE Len(PollOrder)

\* Reads of the battery loop before the value there is known, if every read of
\* anything that may still fail does.
ReadsLeft(place) == (MaxMisses - misses) * Len(PollOrder) + Distance(place)

\* However refreshes and failures interleave with it, the rotation gets on: every
\* read of the battery loop brings each value that is still missing closer to being
\* read, and nothing that happens between two reads puts it further off.
RotationGetsOn ==
    [][\A place \in DOMAIN PollOrder :
          PollOrder[place] \notin known' \union Unreadable
          => /\ ReadsLeft(place)' <= ReadsLeft(place)
             /\ BatteryReads => ReadsLeft(place)' < ReadsLeft(place)]_vars

\* Unless it is stopped, the battery loop leaves its fast interval for good,
\* although some values can never be read ("the loop on the fast fill interval
\* forever (battery drain)").
FillEnds == <>[](battery.phase \in {"delay", "off"} \/ stop \/ battery.interval = "poll")

\* A value that the lock gives is read in the end, whichever task starts first.
EverythingIsRead ==
    (battery.phase # "off") => <>(stop \/ Range(PollOrder) \ Unreadable \subseteq known)

================================================================================
