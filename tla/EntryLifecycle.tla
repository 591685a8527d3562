----------------------------- MODULE EntryLifecycle ----------------------------
(***************************************************************************)
(* The config entry of one lock as Home Assistant sets it up, unloads and  *)
(* reloads it.  Every setup makes a coordinator of its own, with its own   *)
(* operation lock; a coordinator that was unloaded lives on until the last *)
(* of its tasks has ended.  What a task does inside a session is           *)
(* Coordinator's subject: here a session begins, ends, disconnects, and is *)
(* perhaps tried again, one at a time per coordinator.                     *)
(*                                                                         *)
(* Who changes the entry, and so asks for reloads, is ConfigFlow.          *)
(***************************************************************************)
EXTENDS Integers

CONSTANTS
    Slots,         \* bound on the coordinators alive at one time
    NoSlot,
    Callers,       \* bound: the coordinators on which service calls are made
    ReadAttempts,  \* BLE_READ_ATTEMPTS
    UnloadMayFail  \* may unloading the platforms fail?

ASSUME LifecycleConstants ==
    /\ NoSlot \notin Slots
    /\ Callers \subseteq Slots
    /\ ReadAttempts \in Nat \ {0}
    /\ UnloadMayFail \in BOOLEAN

Background == {"sync", "battery", "listen"}   \* tasks the entry owns
Tasks      == Background \union {"call"}      \* and a service call
Sessions   == {"cloud", "local"}              \* is the cloud contacted in it?
Holding    == Sessions \union {"closing", "gap"}   \* holds the operation lock
Phases     == Holding \union {"off", "ready"}
Outcomes   == {"none", "rejected", "cancelled"}

OptionNames == {"realtime", "poll", "offline"}

Statuses == {"absent", "not_loaded", "setup", "loaded", "unloading", "error", "stuck"}
Accounts == {"none", "partial", "old", "new"}
Modes    == {"cloud", "cloud_cutter", "local"}

VARIABLES
    entry,      \* the stored data: account, LTMK, setup mode; and the options
    status,     \* of the entry; stuck is FAILED_UNLOAD
    reloads,    \* reloads asked for and not yet begun
    listening,  \* is _async_reload_on_options registered?
    current,    \* the coordinator in the entry's runtime data
    account,    \* the account its client was made with
    coord,      \* each coordinator: its client's LTMK, its stop events
    task,       \* each coordinator's tasks
    reauth      \* is a reauthentication flow in progress?

lifecycle == <<entry, status, reloads, listening, current, account, coord, task, reauth>>

\* tries: attempts of the read under way that are behind it.
Off == [phase |-> "off", tries |-> 0, outcome |-> "none"]

Blank == [ltmk |-> FALSE, fetching |-> FALSE, stop |-> TRUE]

LifecycleInit ==
    /\ reloads = 0
    /\ listening = FALSE
    /\ current = NoSlot
    /\ account = "none"
    /\ coord = [s \in Slots |-> Blank]
    /\ task = [s \in Slots |-> [t \in Tasks |-> Off]]
    /\ reauth = FALSE

Silent(s) == ~coord[s].fetching /\ \A t \in Tasks : task[s][t].phase = "off"

--------------------------------------------------------------------------------
(* async_setup_entry.                                                        *)

CanSetUp ==
    \/ entry.account \in {"old", "new"}
    \/ entry.account = "none" /\ entry.ltmk

\* Up to the await of the platforms: a new client and coordinator.
SetUp(s) ==
    /\ status = "not_loaded"
    /\ CanSetUp
    /\ Silent(s)
    /\ status' = "setup"
    /\ current' = s
    /\ account' = entry.account
    /\ coord' = [coord EXCEPT ![s] = [Blank EXCEPT !.ltmk = entry.ltmk, !.stop = FALSE]]
    /\ UNCHANGED <<entry, reloads, listening, task, reauth>>

\* ConfigEntryAuthFailed
SetUpRefused ==
    /\ status = "not_loaded"
    /\ ~CanSetUp
    /\ status' = "error"
    /\ reauth' = TRUE
    /\ UNCHANGED <<entry, reloads, listening, current, account, coord, task>>

\* The background tasks the options ask for, as they are now.
Wanted ==
    {"sync"} \union {t \in {"listen"} : "realtime" \in entry.options}
             \union {t \in {"battery"} : "poll" \in entry.options}

\* async_enable_offline does nothing with a key, nor without an account.
Fetches(s) == "offline" \in entry.options /\ ~coord[s].ltmk /\ account # "none"

\* Mutant: the update listener is not registered.
SetUpDoneUnheard ==
    /\ status = "setup"
    /\ status' = "loaded"
    /\ task' = [task EXCEPT ![current] =
                   [t \in Tasks |-> IF t \in Wanted THEN [Off EXCEPT !.phase = "ready"]
                                                    ELSE task[current][t]]]
    /\ coord' = [coord EXCEPT ![current].fetching = Fetches(current)]
    /\ UNCHANGED <<entry, reloads, listening, current, account, reauth>>

\* The rest, in one go once the platforms are there.
SetUpDone ==
    /\ status = "setup"
    /\ status' = "loaded"
    /\ listening' = TRUE
    /\ task' = [task EXCEPT ![current] =
                   [t \in Tasks |-> IF t \in Wanted THEN [Off EXCEPT !.phase = "ready"]
                                                    ELSE task[current][t]]]
    /\ coord' = [coord EXCEPT ![current].fetching = Fetches(current)]
    /\ UNCHANGED <<entry, reloads, current, account, reauth>>

\* async_enable_offline: the key is kept in memory; a failure changes nothing.
Fetched(s) ==
    /\ coord[s].fetching
    /\ \E got \in BOOLEAN :
           coord' = [coord EXCEPT ![s] = [@ EXCEPT !.ltmk = got, !.fetching = FALSE]]
    /\ UNCHANGED <<entry, status, reloads, listening, current, account, task, reauth>>

--------------------------------------------------------------------------------
(* async_unload_entry, and async_reload of Home Assistant around it.         *)

\* Reloads wait for each other and for a setup under way.
StartReload ==
    /\ reloads > 0
    /\ \/ status = "loaded" /\ status' = "unloading"
       \/ status = "error"  /\ status' = "not_loaded"
       \/ status = "stuck"  /\ status' = "stuck"      \* OperationNotAllowed
    /\ reloads' = reloads - 1
    /\ UNCHANGED <<entry, listening, current, account, coord, task, reauth>>

\* Mutant: async_stop_battery is registered only along with the battery loop.
StoppedIfPolling(s) ==
    [coord[s] EXCEPT !.stop = "poll" \in entry.options, !.fetching = FALSE]

\* async_stop_realtime and async_stop_battery are registered whatever the options, since
\* the sync looks at the stop event too.
Stopped(s) == [coord[s] EXCEPT !.stop = TRUE, !.fetching = FALSE]

\* A cancelled session disconnects first; a task that is just disconnecting
\* swallows the cancellation.
Cancelled(k) ==
    CASE k.phase \in {"off", "ready", "gap"} -> Off
      [] k.phase \in Sessions -> [k EXCEPT !.phase = "closing", !.outcome = "cancelled"]
      [] k.phase = "closing"  -> k

\* The platforms are unloaded, then the unload callbacks run and the background tasks
\* are cancelled.  Home Assistant waits for them 10 seconds at most, then goes on.
Unloaded ==
    /\ status = "unloading"
    /\ status' = "not_loaded"
    /\ listening' = FALSE
    /\ current' = NoSlot
    /\ account' = "none"
    /\ task' = [task EXCEPT ![current] =
                   [t \in Tasks |-> IF t \in Background THEN Cancelled(task[current][t])
                                                        ELSE task[current][t]]]
    /\ coord' = [coord EXCEPT ![current] =
                    IF \A t \in Tasks : task'[current][t].phase = "off" THEN Blank
                    ELSE Stopped(current)]
    /\ UNCHANGED <<entry, reloads, reauth>>

\* No callback runs, nothing is cancelled.
UnloadFails ==
    /\ UnloadMayFail
    /\ status = "unloading"
    /\ status' = "stuck"
    /\ UNCHANGED <<entry, reloads, listening, current, account, coord, task, reauth>>

--------------------------------------------------------------------------------
(* A coordinator's tasks.                                                    *)

\* Mutant: the key is used only while the offline option is set.
ContactByOption(s, t) ==
    {IF coord[s].ltmk /\ "offline" \in entry.options THEN "local" ELSE "cloud"}
    \union {p \in {"cloud"} : t = "call"}

\* from_gatt: with an LTMK the session derives its keys from it, whatever the options.
\* A language change asks the cloud for the voice pack all the same.
Contact(s, t) ==
    {IF coord[s].ltmk THEN "local" ELSE "cloud"} \union {p \in {"cloud"} : t = "call"}

Becomes(s, t, k) == task' = [task EXCEPT ![s][t] = k]

\* Entities exist from the setup of the platforms to their unloading.
StartCall ==
    /\ status \in {"setup", "loaded", "unloading"} /\ current \in Callers
    /\ task[current]["call"].phase = "off"
    /\ Becomes(current, "call", [Off EXCEPT !.phase = "ready"])
    /\ UNCHANGED <<entry, status, reloads, listening, current, account, coord, reauth>>

\* The coordinator's operation lock is granted.
Begin(s, t) ==
    /\ task[s][t].phase = "ready"
    /\ \A u \in Tasks : task[s][u].phase \notin Holding
    /\ \E p \in Contact(s, t) : Becomes(s, t, [Off EXCEPT !.phase = p])
    /\ UNCHANGED <<entry, status, reloads, listening, current, account, coord, reauth>>

SessionEnds(s, t) ==
    /\ task[s][t].phase \in Sessions
    /\ Becomes(s, t, [task[s][t] EXCEPT !.phase = "closing"])
    /\ UNCHANGED <<entry, status, reloads, listening, current, account, coord, reauth>>

\* Rejected by the cloud; or the login to the lock failed, which counts as rejected
\* credentials too, whatever the keys were derived from.  For the listen it is a failure
\* like any other.
LoginRejected(s, t) ==
    /\ task[s][t].phase \in Sessions /\ t # "listen"
    /\ Becomes(s, t, [task[s][t] EXCEPT !.phase = "closing", !.outcome = "rejected"])
    /\ UNCHANGED <<entry, status, reloads, listening, current, account, coord, reauth>>

Again(k) == [k EXCEPT !.phase = "gap", !.tries = k.tries + 1]

\* Mutant: one attempt too many.
RetriedOnceMore(s, t) ==
    {Again(k) : k \in {j \in {task[s][t]} : t \in {"sync", "battery"} /\ j.tries < ReadAttempts}}

\* A read that brought nothing is tried again, if not too often; the listen is not,
\* nor is a call that operates the lock.
Retried(s, t) ==
    {Again(k) : k \in {j \in {task[s][t]} : t \in {"sync", "battery"}
                                           /\ j.tries < ReadAttempts - 1}}

\* A call returns.  A background task that was stopped ends, one that was not goes on;
\* the sync ends when all was read.
GoneOn(s, t) ==
    IF t = "call" \/ coord[s].stop THEN {Off}
    ELSE {[Off EXCEPT !.phase = "ready"]} \union {k \in {Off} : t = "sync"}

\* What a task may do after its session.
After(s, t) ==
    CASE task[s][t].outcome = "none"      -> GoneOn(s, t) \union Retried(s, t)
      [] task[s][t].outcome = "rejected"  -> GoneOn(s, t)
      [] task[s][t].outcome = "cancelled" -> {Off}

\* An unloaded coordinator is gone when its last task has ended.
Collected(s) ==
    s # current /\ \A t \in Tasks : task'[s][t].phase = "off"

\* The disconnect is over.
Closed(s, t) ==
    /\ task[s][t].phase = "closing"
    /\ \E k \in After(s, t) : Becomes(s, t, k)
    /\ coord' = IF Collected(s) THEN [coord EXCEPT ![s] = Blank] ELSE coord
    /\ reauth' = (reauth \/ task[s][t].outcome = "rejected")
    /\ UNCHANGED <<entry, status, reloads, listening, current, account>>

\* BLE_READ_GAP_SECONDS have passed; the operation lock was held all the while.
GapOver(s, t) ==
    /\ task[s][t].phase = "gap"
    /\ \E p \in Contact(s, t) : Becomes(s, t, [task[s][t] EXCEPT !.phase = p])
    /\ UNCHANGED <<entry, status, reloads, listening, current, account, coord, reauth>>

TaskStep(s, t) ==
    Begin(s, t) \/ SessionEnds(s, t) \/ LoginRejected(s, t) \/ Closed(s, t) \/ GapOver(s, t)

EntryStep ==
    \/ \E s \in Slots : SetUp(s)
    \/ SetUpRefused \/ SetUpDone \/ StartReload \/ Unloaded \/ UnloadFails

LifecycleStep ==
    \/ EntryStep
    \/ StartCall
    \/ \E s \in Slots : Fetched(s) \/ \E t \in Tasks : TaskStep(s, t)

--------------------------------------------------------------------------------
(* What others do to the entry.                                              *)

\* async_update_entry: a change of the entry calls the update listener, which asks
\* for a reload.  scheduled: reloads asked for besides.
Updated(new, scheduled) ==
    /\ entry' = new
    /\ reloads' = reloads + scheduled + (IF listening /\ new # entry THEN 1 ELSE 0)
    /\ UNCHANGED <<status, listening, current, account, coord, task>>

================================================================================
