# Verification of the Aqara U200 integration

TLA+ models of `src/custom_components/aqara_u200`, a Home Assistant integration
that controls an Aqara U200 door lock over Bluetooth, with the TLC
configurations that check them and TLAPS proofs about them.

## The system

| Part | Source | State it keeps | Operations |
|---|---|---|---|
| Coordinator | `coordinator.py` | `_operation_lock` and its queue, `_is_locked`, the operation flag, last operation and error, the listen task, the stop events, cached settings and credentials, the snapshot last pushed | lock, unlock, settings writes, background reads, keypad operations, real-time loop, battery loop, refresh |
| BLE client | `client.py` | the session-key source (cloud, LTMK); one connection per call | one session per call: connect, talk, disconnect; read retries; error mapping |
| Bluetooth routing | `bluetooth.py` | reachability, last seen | discovered, unavailable |
| Entities | `lock.py`, `switch.py`, `number.py`, `select.py`, `button.py`, `sensor.py`, `binary_sensor.py` | none: they show the snapshot | each forwards one call to the coordinator |
| Entry lifecycle | `__init__.py` | the entry's runtime data, unload callbacks, background tasks | set up, unload, reload |
| Configuration | `config_flow.py` | the flow's address and name; creates entry data and options | discovery, three setup modes, reauthentication, options |
| Diagnostics, card, blueprint, translations | `diagnostics.py`, `frontend*`, … | none | presentation |
| External | `aqara_ble`, `bleak`, Home Assistant, the lock | the bolt, the auxiliary mask, the credential table, the keypad's sleep | frames and replies |

How they interact: everything that talks to the lock goes through
`_operation_lock`. A caller first cancels the held real-time listen
(`_preempt_listen`), then waits for the lock, opens one or more BLE sessions and
stores what they brought. The listen pushes positions while it is held. Every
change is shown to the entities by pushing a new snapshot. All code runs on one
event loop: between two `await`s nothing interleaves, at each `await` anything
may, cancellation included.

What is hard here:

- **interleaving** at the lock: preemptions that find no listen task, or find it
  disconnecting; calls queued behind the loop; cancelled waiters and holders;
- **cancellation** swallowed by a best-effort disconnect;
- **read-modify-write** of a shared mask across an `await`;
- a **sleeping keypad** between the gate that checks it and the write behind it;
- **lost replies**, where "no answer" and "nothing there" are the same value;
- **two loops** reading the same values, with values that never come;
- a **reload** that makes a new coordinator, with a new operation lock, while tasks
  of the old one run on; options and credentials saved at any moment of a setup.

What makes each part correct is stated by the properties below; `PROJECT.json`
lists the hazards with their lines.

## Modules

| Module | Models | Checked by |
|---|---|---|
| `FairAccess` | abstract: exclusive conversations, served in arrival order, and what is shown changes only in one | refined by `Coordinator`, used by the next two modules; `FairAccessProofs` |
| `Coordinator` | lock queue, calls, real-time loop and listen task, snapshot, reachability | `MCCoordinator`, `CoordinatorProofs` |
| `AuxiliaryLocking` | the four-toggle mask, its two switches and two enable buttons | `MCAuxiliaryLocking`, `AuxiliaryLockingProofs` |
| `PresenceGate` | credential operations and language change behind the sleeping keypad, the shared prompt, the credentials sensor | `MCPresenceGate`, `PresenceGateProofs` |
| `RefreshRotation` | `async_refresh_all` and the battery loop | `MCRefreshRotation`, `RefreshRotationProofs` |
| `EntryLifecycle` | the config entry: setup, background tasks, unload, reload, and every coordinator that is still alive | through `ConfigFlow` |
| `ConfigFlow` | configuration flows, reauthentication and options, over `EntryLifecycle` | `MCConfigFlow`, `ConfigFlowProofs` |
| `QueueLemmas` | no code: what a queue keeps when a task joins, is served or gives up | TLAPS |

`AuxiliaryLocking` and `PresenceGate` instantiate `FairAccess` and use its
actions (`Access!Start`, `Access!Join`, …) for the operation lock: they rely on
what `Coordinator` is proved to implement, not on its detail, and are proved to do
nothing that it does not allow (`TakesTurns`). `ConfigFlow` extends
`EntryLifecycle` and composes with it: flows and options change the entry, and
`Updated` is the one place where such a change asks for a reload.

### Coordinator

`call[c]` is one task running a coordinator method: `waiting` for the lock, then
through `connect`, `talk`, `disconnect` of a session, and the `gap` between two
attempts of a read. Its `kind` is `lock`, `unlock`, `set` (every settings write:
one session, then optionally a re-read) or `read`. `loop` is the real-time loop
and the listen task it awaits, `cancelPending` a cancellation not yet delivered
to that task, `unwinding` one that is propagating. `bolt` is the real position,
`stray` a connection given up without being closed. Each action is everything a
task does from one suspension to the next; `Return` is the tail common to all
methods: store, clear the flag, push, release.

Simplifications: last-seen time and signal strength are left out; the settings
values are left to the other modules; a session is connect, exchange, disconnect,
whatever happens inside `aqara_ble`; the presence gate's own sessions are in
`PresenceGate`. The lock is reachable or not for Home Assistant, and any session
may fail either way.

### AuxiliaryLocking

`mask` is the lock's set of enabled toggles, `cached` what Home Assistant last
read. A switch call carries the mask it composed *when it was requested*; that is
where the code composes it. `unheard` is a history variable: there was a reason
other than the switches for the cache to differ (the app, an unanswered frame, an
enable button, which writes without reading back). `alone` and `informed` are others:
the call found the operation lock free, so it was made with no other call under way;
and the mask had been read by then. A switch flipped before that composes its mask
from nothing, and no promise about the other toggles can be kept.

### PresenceGate

A gated call goes `check` → (`ask` → `poll`…) → `act` → `reread`; the language change
goes straight to `act` with its prompt already up. `landed` records whether the lock
carried the request out, `mishap` what came between a write and the gate it had passed:
the keypad fell asleep, the session failed, or the lock refused. An awake lock may
refuse any request, and refuses what it has no room for or does not have. Enrolment and
language change raise unless the lock reports success; credential writes look neither at
the reply nor at whether there was one. `unheard` is a history variable: the table was
changed and the re-read behind the change brought nothing.

### RefreshRotation

Each read is one step that brings a value or nothing. A pass is the set of places
in the order that are still to be read, served from the least. `late` and `tries`
are history variables: reads begun since the stop, attempts per value in a refresh.

### EntryLifecycle

`status` follows Home Assistant's states of a config entry; `stuck` is its
FAILED_UNLOAD. A coordinator lives in a slot: `coord[s]` says whether its client has
the LTMK, whether it is fetching it (`async_enable_offline`), and whether its stop
events are set; `task[s]` are the initial sync, the battery loop, the real-time loop
and one service call. `SetUp` is `async_setup_entry` up to its await, `SetUpDone` the
rest, which needs no await: in between, anybody may change the entry. `Unloaded` runs
the unload callbacks and cancels the background tasks; a service call belongs to
nobody and is left alone. A slot is free again when the last task of an unloaded
coordinator has ended.

`Contact` says whether a session contacts the cloud (`cloud`) or not (`local`). With the
key no session needs the cloud for its own keys, but a language change asks it for the
voice pack. `LoginRejected` applies to both: a login that the *lock* does not accept
counts as rejected credentials too, and asks for a reauthentication whatever the keys
were derived from. Only the listen takes it for a failure like any other.

`Cancelled` says what an unload does to a task: in a session it still has to
disconnect; a task that is just disconnecting swallows the cancellation, and then it
is the stop events that end it. Home Assistant waits ten seconds for cancelled tasks
and goes on: `Unloaded` does not wait at all, which includes every shorter wait.

Simplifications: a call is one session; a session's inside is `Coordinator`'s subject,
and so are stray connections; the language select's own background task, which calls
the coordinator once, is a call; Bluetooth callbacks are subscribed exactly while the
entry has a coordinator. Removing the entry is not modelled.

### ConfigFlow

One lock, so one address: `uid` says that a flow has taken it as its unique id. Two
flows with it do not go on side by side, and none goes on when there is an entry.
Between two phases of a flow lies one cloud call. A flow opened by hand is nothing to
anybody before its form is submitted, so it begins there. Reauthentication is a
Boolean: Home Assistant keeps at most one per entry. A restart is an initial state:
an entry that a flow made before, or one from an earlier version without what a setup
needs.

## Runs

Passing runs:

| Run | Question | Distinct states |
|---|---|---|
| `coordinator_safety` | two calls of any kind and the listen, with cancellation and hung disconnects: lock accounting, one talker, exact operation flag, current snapshot, reports applied in order, no position stored that nobody vouches for, refinement of `FairAccess`; each call bounded in its sessions, a stopped loop that only winds down, a cancellation that is obeyed once | 694 k |
| `coordinator_live` | does every call that waits return (if listen windows close), does a preempted listen let go and does stopping end the loop (even if they do not)? | 211 k |
| `auxiliary_faults` | do the switches show the real mask, and does a switch that had the mask and the radio to itself keep the other toggles, with lost replies, two callers, the app and cancellation, and is each mask sent once only? | 310 k |
| `gate_faults` | with everything failing, a lock that refuses and nobody to wake the keypad: does every call end, are prompts always taken down, was what the lock reports as done carried out, and a credential write that passed the gate and met with no mishap, was it tried once only, does the credentials sensor follow the table? | 259 k |
| `rotation_faults` | two refreshes and the battery loop, with values that never come: what happens after the stop, is a value given up after two attempts, does the fast interval end, is every readable value read, and does each read of the loop bring it closer? | 263 k |
| `entry_reload` | two flows, options saved at any moment, rejected logins, unloading that fails, tasks that outlive it: does an unloaded coordinator begin anything and does it end, does what was saved reach the one that runs, does an entry with its key contact the cloud in a service call only, is the lock configured once, do new credentials take effect? | 718 k |

Runs in which TLC refutes what the repository says of itself (`PROJECT.json`,
"findings", quotes the lines):

| Run | Statement | What the code does |
|---|---|---|
| `coordinator_yields` | an actuation preempts the listen instantly | a call queued behind the waiting loop preempts nothing; the listen then holds the lock for its whole window, or until the next call |
| `coordinator_stray` | cancelling the listen releases the connection | a preemption that comes while the listen disconnects, be it that the listen ended by itself, aborts the disconnect; the next session connects beside it |
| `auxiliary_overlap` | a switch preserves the other toggles | a second switch, flipped while the first one's call is under way, reverts it |
| `gate_silent` | a credential write never looks like it worked when it didn't | a request that the lock refuses is a normal return, and so is a failed session |
| `gate_prompt` | the prompt is up while a key press is needed | operations share one notification: of two language changes the first to end takes down the other's |
| `entry_overlap` | operations are serialized per config entry | per coordinator: a call of the old one and a call of the new one talk to the lock at the same time |

Some smaller differences have no run of their own; where a property covers them, it
is stated so that the exception is visible:

- The README calls the lock state "not optimistic". An actuation that ended
  without a report stores the commanded position (`Stored`);
  `PositionIsAccountedFor` allows exactly that and nothing else.
- A background read whose login is rejected records the error without pushing it.
  `SnapshotCurrent` allows this one disagreement in the error type.
- An enable button leaves the cached mask stale, so the next switch reverts it:
  `SwitchesCurrent` and `UndisturbedKeepsOthers` exempt it, as one of the reasons
  `unheard` records.
- `coordinator.py` says of a deletion that "the count drops immediately". Not from
  one to zero: an empty table counts as no answer (`Reread`), and `CountFollowsTable`
  exempts it along with answers that were lost.
- A stored LTMK is used whatever the offline option says (`Contact`), so switching the
  option off has no effect on an entry that was set up with its key.
  `LocalUnlessCalled` is the good side of it.
- The README's table of modes says "Never" of the cloud for an entry set up with a
  pasted key. A language change contacts it there too, so `LocalUnlessCalled` speaks
  only of sessions that nobody asked for.
- `config_flow.py:288` heads the reauthentication with "(cloud only)". A login that the
  lock rejects starts one on any entry (`LoginRejected`); completed, it stores an
  account in an entry that had none.
- A reauthentication asks for two reloads: the update listener hears of the change,
  and `async_update_reload_and_abort` reloads besides (`ReauthSucceeds`).
- A login rejected in the real-time loop starts no reauthentication (`LoginRejected`).
- When the platforms cannot be unloaded nothing is stopped, and Home Assistant refuses
  to reload the entry from then on (`UnloadFails`); `CredentialsTakeEffect` exempts it.
- An address typed by hand is not normalised, so another spelling of it would be
  another unique id. The model has one spelling.

### Bounds

- **Two calls.** Every property speaks of at most two calls and the loop; the
  interesting orders (a call queued behind another, behind the loop, or ahead of
  it; the listen preempted twice) need two. The safety part is proved for any number.
- **Symmetry** of the calls in `coordinator_safety`, which has no liveness property:
  no call is distinguished by the model, and its properties quantify over all calls.
  It halves the states; the other runs do without.
- **`ReadAttempts = 2`** instead of 3: one retry, and one attempt too many, are
  both visible. Proved for any number.
- **`Methods`** are all four kinds where safety is checked; `coordinator_live`
  takes `set` and `read`, which have the longest paths (a write followed by a
  retried re-read), and no cancellation, which only shortens a call.
- **`Polls = 2`** instead of the window divided by the poll period: a first, a
  last and a missed poll.
- **`MaxTable`**, the lock's room, 2 or 3 credentials: an empty table, a full one and
  one in between; only these and the comparison with the cached count matter.
- **Three toggles** in `auxiliary_faults`, two with a switch and a button, one
  that only the app changes: an own, another switch's and a foreign toggle.
- **Two slots**: the running coordinator and one that outlives its unload; a setup
  waits for a free slot. **`Callers`**: one of them has service calls in
  `entry_reload`, where calls matter only as tasks that survive; both in
  `entry_overlap`.
- **Two flows**, the least that can compete; **`MaxReloads` = 2**, what one
  reauthentication asks for. **`Choices`**: the real-time option or the offline option,
  so that each is switched on and off. The battery loop's option is left to the proofs,
  which hold for any options: its task differs from the sync only in going on.
- **Four names** in the rotation, two of them gating, one unreadable, one in the
  refresh only; each of the code's fifteen is of one of these sorts. `MaxMisses`
  bounds the reads of readable values that bring nothing: without such a bound
  nothing ever need be read.

### Fairness

Weak fairness on each call's steps and on the loop's: every await of a session is
bounded (connection and library timeouts, `_DISCONNECT_TIMEOUT`, sleeps), and the
event loop runs what is ready. Nothing is assumed of cancellations, reachability,
the bolt, the keypad, or new requests. That listen windows close
(`REALTIME_SESSION_SECONDS`) is not part of `FairSpec`: it is the hypothesis
`WindowCloses` of `EveryCallReturns`, the only property that needs it. It does
need it: `coordinator_yields` shows that a call may wait for the window. Termination
of a waiting call also rests on `asyncio.Lock` being first-come first-served,
which the model takes from the library: `release` wakes the first waiter and nobody
overtakes a queued one. In `PresenceGate` and `RefreshRotation` fairness is weak,
per call and per loop, for the same reason: polls and gaps are timed sleeps. In
`ConfigFlow` it is weak for the entry's own steps (setting up and unloading end, a
reload that waits begins) and for each task's, without the listen's window; nothing
is assumed of users, of flows, or of a login that is rejected. `CredentialsTakeEffect`
needs both: the tasks' steps are what frees a slot for the next setup.

## Proofs

Each proof module states its inductive invariant `IInv` first, then one lemma per
action or kind of step, then the theorems. The assumptions on the constants are the
`ASSUME`s of the modules, which TLC evaluates in every run.

`CoordinatorProofs`, for any set of calls, any methods and any number of read
attempts, from `ConstantsOK` only:

- `TypeCorrect`: `TypeOK` is inductive.
- `LockAccounting`: `LockMatchesTasks` is inductive relative to `TypeOK`. This is
  the invariant everything else rests on: the holder is exactly the task in a
  session, the queue holds exactly the waiting tasks, without repetition. The
  queue lemmas (`RemoveAtFacts`, `TailFacts`, and what appending, removing and
  serving do to range and injectivity) are proved once; then one lemma per kind
  of step.
- `MutualExclusion`: `OneTalker` follows from it.
- `ProgressFlag`: with one talker, the flag is set exactly while the talker is a
  call that is not a read; each action preserves this.
- `ReportOrder`: a pending report's owner is the talker, so nobody else stores.
- `PositionSources`: the stored position changes only to what a session reported
  to its own caller, to what the listen heard, or to what an actuation that ended
  without error or cancellation commanded.
- `PushedState`: `SnapshotCurrent` is inductive; every action that changes one of
  the four fields pushes, but for the error of a background read.
- `Refinement`: initial states map to initial states, each step to a step of
  `FairAccess` or a stutter, so `Spec => ImplementsFairAccess`.
- `ArrivalOrder`: the `NobodyOvertakes` of `FairAccess` (no run of its own), taken
  over through `Refinement` without looking at the coordinator's steps again.
- `BoundedSessions` (`CallsAdvance`): `Remaining` counts the steps a call has left at
  most; every step of it lowers the count, whatever fails, is retried or is cancelled.
- `OrderlyStop` (`StoppedLoopWindsDown`): the lemma `StopDelivered` says that the
  stop has reached the loop wherever it was, so that none of its phases leads back.
- `Obedience` (`CancellationIsSpent`): only a listen under way is ever told to end,
  and one that obeys is disconnecting (`ToldInSession`); with `LockAccounting` the
  cancellation is then gone exactly when the operation lock is released.

`FairAccessProofs` is about the abstract specification alone, for any tasks and
values: `Exclusion`, and `FirstComeFirstServed` (`NobodyOvertakes`): whoever is not
ahead of a task in line neither gets ahead of it nor talks before it. What a task joins,
leaves or is served from stays a line without repetition, and keeps its order.

`AuxiliaryLockingProofs`, for any calls, any toggles and any number of attempts:
`SwitchesFollow` (`SwitchesCurrent`) and `OthersKept` (`UndisturbedKeepsOthers`). The
invariant adds who holds the operation lock (`LockInv`), that the cache differs from
the mask only for a reason on record or while the holder will still read it back
(`CacheInv`), and what the frame of a call made alone says of the other toggles
(`FrameInv`): that promise is about the moment the frame was composed, and has to last
until it is written. `BoundedCalls` (`CallsAdvance`): no failure takes a call back to its
write, and its attempts to read the mask back run out. `TakesTurns`: the calls obey
`FairAccess`, so what is proved of it holds here; overlapping switches, for one, are
served in the order they were flipped.

`PresenceGateProofs`, for any calls, any number of polls and any room for credentials:
`PromptsTakenDown`, `DrivenIsReal`, `GatedIsReal`, `CountIsCurrent`. Every step is of
one of five kinds (a call begins, goes on, is carried out, ends; the keypad wakes or
dozes), and each kind keeps the invariant. `GateInv` says that whoever has passed the
gate with no mishap since finds the keypad awake, and that what goes on to the re-read
without one was carried out. `CountInv` says the count is right or the call that holds
the lock has changed the table and will read it. `SingleAttempt` (`AttemptedOnce`) and
`BoundedCalls` (`CallsAdvance`) hold for each kind of step, and so does `TakesTurns`,
also while a call holds the lock and waits for somebody to press a key.

`RefreshRotationProofs`, for any names and any order of them without repetition:
`Stopping` (`OneReadAfterStop`) and `Persistence` (`GivesUpAfterTwo`). `PassInv` relates
the attempts per value to the pass and to the places left in it: what is left was
not yet asked for in this pass, and whatever else is still unknown was. `Rotation`
(`RotationGetsOn`) needs only how the index moves: a failure that may still come is
worth a whole round of the rotation, and each read uses up one place of it.

`ConfigFlowProofs`, for any number of coordinators, flows, choices and attempts:
`Unloading`, `Currency`, `KeptLocal`, and the action properties `OneConfiguration` and
`UnloadingEnds`: a task of an unloaded coordinator has a bounded number of steps left
(`StepsLeft`), which every step of it lowers, because the stop rules out a new
beginning. The invariant relates the entry's status to the coordinator in its runtime
data (`StatusInv`, `AbsentInv`), says what a task of a stopped coordinator may do
(`TaskInv`, `UnloadedInv`), what a setup under way has already read of the entry and
that a change of it since has asked for a reload (`SettingUpInv`), that at most one flow
has the unique id and none beside an entry (`FlowInv`), and that on an entry with its
key every coordinator that does anything has it (`KeyInv`).

`QueueLemmas` serves four of these modules.

Only model-checked: all liveness (it needs fairness and `ENABLED`), which is
`EveryCallReturns`, `PreemptedListenEnds`, `StopEndsLoop`, `EveryCallEnds`, `FillEnds`,
`EverythingIsRead` and `CredentialsTakeEffect`; and the refutations. For most of these
the safety half is proved, that the steps fairness provides lead down a well-founded
measure and no other step leads up again: `BoundedSessions` and `ArrivalOrder` for
`EveryCallReturns`, `Obedience` for `PreemptedListenEnds`, `OrderlyStop` for
`StopEndsLoop`, `BoundedCalls` for `EveryCallEnds`, `Rotation` for `EverythingIsRead`.
That a step is enabled until the measure is zero, and so that it is taken, is what only
TLC checks.

## Not modelled

The entities forward one call each and show the snapshot: their calls are the
requests of the modules above. Diagnostics, the card, the blueprint and translations
keep no state. The protocol (frames, key derivation, cloud) is in `aqara_ble` and
appears as nondeterministic results. `async_read_state` and `async_read_settings`
have no caller. Battery level and settings other than the auxiliary mask behave
like the position of a `read` call, without an owner in the lock that pushes them.
Removing the entry, and several locks at once, are Home Assistant's: entries share
nothing.

## Plan

All modules of the plan are written: `Coordinator`, `FairAccess`, `AuxiliaryLocking`,
`PresenceGate`, `RefreshRotation`, `EntryLifecycle`, `ConfigFlow`, each with its proofs.
What could follow:

- the safety half of `FillEnds` and of `CredentialsTakeEffect` as measures, like those
  of the other liveness properties;
- an abstract specification of one refresh (every name read or tried twice) that
  `RefreshRotation` implements, as `Coordinator` does `FairAccess`;
- a `Coordinator` in each slot of `EntryLifecycle`, so that a listen of the old
  coordinator meets the connections of the new one;
- several addresses in `ConfigFlow`, with their spellings.
