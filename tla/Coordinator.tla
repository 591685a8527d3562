------------------------------ MODULE Coordinator ------------------------------
(***************************************************************************)
(* AqaraU200Coordinator: the Home Assistant calls (actuations, settings    *)
(* writes, background reads) and the real-time listener that share one     *)
(* asyncio.Lock, _operation_lock, and through it the single Bluetooth      *)
(* connection to the door lock.                                            *)
(*                                                                         *)
(* Code between two awaits runs without interruption, so one action stands *)
(* for everything a task does from one suspension to the next.  A BLE      *)
(* session (connect, talk, disconnect) suspends once per phase.            *)
(***************************************************************************)
EXTENDS Integers, SequencesExt

CONSTANTS
    Calls,              \* tasks that run one coordinator method each
    Loop,               \* the task running _async_realtime_loop
    Nobody,             \* no task
    Methods,            \* the kinds of call Home Assistant makes
    ReadAttempts,       \* BLE_READ_ATTEMPTS
    DisconnectMayHang,  \* can _DISCONNECT_TIMEOUT strike?
    CallsMayBeCancelled \* are calling tasks cancelled (unload, script stop)?

Tasks == Calls \union {Loop}

Actuations == {"lock", "unlock"}
Kinds      == Actuations \union {"set", "read"}

ASSUME ConstantsOK ==
    /\ Loop \notin Calls
    /\ Nobody \notin Tasks
    /\ Methods \subseteq Kinds
    /\ ReadAttempts \in Nat \ {0}
    /\ DisconnectMayHang \in BOOLEAN
    /\ CallsMayBeCancelled \in BOOLEAN

Positions  == {"locked", "unlocked"}
Errors     == {"auth", "operation", "unavailable"}
Commanded(kind) == IF kind = "lock" THEN "locked" ELSE "unlocked"

\* What a session produced: a reported position, an acknowledgement, nothing,
\* an exception, or the cancellation of the calling task.
Results == Positions \union {"ack", "none", "cancelled"} \union Errors

CallPhases == {"idle", "waiting", "connect", "talk", "disconnect", "gap"}
LoopPhases == {"pause", "waiting", "connect", "listen", "disconnect", "ended"}
InSession  == {"connect", "talk", "listen", "disconnect", "gap"}

VARIABLES
    opLock,        \* the task holding _operation_lock
    waiters,       \* tasks queued on _operation_lock, in arrival order
    call,          \* each call's phase and local variables
    loop,          \* phase of the real-time loop and of its listen task
    cancelPending, \* _listen_handle.cancel() was called, not yet delivered
    unwinding,     \* the listen task is propagating a CancelledError
    stop,          \* _realtime_stop
    isLocked,      \* _is_locked
    inProgress,    \* _operation_in_progress
    lastOp,        \* _last_operation
    lastError,     \* _last_error_type
    reauth,        \* a reauthentication flow was started
    snapshot,      \* the data last pushed to the entities
    reachable,     \* bluetooth_manager.state.reachable
    bolt,          \* the real position of the bolt
    stray          \* a connection some session gave up without closing it

lockVars  == <<opLock, waiters>>
loopVars  == <<loop, cancelPending, unwinding, stop>>
stateVars == <<isLocked, inProgress, lastOp, lastError, reauth, snapshot>>
envVars   == <<reachable, bolt, stray>>
vars      == <<lockVars, call, loopVars, stateVars, envVars>>

\* A call that has returned has no local variables left.
Idle == [phase |-> "idle", kind |-> "read", result |-> "none",
         tries |-> 0, wrote |-> FALSE]

\* _build_snapshot
Built == [reachable |-> reachable, inProgress |-> inProgress, lastOp |-> lastOp,
          lastError |-> lastError, isLocked |-> isLocked]

Init ==
    /\ opLock = Nobody
    /\ waiters = <<>>
    /\ call = [c \in Calls |-> Idle]
    /\ loop \in {"pause", "ended"}      \* real-time state is an option
    /\ cancelPending = FALSE
    /\ unwinding = FALSE
    /\ stop = FALSE
    /\ isLocked = "unknown"
    /\ inProgress = FALSE
    /\ lastOp = "none"
    /\ lastError = "none"
    /\ reauth = FALSE
    /\ reachable \in BOOLEAN
    /\ bolt \in Positions
    /\ stray = FALSE
    /\ snapshot = Built

--------------------------------------------------------------------------------
(* The operation lock.  asyncio.Lock is fair: release() wakes the first      *)
(* waiter, and nobody overtakes a waiter that has been queued.               *)

\* Mutants of MayEnter: no waiting for the listen to end; the lock released
\* before the disconnect; a newcomer overtaking those in line.
MayEnterOverListen(t) ==
    /\ opLock \in {Nobody, Loop}
    /\ waiters # <<>> => Head(waiters) = t

MayEnterBeforeDisconnect(t) ==
    /\ opLock = Nobody \/ \E c \in Calls : opLock = c /\ call[c].phase = "disconnect"
    /\ waiters # <<>> => Head(waiters) = t

MayEnterByBarging(t) == opLock = Nobody

MayEnter(t) ==
    /\ opLock = Nobody
    /\ waiters # <<>> => Head(waiters) = t

Rest == IF waiters = <<>> THEN <<>> ELSE Tail(waiters)

LeaveQueue(t) ==
    \E i \in DOMAIN waiters : waiters[i] = t /\ waiters' = RemoveAt(waiters, i)

\* _preempt_listen: the handle exists while the loop awaits its listen task.
Preempt ==
    /\ cancelPending' = (cancelPending \/ loop \in InSession)
    /\ UNCHANGED <<loop, unwinding, stop>>

--------------------------------------------------------------------------------
(* A call, from its request to its return.                                   *)

\* Holding the lock: a read goes straight to its session; an operation first
\* checks reachability again and announces itself, or raises at once.
Begin(c, kind) ==
    /\ waiters' = Rest
    /\ \/ /\ kind = "read"
          /\ opLock' = c
          /\ call' = [call EXCEPT ![c] = [Idle EXCEPT !.phase = "connect"]]
          /\ UNCHANGED stateVars
       \/ /\ kind # "read" /\ reachable
          /\ opLock' = c
          /\ call' = [call EXCEPT ![c] =
                         [Idle EXCEPT !.phase = "connect", !.kind = kind]]
          /\ inProgress' = TRUE
          /\ lastOp' = kind
          /\ lastError' = "none"
          /\ UNCHANGED <<isLocked, reauth>>
          /\ snapshot' = Built'
       \/ /\ kind # "read" /\ ~reachable
          /\ opLock' = Nobody
          /\ call' = [call EXCEPT ![c] = Idle]
          /\ UNCHANGED stateVars

\* _async_run_operation, _async_run_set_operation, _async_do_read up to the
\* first suspension.  A read of an unreachable lock returns without a trace.
Request(c, kind) ==
    /\ call[c].phase = "idle"
    /\ kind = "read" => reachable
    /\ Preempt
    /\ UNCHANGED envVars
    /\ \/ MayEnter(c) /\ Begin(c, kind)
       \/ /\ ~MayEnter(c)
          /\ waiters' = Append(waiters, c)
          /\ call' = [call EXCEPT ![c] =
                         [Idle EXCEPT !.phase = "waiting", !.kind = kind]]
          /\ UNCHANGED <<opLock, stateVars>>

Woken(c) ==
    /\ call[c].phase = "waiting"
    /\ MayEnter(c)
    /\ UNCHANGED <<loopVars, envVars>>
    /\ Begin(c, call[c].kind)

\* The error the coordinator records for the result r of a call of this kind.
\* Reads swallow everything but a rejected login.
ErrorOf(kind, r) ==
    IF r = "auth" THEN "auth"
    ELSE IF kind = "read" THEN lastError
    ELSE IF r \in Errors THEN r
    ELSE lastError

\* Mutant: falls back on the commanded position after a failure too.
StoredDespiteFailure(kind, r) ==
    IF kind # "set" /\ r \in Positions THEN r
    ELSE IF kind \in Actuations THEN Commanded(kind)
    ELSE isLocked

\* An actuation falls back on the commanded position when no report came.
Stored(kind, r) ==
    IF kind # "set" /\ r \in Positions THEN r
    ELSE IF kind \in Actuations /\ r = "none" THEN Commanded(kind)
    ELSE isLocked

\* Mutant: the flag is reset by exception handlers that miss a cancellation.
InProgressUnlessHandled(kind, r) == (kind = "read" \/ r = "cancelled") /\ inProgress

InProgressAfter(kind, r) == kind = "read" /\ inProgress

\* Mutant: a read stores its value without telling the entities.
PushesOperations(kind, changed) == kind # "read"

\* A read pushes only a changed value, an operation always.
Pushes(kind, changed) == kind # "read" \/ changed

\* The call returns or raises: store the result, clear the operation flag, push
\* the snapshot, release the lock.
Return(c, r) ==
    LET kind == call[c].kind IN
    /\ opLock' = Nobody
    /\ call' = [call EXCEPT ![c] = Idle]
    /\ isLocked' = Stored(kind, r)
    /\ lastError' = ErrorOf(kind, r)
    /\ reauth' = (reauth \/ r = "auth")
    /\ inProgress' = InProgressAfter(kind, r)
    /\ UNCHANGED <<waiters, lastOp>>
    /\ snapshot' = IF Pushes(kind, isLocked' # isLocked) THEN Built' ELSE snapshot

Reading(c)  == call[c].kind = "read" \/ (call[c].kind = "set" /\ call[c].wrote)
Writing(c)  == call[c].kind = "set" /\ ~call[c].wrote

\* Mutants: whatever brought nothing is tried again, an actuation too; one attempt too
\* many.
RetriesEverything(c, r) == r = "none" /\ call[c].tries < ReadAttempts - 1

RetriesOnceMore(c, r) == Reading(c) /\ r = "none" /\ call[c].tries <= ReadAttempts - 1

Retries(c, r) == Reading(c) /\ r = "none" /\ call[c].tries < ReadAttempts - 1

\* One BLE session has ended with result r: _async_read_retry tries a read
\* again, an acknowledged write goes on to its post_read if it has one (a credential
\* write even when unacknowledged), anything else returns.
SessionOver(c, r) ==
    \/ /\ Retries(c, r)
       /\ call' = [call EXCEPT ![c] = [@ EXCEPT !.phase = "gap", !.tries = call[c].tries + 1]]
       /\ UNCHANGED <<lockVars, stateVars>>
    \/ /\ Writing(c) /\ r \in {"ack", "none"}
       /\ call' = [call EXCEPT ![c] =
                      [@ EXCEPT !.phase = "connect", !.wrote = TRUE, !.result = "none"]]
       /\ UNCHANGED <<lockVars, stateVars>>
    \/ /\ Writing(c) /\ r = "none"          \* "did not acknowledge"
       /\ Return(c, "operation")
    \/ /\ ~Retries(c, r)
       /\ Writing(c) => r # "none"
       /\ Return(c, r)

Connect(c) ==
    /\ call[c].phase = "connect"
    /\ call' = [call EXCEPT ![c].phase = "talk"]
    /\ UNCHANGED <<lockVars, loopVars, stateVars, envVars>>

\* No connection: an operation raises, a read has just no value, and so has the
\* one-frame session of a settings write, which raises or not.
Failures(kind) == IF kind \in Actuations THEN Errors ELSE {"none"} \union Errors

ConnectFails(c) ==
    /\ call[c].phase = "connect"
    /\ UNCHANGED <<loopVars, envVars>>
    /\ \E r \in IF Reading(c) THEN {"none", "auth"} ELSE Failures(call[c].kind) :
           SessionOver(c, r)

\* protocol_client.operate(): the motor may or may not have turned when the
\* window closes, and the position report may be missing.
Actuate(c) ==
    /\ call[c].phase = "talk" /\ call[c].kind \in Actuations
    /\ bolt' \in {bolt, Commanded(call[c].kind)}
    /\ \E r \in {bolt', "none", "auth", "operation"} :
           call' = [call EXCEPT ![c] = [@ EXCEPT !.phase = "disconnect", !.result = r]]
    /\ UNCHANGED <<lockVars, loopVars, stateVars, reachable, stray>>

\* One frame and its reply: a settings write, or a read of a value.  The language
\* change, a long transfer, ends alike.
Exchange(c) ==
    /\ call[c].phase = "talk" /\ call[c].kind \notin Actuations
    /\ \E r \in {"none", "auth", IF call[c].kind = "read" THEN bolt ELSE "ack"} :
           call' = [call EXCEPT ![c] = [@ EXCEPT !.phase = "disconnect", !.result = r]]
    /\ UNCHANGED <<lockVars, loopVars, stateVars, envVars>>

Disconnect(c) ==
    /\ call[c].phase = "disconnect"
    /\ stray' \in IF DisconnectMayHang THEN {stray, TRUE} ELSE {stray}
    /\ UNCHANGED <<loopVars, reachable, bolt>>
    /\ SessionOver(c, call[c].result)

\* BLE_READ_GAP_SECONDS have passed.
GapOver(c) ==
    /\ call[c].phase = "gap"
    /\ call' = [call EXCEPT ![c] = [@ EXCEPT !.phase = "connect", !.result = "none"]]
    /\ UNCHANGED <<lockVars, loopVars, stateVars, envVars>>

--------------------------------------------------------------------------------
(* Cancellation of the calling task.  While disconnecting, an actuation and  *)
(* a language change re-raise the CancelledError and a one-frame session     *)
(* swallows it; either way the connection is left behind.                    *)

CancelWaiting(c) ==
    /\ call[c].phase = "waiting"
    /\ LeaveQueue(c)
    /\ call' = [call EXCEPT ![c] = Idle]
    /\ UNCHANGED <<opLock, loopVars, stateVars, envVars>>

CancelSession(c) ==
    \/ /\ call[c].phase \in {"connect", "gap"}
       /\ UNCHANGED <<loopVars, envVars>>
       /\ Return(c, "cancelled")
    \/ /\ call[c].phase = "talk"
       /\ call' = [call EXCEPT ![c] =
                      [@ EXCEPT !.phase = "disconnect", !.result = "cancelled"]]
       /\ UNCHANGED <<lockVars, loopVars, stateVars, envVars>>
    \/ /\ call[c].phase = "disconnect"
       /\ stray' = TRUE
       /\ UNCHANGED <<loopVars, reachable, bolt>>
       /\ \/ ~Reading(c) /\ Return(c, "cancelled")
          \/ call[c].kind \notin Actuations /\ SessionOver(c, call[c].result)

Cancel(c) == CallsMayBeCancelled /\ (CancelWaiting(c) \/ CancelSession(c))

--------------------------------------------------------------------------------
(* The real-time loop and the listen task it awaits.                         *)

\* REALTIME_GAP_SECONDS have passed: look at the stop event, then ask for the
\* lock.  Out of reach the loop just sleeps again.
LoopWakes ==
    /\ loop = "pause"
    /\ \/ /\ stop
          /\ loop' = "ended"
          /\ UNCHANGED lockVars
       \/ /\ ~stop /\ reachable /\ MayEnter(Loop)
          /\ loop' = "connect"
          /\ opLock' = Loop
          /\ waiters' = Rest
       \/ /\ ~stop /\ reachable /\ ~MayEnter(Loop)
          /\ loop' = "waiting"
          /\ waiters' = Append(waiters, Loop)
          /\ UNCHANGED opLock
    /\ UNCHANGED <<call, cancelPending, unwinding, stop, stateVars, envVars>>

LoopGranted ==
    /\ loop = "waiting"
    /\ MayEnter(Loop)
    /\ loop' = "connect"
    /\ opLock' = Loop
    /\ waiters' = Rest
    /\ UNCHANGED <<call, cancelPending, unwinding, stop, stateVars, envVars>>

ListenConnects ==
    /\ loop = "connect" /\ ~cancelPending
    /\ loop' = "listen"
    /\ UNCHANGED <<lockVars, call, cancelPending, unwinding, stop, stateVars, envVars>>

\* Mutant: a preempted loop never gets to its release.
ListenOverUnlessCancelled(cancelled) ==
    /\ loop' = IF cancelled /\ stop THEN "ended" ELSE "pause"
    /\ opLock' = IF cancelled THEN opLock ELSE Nobody
    /\ cancelPending' = FALSE
    /\ unwinding' = FALSE
    /\ UNCHANGED <<waiters, call, stop, stateVars, reachable, bolt>>

\* The listen task is done; the loop releases the lock.  A cancellation ends the
\* loop only when the stop event is set, otherwise it was a preemption.
ListenOver(cancelled) ==
    /\ loop' = IF cancelled /\ stop THEN "ended" ELSE "pause"
    /\ opLock' = Nobody
    /\ cancelPending' = FALSE
    /\ unwinding' = FALSE
    /\ UNCHANGED <<waiters, call, stop, stateVars, reachable, bolt>>

\* The connection cannot be made, or the task is cancelled before it is.
ListenNotConnected ==
    /\ loop = "connect"
    /\ ListenOver(cancelPending)
    /\ UNCHANGED stray

\* _on_realtime_event: a position pushed by the lock, applied at once.
Push ==
    /\ loop = "listen"
    /\ isLocked # bolt
    /\ isLocked' = bolt
    /\ UNCHANGED <<inProgress, lastOp, lastError, reauth>>
    /\ UNCHANGED <<lockVars, call, loopVars, envVars>>
    /\ snapshot' = Built'

\* REALTIME_SESSION_SECONDS are over, or the connection dropped.
ListenEnds ==
    /\ loop = "listen" /\ ~cancelPending
    /\ loop' = "disconnect"
    /\ UNCHANGED <<lockVars, call, cancelPending, unwinding, stop, stateVars, envVars>>

\* Mutant: the listen swallows the cancellation and goes on.
ListenGoesOn ==
    /\ loop = "listen" /\ cancelPending
    /\ cancelPending' = FALSE
    /\ UNCHANGED <<lockVars, call, loop, unwinding, stop, stateVars, envVars>>

ListenCancelled ==
    /\ loop = "listen" /\ cancelPending
    /\ loop' = "disconnect"
    /\ cancelPending' = FALSE
    /\ unwinding' = TRUE
    /\ UNCHANGED <<lockVars, call, stop, stateVars, envVars>>

\* The finally clause of async_listen_realtime.  A second cancellation reaches
\* the await of disconnect() and is swallowed there: the connection stays up.
ListenDisconnects ==
    /\ loop = "disconnect"
    /\ ListenOver(unwinding)
    /\ stray' \in IF cancelPending THEN {TRUE}
                  ELSE IF DisconnectMayHang THEN {stray, TRUE} ELSE {stray}

\* Mutant: the stop event is set, but nobody cancels the task.
StopRealtimeByEvent ==
    /\ ~stop /\ loop # "ended"
    /\ stop' = TRUE
    /\ UNCHANGED <<lockVars, call, loop, cancelPending, unwinding, stateVars, envVars>>

\* async_stop_realtime
StopRealtime ==
    /\ ~stop /\ loop # "ended"
    /\ stop' = TRUE
    /\ cancelPending' = (loop \in InSession)
    /\ \/ loop = "pause" /\ loop' = "ended" /\ UNCHANGED waiters
       \/ loop = "waiting" /\ loop' = "ended" /\ LeaveQueue(Loop)
       \/ loop \in InSession /\ UNCHANGED <<loop, waiters>>
    /\ UNCHANGED <<opLock, call, unwinding, stateVars, envVars>>

--------------------------------------------------------------------------------
(* The surroundings: Bluetooth reachability, the bolt, abandoned connections. *)

\* _async_discovered, _async_unavailable -> async_handle_bluetooth_state
BluetoothChanges ==
    /\ reachable' = ~reachable
    /\ UNCHANGED <<isLocked, inProgress, lastOp, lastError, reauth>>
    /\ UNCHANGED <<lockVars, call, loopVars, bolt, stray>>
    /\ snapshot' = Built'

\* Somebody turns the key or the knob.
BoltTurned ==
    /\ bolt' \in Positions \ {bolt}
    /\ UNCHANGED <<lockVars, call, loopVars, stateVars, reachable, stray>>

StrayDrops ==
    /\ stray
    /\ stray' = FALSE
    /\ UNCHANGED <<lockVars, call, loopVars, stateVars, reachable, bolt>>

--------------------------------------------------------------------------------
CallStep(c) ==
    \/ Woken(c) \/ Connect(c) \/ ConnectFails(c) \/ Actuate(c) \/ Exchange(c)
    \/ Disconnect(c) \/ GapOver(c)

LoopStep ==
    \/ LoopWakes \/ LoopGranted \/ ListenConnects \/ ListenNotConnected
    \/ ListenCancelled \/ ListenDisconnects

Next ==
    \/ \E c \in Calls : CallStep(c) \/ Cancel(c) \/ \E kind \in Methods : Request(c, kind)
    \/ LoopStep \/ Push \/ ListenEnds \/ StopRealtime
    \/ BluetoothChanges \/ BoltTurned \/ StrayDrops

Spec == Init /\ [][Next]_vars

\* Every await of a session is bounded by a timeout of the BLE stack, the
\* library or the adapter, and the event loop runs whatever is ready.
TasksProgress == (\A c \in Calls : WF_vars(CallStep(c))) /\ WF_vars(LoopStep)

\* The listen window is finite: REALTIME_SESSION_SECONDS.
WindowCloses == WF_vars(ListenEnds)

FairSpec == Spec /\ TasksProgress

--------------------------------------------------------------------------------
(* Properties.                                                               *)

Snapshots == [reachable : BOOLEAN, inProgress : BOOLEAN,
              lastOp : Kinds \union {"none"}, lastError : Errors \union {"none"},
              isLocked : Positions \union {"unknown"}]

CallRecords == [phase : CallPhases, kind : Kinds, result : Results,
                tries : 0..(ReadAttempts - 1), wrote : BOOLEAN]

\* Every variable has its type; in particular no read is tried more often than
\* BLE_READ_ATTEMPTS allows.
TypeOK ==
    /\ opLock \in Tasks \union {Nobody}
    /\ waiters \in Seq(Tasks)
    /\ call \in [Calls -> CallRecords]
    /\ loop \in LoopPhases
    /\ cancelPending \in BOOLEAN /\ unwinding \in BOOLEAN /\ stop \in BOOLEAN
    /\ isLocked \in Positions \union {"unknown"}
    /\ inProgress \in BOOLEAN
    /\ lastOp \in Kinds \union {"none"}
    /\ lastError \in Errors \union {"none"}
    /\ reauth \in BOOLEAN
    /\ snapshot \in Snapshots
    /\ reachable \in BOOLEAN /\ bolt \in Positions /\ stray \in BOOLEAN

\* The tasks that are inside a BLE session, or between two of one method.
Talking == {c \in Calls : call[c].phase \in InSession}
           \union {t \in {Loop} : loop \in InSession}

Waiting == {c \in Calls : call[c].phase = "waiting"}
           \union {t \in {Loop} : loop = "waiting"}

\* The asyncio.Lock agrees with the tasks: it is held by the one task in a
\* session and by nobody else, and exactly the waiting tasks are queued, each
\* once.  A holder that leaves without releasing, or a cancelled waiter that
\* stays queued, would block the coordinator for good.
LockMatchesTasks ==
    /\ Talking = {opLock} \ {Nobody}
    /\ Range(waiters) = Waiting
    /\ IsInjective(waiters)

\* Actuations, settings writes, reads and the held listen never use the radio at
\* the same time (class docstring: "serialized HA operations").
OneTalker == \A s, t \in Talking : s = t

\* Entities show operation_in_progress exactly while an actuation or a settings
\* write is between its start and its return, whatever error, retry or
\* cancellation ends it; a background read or the listen never shows.
InProgressExact ==
    inProgress <=> \E c \in Calls : call[c].phase \in InSession /\ call[c].kind # "read"

\* What the entities were last given is the coordinator's state: every path that
\* changes reachability, position, operation or error type pushes; only that the last
\* error is a rejected login need not have been shown, since a background read records
\* it and pushes nothing.
SnapshotCurrent ==
    /\ \A f \in {"reachable", "inProgress", "lastOp", "isLocked"} : snapshot[f] = Built[f]
    /\ snapshot.lastError = lastError \/ lastError = "auth"

Pending(c) == call[c].phase = "disconnect" /\ call[c].result \in Positions

\* A position read from the lock is not yet stored while its session is still
\* disconnecting.  Nobody else changes the stored position in that time, so a
\* newer report is never overwritten by an older one.
ReportsAppliedInOrder ==
    [][\A c \in Calls : Pending(c) /\ isLocked' # isLocked => ~Pending(c)']_vars

Unreported(c) ==
    call[c].phase = "disconnect" /\ call[c].kind \in Actuations /\ call[c].result = "none"

\* The stored position changes only to one the lock has reported to the session
\* that stores it, or to the commanded one after an actuation that ended well but
\* without a report; one that failed or was cancelled changes nothing.
PositionIsAccountedFor ==
    [][isLocked' # isLocked =>
          \/ loop = "listen" /\ isLocked' = bolt
          \/ \E c \in Calls : Pending(c) /\ isLocked' = call[c].result
          \/ \E c \in Calls : Unreported(c) /\ isLocked' = Commanded(call[c].kind)]_vars

\* How many steps a call has left at most: three for an attempt at a read and one for
\* the gap before each but the first, three for the session that writes or actuates.
Remaining(k) ==
    LET inSession == CASE k.phase = "gap" -> 4 [] k.phase = "connect" -> 3
                       [] k.phase = "talk" -> 2 [] OTHER -> 1
    IN  IF k.phase = "idle" THEN 0
        ELSE IF k.phase = "waiting" THEN 4 * ReadAttempts + 4
        ELSE IF k.kind = "read" \/ (k.kind = "set" /\ k.wrote)
             THEN 4 * (ReadAttempts - 1 - k.tries) + inSession
        ELSE 4 * ReadAttempts + inSession

\* Whoever holds the operation lock comes closer to giving it back with every step of
\* its own, in whichever session, failure or cancellation: a read is tried
\* BLE_READ_ATTEMPTS times at most, a settings write gets one session and that many
\* re-reads, and an actuation one session, never repeated when its report is lost.
CallsAdvance ==
    [][\A c \in Calls : call[c].phase # "idle" /\ call'[c] # call[c]
                       => Remaining(call'[c]) < Remaining(call[c])]_vars

\* From the stop on the loop only winds down: it leaves the session it is in, asks for
\* the lock no more and listens no more, although a disconnect may swallow the
\* cancellation and a preemption may have come before the stop.
Winding ==
    [listen |-> 3, connect |-> 2, disconnect |-> 2, waiting |-> 1, pause |-> 1, ended |-> 0]

StoppedLoopWindsDown == [][stop /\ loop' # loop => Winding[loop'] < Winding[loop]]_vars

Told == cancelPending \/ unwinding

\* A cancellation is neither forgotten nor left over: a listen that was told to end stays
\* so until it lets go of the lock, does nothing on the way there but disconnect, and
\* with the lock the cancellation is gone, so that the next listen is not cut short.
CancellationIsSpent ==
    [][Told => \/ Told' /\ opLock' = Loop /\ (loop' # loop => loop' = "disconnect")
               \/ ~Told' /\ opLock' # Loop]_vars

\* The held listen always gives way: while a call waits for the lock, a listen
\* that holds it has been told to end ("an actuation preempts it instantly, so
\* it is not a latency bound").
ListenYields ==
    (\E c \in Calls : call[c].phase = "waiting") /\ loop = "listen" => cancelPending

\* Until the loop is stopped for good there is one Bluetooth connection at a time:
\* nobody is connected while an abandoned connection is still up ("Cancel the
\* awaiting task to release the connection").
OneConnection ==
    stray /\ ~stop => /\ loop # "listen"
                      /\ \A c \in Calls : call[c].phase # "talk"

\* If listen windows close, every call that waits for the lock returns, although
\* listens, retries and other calls keep taking it.
EveryCallReturns ==
    WindowCloses => \A c \in Calls : call[c].phase = "waiting" ~> call[c].phase = "idle"

\* A listen that was told to end lets go of the lock without waiting for its
\* window to close.
PreemptedListenEnds == cancelPending ~> opLock # Loop

\* async_stop_realtime ends the loop from wherever it is, even when the
\* cancellation is swallowed by a disconnect.
StopEndsLoop == stop ~> loop = "ended"

--------------------------------------------------------------------------------
(* The coordinator as fair, exclusive access to the lock.                    *)

Access == INSTANCE FairAccess WITH
    talking <- Talking, line <- waiters, shown <- isLocked, Values <- Positions

\* Sessions are exclusive and served in arrival order, and the stored position
\* changes only while a session is open.
ImplementsFairAccess == Access!Spec

================================================================================
