---------------------------- MODULE AuxiliaryLocking ---------------------------
(***************************************************************************)
(* The auxiliary-locking toggles.  The lock keeps four of them in one mask *)
(* that a single frame overwrites; two have a switch in Home Assistant.  A *)
(* switch composes its frame from the coordinator's cached mask when it is *)
(* flipped, waits for the operation lock, writes, and reads the mask back. *)
(*                                                                         *)
(* The operation lock is used through what Coordinator promises of it,     *)
(* FairAccess.                                                             *)
(***************************************************************************)
EXTENDS Integers, SequencesExt

CONSTANTS
    Calls,             \* tasks that run one coordinator method each
    Toggles,           \* _AUXILIARY_TOGGLES
    Switchable,        \* the toggles with a switch entity
    Buttons,           \* the toggles with a one-way enable button
    NotRead,           \* None: the mask was never read
    ReadAttempts,      \* BLE_READ_ATTEMPTS
    LockMayNotAnswer,  \* can a frame or its reply get lost?
    AppIsUsed,         \* does somebody change the toggles in the Aqara app?
    CallsMayBeCancelled

Masks == SUBSET Toggles         \* the toggles that are on

ASSUME MaskConstants ==
    /\ Switchable \subseteq Toggles /\ Buttons \subseteq Toggles
    /\ \A m \in Masks : m # NotRead
    /\ ReadAttempts \in Nat \ {0}
    /\ {LockMayNotAnswer, AppIsUsed, CallsMayBeCancelled} \subseteq BOOLEAN

Jobs   == {"switch", "button", "refresh"}
Phases == {"idle", "queued", "write", "read", "apply"}

VARIABLES
    talking,   \* the call that holds the operation lock
    line,      \* calls waiting for it
    call,      \* each call's phase, job and mask: to be written, then as read
    mask,      \* the lock's own toggles
    cached,    \* _settings.auxiliary_locking, which the switches show
    unheard    \* was there reason since the last read for cached to differ from
               \* mask that is not the switches' fault?  (history variable)

vars == <<talking, line, call, mask, cached, unheard>>

Access == INSTANCE FairAccess WITH Tasks <- Calls, Values <- Masks, shown <- cached

\* alone: nobody was using or awaiting the radio when the call was made; informed: the
\* mask had been read by then (history).
Idle == [phase |-> "idle", job |-> "refresh", toggle |-> "none", mask |-> {}, tries |-> 0,
         alone |-> FALSE, informed |-> FALSE]

Init ==
    /\ talking = {}
    /\ line = <<>>
    /\ call = [c \in Calls |-> Idle]
    /\ mask \in Masks
    /\ cached = NotRead
    /\ unheard = FALSE

--------------------------------------------------------------------------------
\* Mutant: omits the toggles it does not flip.
KnowsNothing == {}

\* The mask as Home Assistant knows it: all off while it was never read.
Known == IF cached = NotRead THEN {} ELSE cached

FirstPhase(job) == IF job = "refresh" THEN "read" ELSE "write"

MayStart(c) == talking = {} /\ (line # <<>> => Head(line) = c)

\* A call comes with the mask it is going to write, and takes its turn.
Request(c, job, toggle, m) ==
    LET asked == [Idle EXCEPT !.job = job, !.toggle = toggle, !.mask = m,
                              !.informed = cached # NotRead] IN
    /\ call[c].phase = "idle"
    /\ \/ /\ MayStart(c) /\ Access!Start(c)
          /\ call' = [call EXCEPT ![c] = [asked EXCEPT !.phase = FirstPhase(job), !.alone = TRUE]]
       \/ /\ ~MayStart(c) /\ Access!Join(c)
          /\ call' = [call EXCEPT ![c] = [asked EXCEPT !.phase = "queued"]]
    /\ UNCHANGED <<mask, unheard>>

\* _async_set_auxiliary_toggle
SetAuxiliaryToggle(c, toggle, enabled) ==
    Request(c, "switch", toggle, IF enabled THEN Known \union {toggle} ELSE Known \ {toggle})

\* The captured enable frame is a full mask too; only its one toggle is known.
EnableButton(c, toggle) ==
    \E m \in Masks : toggle \in m /\ Request(c, "button", toggle, m)

Refresh(c) == Request(c, "refresh", "none", {})

Granted(c) ==
    /\ call[c].phase = "queued"
    /\ Access!Start(c)
    /\ call' = [call EXCEPT ![c].phase = FirstPhase(call[c].job)]
    /\ UNCHANGED <<mask, unheard>>

\* Out of reach by the time the lock is granted.
TurnedAway(c) ==
    /\ call[c].phase = "queued" /\ call[c].job # "refresh"
    /\ Access!Refused(c)
    /\ call' = [call EXCEPT ![c] = Idle]
    /\ UNCHANGED <<mask, unheard>>

\* The call returns or raises and releases the operation lock.
Leave(c) ==
    /\ Access!Finish(c)
    /\ call' = [call EXCEPT ![c] = Idle]

\* Mutant: a switch trusts the acknowledgement.
ReadsBackNever(job) == FALSE

\* post_read
ReadsBack(job) == job = "switch"

\* Acknowledged.
Write(c) ==
    /\ call[c].phase = "write"
    /\ mask' = call[c].mask
    /\ \/ /\ ReadsBack(call[c].job)
          /\ call' = [call EXCEPT ![c].phase = "read"]
          /\ UNCHANGED <<talking, line, cached>>
       \/ /\ ~ReadsBack(call[c].job)
          /\ UNCHANGED cached
          /\ Leave(c)
    /\ unheard' = (unheard \/ (call[c].job = "button" /\ mask' # mask))

\* No acknowledgement: the call raises, whether or not the frame arrived.
WriteFails(c) ==
    /\ LockMayNotAnswer
    /\ call[c].phase = "write"
    /\ mask' \in {mask, call[c].mask}
    /\ unheard' = (unheard \/ mask' # mask)
    /\ UNCHANGED cached
    /\ Leave(c)

Read(c) ==
    /\ call[c].phase = "read"
    /\ call' = [call EXCEPT ![c] = [@ EXCEPT !.phase = "apply", !.mask = mask]]
    /\ unheard' = FALSE
    /\ UNCHANGED <<talking, line, mask, cached>>

\* Mutant: one attempt too many.
AgainOnceMore(c) == call[c].tries <= ReadAttempts - 1

Again(c) == call[c].tries < ReadAttempts - 1

\* Mutant: what is repeated is the write along with its read.
RetriedFromTheStart(k) == [k EXCEPT !.phase = FirstPhase(k.job), !.tries = k.tries + 1]

Retried(k) == [k EXCEPT !.tries = k.tries + 1]

\* _async_read_retry; the call raises or returns when all attempts are used up, and at
\* once if the login is rejected.
ReadFails(c) ==
    /\ LockMayNotAnswer
    /\ call[c].phase = "read"
    /\ \/ /\ Again(c)
          /\ call' = [call EXCEPT ![c] = Retried(call[c])]
          /\ UNCHANGED <<talking, line, cached, unheard>>
       \/ /\ unheard' = (unheard \/ call[c].job = "switch")
          /\ UNCHANGED cached
          /\ Leave(c)
    /\ UNCHANGED mask

\* _apply_read, once the session that read the mask has disconnected.
Apply(c) ==
    /\ call[c].phase = "apply"
    /\ cached' = call[c].mask
    /\ Leave(c)
    /\ UNCHANGED <<mask, unheard>>

\* The calling task is cancelled.  A mask that was read but not yet applied is
\* lost; a frame that was sent may have arrived.
Cancel(c) ==
    /\ CallsMayBeCancelled
    /\ \/ /\ call[c].phase = "queued"
          /\ Access!GiveUp(c)
          /\ call' = [call EXCEPT ![c] = Idle]
          /\ UNCHANGED <<mask, unheard>>
       \/ /\ call[c].phase \in {"write", "read", "apply"}
          /\ mask' \in IF call[c].phase = "write" THEN {mask, call[c].mask} ELSE {mask}
          /\ unheard' = (\/ unheard \/ mask' # mask
                         \/ call[c].phase = "apply"
                         \/ call[c].phase = "read" /\ call[c].job = "switch")
          /\ UNCHANGED cached
          /\ Leave(c)

AppChanges ==
    /\ AppIsUsed
    /\ mask' \in Masks \ {mask}
    /\ unheard' = TRUE
    /\ UNCHANGED <<talking, line, call, cached>>

Next ==
    \/ \E c \in Calls :
          \/ \E t \in Switchable, enabled \in BOOLEAN : SetAuxiliaryToggle(c, t, enabled)
          \/ \E t \in Buttons : EnableButton(c, t)
          \/ Refresh(c) \/ Granted(c) \/ TurnedAway(c) \/ Write(c) \/ WriteFails(c)
          \/ Read(c) \/ ReadFails(c) \/ Apply(c) \/ Cancel(c)
    \/ AppChanges

Spec == Init /\ [][Next]_vars

--------------------------------------------------------------------------------
(* Properties.                                                               *)

\* Every variable has its type; the mask is read at most BLE_READ_ATTEMPTS times.
TypeOK ==
    /\ talking \subseteq Calls
    /\ line \in Seq(Calls)
    /\ call \in [Calls -> [phase : Phases, job : Jobs, toggle : Toggles \union {"none"},
                           mask : Masks, tries : 0..(ReadAttempts - 1), alone : BOOLEAN,
                           informed : BOOLEAN]]
    /\ mask \in Masks
    /\ cached = NotRead \/ cached \in Masks
    /\ unheard \in BOOLEAN

\* Whenever the radio is free the switches show the lock's real mask, unless it was
\* changed by the app or a button, a write was not acknowledged, or reading it back
\* failed ("ends up showing what the lock actually reports now").
SwitchesCurrent ==
    talking = {} => cached \in {mask, NotRead} \/ unheard

Writes(c) == call[c].phase = "write" /\ call'[c].phase # "write" /\ call[c].job = "switch"

KeepsOthers(c) == \A t \in Toggles \ {call[c].toggle} : t \in mask' <=> t \in mask

\* A switch that was flipped when the mask had been read changes no toggle but its own
\* ("Flip one auxiliary-locking toggle, preserving the other three").
OnlyOwnToggle ==
    [][\A c \in Calls : Writes(c) /\ call[c].informed => KeepsOthers(c)]_vars

\* A switch that was flipped while no other call was under way does so, whatever
\* writes, re-reads and failures of others came before: what it composed its frame
\* from was the lock's mask, unless there was reason for it not to be.
UndisturbedKeepsOthers ==
    [][\A c \in Calls :
          Writes(c) /\ call[c].alone /\ call[c].informed /\ ~unheard => KeepsOthers(c)]_vars

\* How many steps a call has left at most.
Remaining(k) ==
    CASE k.phase = "queued" -> ReadAttempts + 3
      [] k.phase = "write"  -> ReadAttempts + 2
      [] k.phase = "read"   -> ReadAttempts + 1 - k.tries
      [] k.phase = "apply"  -> 1
      [] k.phase = "idle"   -> 0

\* No failure takes a call back to its write: the mask it composed when it was asked for
\* goes to the lock once, and is not sent again over what others have written or the app
\* has changed since; the mask is read back BLE_READ_ATTEMPTS times at most.
CallsAdvance ==
    [][\A c \in Calls : call[c].phase # "idle" /\ call'[c] # call[c]
                       => Remaining(call'[c]) < Remaining(call[c])]_vars

================================================================================
