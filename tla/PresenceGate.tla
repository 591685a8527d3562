------------------------------ MODULE PresenceGate -----------------------------
(***************************************************************************)
(* Operations served by the front keypad panel, which sleeps: adding and   *)
(* deleting credentials, enrolling a fingerprint, changing the language.   *)
(* The first three ask the lock whether the panel is awake and otherwise   *)
(* prompt for a key press and poll; the language change prompts at once.   *)
(* All prompts are one persistent notification: its id names the entry.    *)
(*                                                                         *)
(* The operation lock is used through what Coordinator promises of it,     *)
(* FairAccess.                                                             *)
(***************************************************************************)
EXTENDS Integers, SequencesExt

CONSTANTS
    Calls,             \* tasks that run one coordinator method each
    Methods,           \* the kinds of call that are made
    Polls,             \* DATA_PRESENCE_WINDOW_SECONDS / PRESENCE_POLL_SECONDS
    NotRead,           \* None: the credential table was never read
    MaxTable,          \* how many credentials the lock has room for
    LockMayNotAnswer,  \* can a frame or its reply get lost?
    KeypadMayDozeOff,  \* may the panel fall asleep between the gate and its use?
    CallsMayBeCancelled

Kinds == {"add", "delete", "enrol", "language", "read"}
Gated == {"add", "delete", "enrol"}

ASSUME GateConstants ==
    /\ Methods \subseteq Kinds
    /\ Polls \in Nat \ {0}
    /\ MaxTable \in Nat /\ NotRead \notin 0..MaxTable
    /\ {LockMayNotAnswer, KeypadMayDozeOff, CallsMayBeCancelled} \subseteq BOOLEAN

Phases  == {"idle", "queued", "check", "ask", "poll", "act", "reread"}
Results == {"none", "ok", "raised", "cancelled"}
Mishaps == {"none", "asleep", "failed", "refused"}

VARIABLES
    talking,   \* the call that holds the operation lock
    line,      \* calls waiting for it
    call,      \* each call's phase and local variables; its result when idle
    awake,     \* is the front panel awake?
    table,     \* number of credentials in the lock
    count,     \* _credential_count, the credentials sensor
    notified,  \* is the prompt shown?
    unheard    \* was the table changed without a re-read that brought an answer?
               \* (history variable)

vars == <<talking, line, call, awake, table, count, notified, unheard>>

Access == INSTANCE FairAccess WITH
    Tasks <- Calls, Values <- 0..MaxTable, shown <- count

\* History: landed, the lock has carried out what this call asked for; mishap, what came
\* between since the gate: the keypad fell asleep, the session of the write failed, or
\* the lock refused.
Idle == [phase |-> "idle", kind |-> "read", polls |-> 0, landed |-> FALSE,
         mishap |-> "none", result |-> "none"]

Init ==
    /\ talking = {}
    /\ line = <<>>
    /\ call = [c \in Calls |-> Idle]
    /\ awake \in BOOLEAN
    /\ table \in 0..MaxTable
    /\ count = NotRead
    /\ notified = FALSE
    /\ unheard = FALSE

--------------------------------------------------------------------------------
(* Waiting for the operation lock.                                           *)

FirstPhase(kind) ==
    CASE kind \in Gated     -> "check"
      [] kind = "language"  -> "act"
      [] kind = "read"      -> "reread"

MayStart(c) == talking = {} /\ (line # <<>> => Head(line) = c)

\* A language change prompts before it waits for the lock.
Request(c, kind) ==
    LET asked == [Idle EXCEPT !.kind = kind] IN
    /\ call[c].phase = "idle"
    /\ notified' = (notified \/ kind = "language")
    /\ \/ /\ MayStart(c) /\ Access!Start(c)
          /\ call' = [call EXCEPT ![c] = [asked EXCEPT !.phase = FirstPhase(kind)]]
       \/ /\ ~MayStart(c) /\ Access!Join(c)
          /\ call' = [call EXCEPT ![c] = [asked EXCEPT !.phase = "queued"]]
    /\ UNCHANGED <<awake, table, unheard>>

Granted(c) ==
    /\ call[c].phase = "queued"
    /\ Access!Start(c)
    /\ call' = [call EXCEPT ![c].phase = FirstPhase(call[c].kind)]
    /\ UNCHANGED <<awake, table, notified, unheard>>

\* The finally clauses: whoever leaves a prompt behind takes it down.
Prompting(c) == call[c].phase = "poll" \/ call[c].kind = "language"

\* Mutant: the prompt is taken down by exception handlers that miss a cancellation.
EndedUnlessHandled(c, result) ==
    /\ call' = [call EXCEPT ![c] =
                   [@ EXCEPT !.phase = "idle", !.polls = 0, !.result = result]]
    /\ notified' = (notified /\ (result = "cancelled" \/ ~Prompting(c)))

Ended(c, result) ==
    /\ call' = [call EXCEPT ![c] =
                   [@ EXCEPT !.phase = "idle", !.polls = 0, !.result = result]]
    /\ notified' = (notified /\ ~Prompting(c))

Leave(c, result) == Access!Finish(c) /\ Ended(c, result)

\* Out of reach by the time the lock is granted.
TurnedAway(c) ==
    /\ call[c].phase = "queued" /\ call[c].kind # "read"
    /\ Access!Refused(c)
    /\ Ended(c, "raised")
    /\ UNCHANGED <<awake, table, unheard>>

--------------------------------------------------------------------------------
(* _async_ensure_presence: the gate.                                         *)

\* async_read_front_connection: None when the session fails.
FrontConnection == {IF awake THEN "present" ELSE "asleep"}
                   \union (IF LockMayNotAnswer THEN {"none"} ELSE {})

\* Mutant: asks, and goes ahead whatever the answer.
CheckWithoutHeed(c) ==
    /\ call[c].phase = "check"
    /\ call' = [call EXCEPT ![c].phase = "act"]
    /\ UNCHANGED <<talking, line, awake, table, count, notified, unheard>>

Check(c) ==
    /\ call[c].phase = "check"
    /\ \E answer \in FrontConnection :
           call' = [call EXCEPT ![c].phase = IF answer = "present" THEN "act" ELSE "ask"]
    /\ UNCHANGED <<talking, line, awake, table, count, notified, unheard>>

\* _async_request_keypad_press: the event, the wake switch, the notification.
Ask(c) ==
    /\ call[c].phase = "ask"
    /\ call' = [call EXCEPT ![c] = [@ EXCEPT !.phase = "poll", !.polls = Polls]]
    /\ notified' = TRUE
    /\ UNCHANGED <<talking, line, awake, table, count, unheard>>

Poll(c) ==
    /\ call[c].phase = "poll" /\ call[c].polls > 0
    /\ \E answer \in FrontConnection :
          \/ /\ answer = "present"
             /\ call' = [call EXCEPT ![c] = [@ EXCEPT !.phase = "act", !.polls = 0]]
             /\ notified' = FALSE
          \/ /\ answer # "present"
             /\ call' = [call EXCEPT ![c] = [@ EXCEPT !.polls = call[c].polls - 1]]
             /\ UNCHANGED notified
    /\ UNCHANGED <<talking, line, awake, table, count, unheard>>

\* Mutant: a new window is opened instead.
WindowRepeats(c) ==
    /\ call[c].phase = "poll" /\ call[c].polls = 0
    /\ call' = [call EXCEPT ![c].phase = "ask"]
    /\ UNCHANGED <<talking, line, awake, table, count, notified, unheard>>

\* AqaraU200PresenceRequiredError
WindowElapsed(c) ==
    /\ call[c].phase = "poll" /\ call[c].polls = 0
    /\ UNCHANGED <<awake, table, count, unheard>>
    /\ Leave(c, "raised")

\* The table was changed and nobody reads it back.
Behind(c, landed) == unheard' = (unheard \/ (landed /\ call[c].kind # "language"))

\* The login is rejected, in any session (AqaraU200AuthenticationError).
Rejected(c) ==
    /\ LockMayNotAnswer
    /\ call[c].phase \in {"check", "poll", "act", "reread"}
    /\ Behind(c, call[c].landed)
    /\ UNCHANGED <<awake, table, count>>
    /\ Leave(c, "raised")

--------------------------------------------------------------------------------
(* The operations behind the gate, and the re-read that ends each of them.   *)

\* The lock carries a request out only while the panel is awake, and only what it can.
Feasible(c) ==
    /\ awake
    /\ call[c].kind \in {"add", "enrol"} => table < MaxTable
    /\ call[c].kind = "delete" => table > 0

TableAfter(kind) ==
    CASE kind \in {"add", "enrol"} -> table + 1
      [] kind = "delete"           -> table - 1
      [] kind = "language"         -> table

GoOn(c, landed, mishap) ==
    /\ table' = IF landed THEN TableAfter(call[c].kind) ELSE table
    /\ call' = [call EXCEPT ![c] =
                   [@ EXCEPT !.phase = "reread", !.landed = landed, !.mishap = mishap]]
    /\ UNCHANGED <<talking, line, awake, count, notified, unheard>>

\* Mutant: what brought no reply is sent again, whether or not it was carried out.
SendAgain(c) ==
    /\ call[c].phase = "act" /\ call[c].kind \in {"add", "delete"}
    /\ \/ Feasible(c) /\ GoOn(c, TRUE, call[c].mishap)
       \/ /\ LockMayNotAnswer /\ Feasible(c)
          /\ table' = TableAfter(call[c].kind)
          /\ UNCHANGED <<talking, line, call, awake, count, notified, unheard>>

\* add_visitor_password, delete_user through _async_one_read.  The lock does it; or it
\* refuses, with a status that is not zero; or it is asleep and silent; or the session
\* fails, before the request or after it.  The coordinator looks at none of this.
Send(c) ==
    /\ call[c].phase = "act" /\ call[c].kind \in {"add", "delete"}
    /\ \/ Feasible(c) /\ GoOn(c, TRUE, call[c].mishap)
       \/ awake /\ GoOn(c, FALSE, "refused")
       \/ ~awake /\ GoOn(c, FALSE, call[c].mishap)
       \/ LockMayNotAnswer /\ \E landed \in {Feasible(c), FALSE} : GoOn(c, landed, "failed")

\* Mutant: the report the lock ends with is not looked at.
DriveUnchecked(c) ==
    /\ call[c].phase = "act" /\ call[c].kind \in {"enrol", "language"}
    /\ \E landed \in {Feasible(c), FALSE} : GoOn(c, landed, call[c].mishap)

\* async_enrol_credential, change_language: what the lock does not report as done
\* raises, even if it was done.  Nobody need present a finger or press in time, and
\* here too the lock may refuse.
Drive(c) ==
    /\ call[c].phase = "act" /\ call[c].kind \in {"enrol", "language"}
    /\ \E landed \in {Feasible(c), FALSE} :
          \/ landed /\ GoOn(c, TRUE, call[c].mishap)
          \/ /\ landed => LockMayNotAnswer
             /\ table' = IF landed THEN TableAfter(call[c].kind) ELSE table
             /\ Behind(c, landed)
             /\ UNCHANGED <<awake, count>>
             /\ Leave(c, "raised")

\* Mutants: an empty answer is stored as an empty table; only a refresh stores.
RereadEmpty(c) ==
    /\ call[c].phase = "reread"
    /\ UNCHANGED <<awake, table, unheard>>
    /\ count' = IF call[c].kind = "language" THEN count ELSE IF awake THEN table ELSE 0
    /\ Leave(c, "ok")

RereadOnRefreshOnly(c) ==
    /\ call[c].phase = "reread"
    /\ UNCHANGED <<awake, table>>
    /\ \/ /\ awake /\ table > 0
          /\ count' = IF call[c].kind = "read" THEN table ELSE count
          /\ unheard' = FALSE
       \/ /\ ~awake \/ table = 0 \/ LockMayNotAnswer
          /\ Behind(c, call[c].landed)
          /\ UNCHANGED count
    /\ Leave(c, "ok")

\* async_read_user_table: an empty table counts as no answer, and no answer after
\* the last attempt changes nothing.  A language change reads nothing back.
Reread(c) ==
    /\ call[c].phase = "reread"
    /\ UNCHANGED <<awake, table>>
    /\ \/ /\ call[c].kind # "language" /\ awake /\ table > 0
          /\ count' = table
          /\ unheard' = FALSE
       \/ /\ call[c].kind # "language" /\ (~awake \/ table = 0 \/ LockMayNotAnswer)
          /\ Behind(c, call[c].landed)
          /\ UNCHANGED count
       \/ /\ call[c].kind = "language"
          /\ UNCHANGED <<count, unheard>>
    /\ Leave(c, "ok")

\* The calling task is cancelled: unload, or a script that is stopped.  A request
\* that is on its way may still be carried out.
Cancel(c) ==
    /\ CallsMayBeCancelled
    /\ \/ /\ call[c].phase = "queued"
          /\ Access!GiveUp(c)
          /\ Ended(c, "cancelled")
          /\ UNCHANGED <<table, unheard>>
       \/ /\ call[c].phase \in Phases \ {"idle", "queued"}
          /\ table' \in {table, IF Feasible(c) /\ call[c].phase = "act"
                               THEN TableAfter(call[c].kind) ELSE table}
          /\ Behind(c, call[c].landed \/ table' # table)
          /\ UNCHANGED count
          /\ Leave(c, "cancelled")
    /\ UNCHANGED awake

--------------------------------------------------------------------------------
(* The front panel: a touch or a fingerbot wakes it, after a while it sleeps. *)

KeypadWakes ==
    /\ ~awake
    /\ awake' = TRUE
    /\ UNCHANGED <<talking, line, call, table, count, notified, unheard>>

KeypadSleeps ==
    /\ awake
    /\ KeypadMayDozeOff \/ \A c \in Calls : call[c].phase \notin {"act", "reread"}
    /\ awake' = FALSE
    /\ call' = [c \in Calls |->
                   [call[c] EXCEPT !.mishap = IF call[c].phase = "act" THEN "asleep" ELSE @]]
    /\ UNCHANGED <<talking, line, table, count, notified, unheard>>

CallStep(c) ==
    \/ Granted(c) \/ Check(c) \/ Ask(c) \/ Poll(c) \/ WindowElapsed(c)
    \/ Send(c) \/ Drive(c) \/ Reread(c)

Next ==
    \/ \E c \in Calls :
          \/ \E kind \in Methods : Request(c, kind)
          \/ CallStep(c) \/ TurnedAway(c) \/ Rejected(c) \/ Cancel(c)
    \/ KeypadWakes \/ KeypadSleeps

Spec == Init /\ [][Next]_vars

\* Every session is bounded by a timeout, so is the sleep between two polls.
FairSpec == Spec /\ \A c \in Calls : WF_vars(CallStep(c))

--------------------------------------------------------------------------------
(* Properties.                                                               *)

\* Every variable has its type; the keypad is polled for one window at most.
TypeOK ==
    /\ talking \subseteq Calls
    /\ line \in Seq(Calls)
    /\ call \in [Calls -> [phase : Phases, kind : Kinds, polls : 0..Polls,
                           landed : BOOLEAN, mishap : Mishaps, result : Results]]
    /\ awake \in BOOLEAN /\ notified \in BOOLEAN /\ unheard \in BOOLEAN
    /\ table \in 0..MaxTable
    /\ count \in {NotRead} \union 1..MaxTable

\* A prompt never outlives the calls it is for: no path, error or cancellation
\* leaves "press the keypad" on the screen.
NoLeftoverPrompt ==
    notified => \E c \in Calls : call[c].phase # "idle" /\ Prompting(c)

\* Whoever waits for a key press is still asking for it ("raise a persistent
\* notification BEFORE starting ... a person can press it by hand").
PromptStays ==
    \A c \in Calls :
        call[c].phase = "poll" \/ (call[c].phase = "act" /\ call[c].kind = "language")
        => notified

Succeeded(c) == call[c].phase = "idle" /\ call[c].result = "ok"

\* An enrolment or a language change that returns normally was carried out.
DrivenSuccessIsReal ==
    \A c \in Calls : Succeeded(c) /\ call[c].kind \in {"enrol", "language"} => call[c].landed

\* So was a credential write ("a credential write never looks like it worked when
\* it didn't").
CredentialSuccessIsReal ==
    \A c \in Calls : Succeeded(c) /\ call[c].kind \in {"add", "delete"} => call[c].landed

\* That much holds: a credential write that ends without an error was carried out,
\* unless the lock refused it, its own session failed, or the keypad fell asleep between
\* the gate and the write.  None is sent to a keypad that slept all along: who passes the
\* gate has found it awake, whatever prompts, polls and other calls came before ("presence
\* is enforced rather than hoped for").
GatedWriteIsReal ==
    \A c \in Calls :
        Succeeded(c) /\ call[c].kind \in {"add", "delete"} /\ call[c].mishap = "none"
        => call[c].landed

\* Whenever the radio is free, the credentials sensor shows the lock's table, unless
\* a change was followed by no answer: lost, asleep, cancelled, or an empty table
\* ("so the count updates immediately", "so the count drops immediately").
CountFollowsTable == talking = {} => count \in {NotRead, table} \/ unheard

\* How many steps of its own a call has left at most.
Remaining(k) ==
    CASE k.phase = "queued" -> Polls + 6
      [] k.phase = "check"  -> Polls + 5
      [] k.phase = "ask"    -> Polls + 4
      [] k.phase = "poll"   -> k.polls + 3
      [] k.phase = "act"    -> 2
      [] k.phase = "reread" -> 1
      [] k.phase = "idle"   -> 0

\* No answer, error or cancellation takes a call back: it looks at the keypad once,
\* prompts once, polls for one window, acts once and reads back once, so that it holds
\* the operation lock no longer than that although nobody comes to press a key.
CallsAdvance ==
    [][\A c \in Calls :
          call[c].phase # "idle"
          /\ (call'[c].phase # call[c].phase \/ call'[c].polls # call[c].polls)
          => Remaining(call'[c]) < Remaining(call[c])]_vars

\* The credential table changes only in a call's single attempt and as that call asks:
\* a request whose reply was lost is not sent once more, so nothing is added twice.
AttemptedOnce ==
    [][table' # table =>
          \E c \in Calls : /\ call[c].phase = "act" /\ call'[c].phase \in {"reread", "idle"}
                           /\ table' = TableAfter(call[c].kind)]_vars

\* Every gated call ends, whether or not anybody comes to wake the keypad.
EveryCallEnds == \A c \in Calls : call[c].phase # "idle" ~> call[c].phase = "idle"

================================================================================
