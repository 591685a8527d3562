------------------------------- MODULE ConfigFlow ------------------------------
(***************************************************************************)
(* The configuration flows of one lock, over the lifecycle of its entry:   *)
(* flows started by a discovery or by hand, each in one of three setup     *)
(* modes, reauthentication, and the options.  Home Assistant keeps two     *)
(* flows with the same unique id, the address, from going on side by side; *)
(* a flow started by hand has none until its form is submitted.            *)
(***************************************************************************)
EXTENDS EntryLifecycle

CONSTANTS
    Flows,      \* configuration flows open at one time
    Choices,    \* the sets of options that are chosen
    MaxReloads  \* bound on the reloads waiting

ASSUME FlowConstants ==
    /\ Choices \subseteq SUBSET OptionNames
    /\ MaxReloads \in Nat

VARIABLE flow   \* each flow: where it is, and whether it has the unique id

vars == <<entry, status, reloads, listening, current, account, coord, task, reauth, flow>>

FlowModes  == {"cloud", "cloud_cutter", "local"}
FlowPhases == {"none", "menu", "form", "auth", "resolve", "fetch"}

NoFlow == [phase |-> "none", mode |-> "cloud", found |-> FALSE, uid |-> FALSE]

Nothing == [account |-> "none", ltmk |-> FALSE, mode |-> "cloud", options |-> {}]

\* What a flow stores: the account unless the mode is local, the key unless it is cloud.
NewEntry(mode, chosen) ==
    [account |-> IF mode = "local" THEN "none" ELSE "old",
     ltmk    |-> mode # "cloud",
     mode    |-> mode,
     options |-> (chosen \intersect {"realtime"}) \union {o \in {"offline"} : mode # "cloud"}]

\* No entry yet; or Home Assistant has just started with an entry made by a flow
\* before, or with an earlier one whose data lacks what a setup needs.
Init ==
    /\ LifecycleInit
    /\ \/ status = "absent" /\ entry = Nothing
       \/ /\ status = "not_loaded"
          /\ \/ entry \in {[Nothing EXCEPT !.account = a] : a \in {"none", "partial"}}
             \/ entry \in {NewEntry(m, chosen) : m \in FlowModes, chosen \in Choices}
    /\ flow = [f \in Flows |-> NoFlow]

--------------------------------------------------------------------------------
(* The unique id.                                                            *)

InProgress(f) == \E g \in Flows \ {f} : flow[g].uid

\* Mutant: the address is not checked at all.
MayTakeAlways(f) == TRUE

\* async_set_unique_id and _abort_if_unique_id_configured both let the flow go on.
MayTake(f) == ~InProgress(f) /\ status = "absent"

\* async_step_bluetooth, async_step_confirm: with the id from the beginning.
Discover(f) ==
    /\ flow[f].phase = "none"
    /\ MayTake(f)
    /\ flow' = [flow EXCEPT ![f] = [@ EXCEPT !.phase = "menu", !.found = TRUE, !.uid = TRUE]]
    /\ UNCHANGED lifecycle

\* The user closes the dialog.
Abandon(f) ==
    /\ flow[f].phase \in {"menu", "form"}
    /\ flow' = [flow EXCEPT ![f] = NoFlow]
    /\ UNCHANGED lifecycle

\* The entry is stored and the flow is over; Home Assistant sets the entry up.
Created(f, mode) ==
    /\ \E chosen \in Choices : entry' = NewEntry(mode, chosen)
    /\ status' = "not_loaded"
    /\ flow' = [flow EXCEPT ![f] = NoFlow]
    /\ UNCHANGED <<reloads, listening, current, account, coord, task, reauth>>

--------------------------------------------------------------------------------
(* The steps of a flow, with a cloud call between each and the next.         *)

\* The mode is picked in the menu; a form that is shown again keeps it.  A flow that
\* was opened by hand is nothing to anybody before its form is submitted (async_step_user):
\* it begins here, and is aborted here when the address is taken.
Submitted(f, mode) ==
    /\ \/ flow[f].phase \in {"none", "menu"}
       \/ flow[f].phase = "form" /\ flow[f].mode = mode
    /\ flow[f].found \/ MayTake(f)

SubmitCloud(f) ==
    /\ \E mode \in {"cloud", "cloud_cutter"} :
          /\ Submitted(f, mode)
          /\ flow' = [flow EXCEPT ![f] =
                         [@ EXCEPT !.phase = "auth", !.mode = mode, !.uid = TRUE]]
    /\ UNCHANGED lifecycle

GoesTo(f, phase) ==
    /\ flow' = [flow EXCEPT ![f].phase = phase]
    /\ UNCHANGED lifecycle

\* invalid_auth, cannot_connect, no_device, ltmk_fetch: the form is shown again.
CloudFails(f) ==
    /\ flow[f].phase \in {"auth", "resolve", "fetch"}
    /\ GoesTo(f, "form")

\* A device id that was typed in needs no look-up.
Authenticated(f) ==
    /\ flow[f].phase = "auth"
    /\ \/ GoesTo(f, "resolve")
       \/ flow[f].mode = "cloud_cutter" /\ GoesTo(f, "fetch")
       \/ flow[f].mode = "cloud" /\ Created(f, flow[f].mode)

Resolved(f) ==
    /\ flow[f].phase = "resolve"
    /\ \/ flow[f].mode = "cloud_cutter" /\ GoesTo(f, "fetch")
       \/ flow[f].mode = "cloud" /\ Created(f, flow[f].mode)

LtmkFetched(f) ==
    /\ flow[f].phase = "fetch"
    /\ Created(f, flow[f].mode)

\* A key that does not parse shows the form again and changes nothing.
SubmitLocal(f) ==
    /\ Submitted(f, "local")
    /\ Created(f, "local")

FlowStep(f) ==
    \/ Discover(f) \/ Abandon(f)
    \/ SubmitCloud(f) \/ CloudFails(f) \/ Authenticated(f) \/ Resolved(f)
    \/ LtmkFetched(f) \/ SubmitLocal(f)

--------------------------------------------------------------------------------
(* Reauthentication and options.                                             *)

\* Mutant: the new credentials are stored, the reload left to the update listener.
ReauthUpdatesOnly ==
    /\ reauth
    /\ reloads + 1 <= MaxReloads
    /\ reauth' = FALSE
    /\ Updated([entry EXCEPT !.account = "new"], 0)
    /\ UNCHANGED flow

\* async_update_reload_and_abort
ReauthSucceeds ==
    /\ reauth
    /\ reloads + 2 <= MaxReloads
    /\ reauth' = FALSE
    /\ Updated([entry EXCEPT !.account = "new"], 1)
    /\ UNCHANGED flow

\* Its form is closed; rejected credentials only show it again.
ReauthAbandoned ==
    /\ reauth
    /\ reauth' = FALSE
    /\ UNCHANGED <<entry, status, reloads, listening, current, account, coord, task, flow>>

\* The options form replaces the options; a local entry's form has no offline field.
OptionsSaved ==
    /\ status # "absent"
    /\ reloads + 1 <= MaxReloads
    /\ \E chosen \in Choices :
          Updated([entry EXCEPT !.options =
                      {o \in chosen : o = "offline" => entry.account # "none"}], 0)
    /\ UNCHANGED <<reauth, flow>>

Next ==
    \/ LifecycleStep /\ UNCHANGED flow
    \/ \E f \in Flows : FlowStep(f)
    \/ ReauthSucceeds \/ ReauthAbandoned \/ OptionsSaved

Spec == Init /\ [][Next]_vars

\* Setting up and unloading end, reloads begin, and what a task awaits is bounded, but
\* for the listen's window.  Nothing is assumed of users and flows.
FairSpec ==
    /\ Spec
    /\ WF_vars(EntryStep /\ UNCHANGED flow)
    /\ \A s \in Slots, t \in Tasks :
          WF_vars((Begin(s, t) \/ (t # "listen" /\ SessionEnds(s, t))
                   \/ Closed(s, t) \/ GapOver(s, t)) /\ UNCHANGED flow)

--------------------------------------------------------------------------------
(* Properties.                                                               *)

\* Every variable has its type.
TypeOK ==
    /\ entry \in [account : Accounts, ltmk : BOOLEAN, mode : Modes, options : SUBSET OptionNames]
    /\ status \in Statuses
    /\ reloads \in 0..MaxReloads
    /\ listening \in BOOLEAN
    /\ current \in Slots \union {NoSlot}
    /\ account \in Accounts
    /\ coord \in [Slots -> [ltmk : BOOLEAN, fetching : BOOLEAN, stop : BOOLEAN]]
    /\ task \in [Slots -> [Tasks -> [phase : Phases, tries : 0..(ReadAttempts - 1),
                                     outcome : Outcomes]]]
    /\ reauth \in BOOLEAN
    /\ flow \in [Flows -> [phase : FlowPhases, mode : FlowModes,
                           found : BOOLEAN, uid : BOOLEAN]]

\* What a background task may still be doing after the stop: disconnecting, or the
\* further attempts of the read it had begun.
WindingDown(k) ==
    \/ k.phase \in {"off", "closing", "gap"}
    \/ k.phase \in Sessions /\ k.tries > 0

\* An unloaded coordinator begins nothing new, although the cancellation of its tasks may
\* be swallowed by a disconnect and Home Assistant's wait for them may time out ("Stop
\* the battery poll (on unload)").
UnloadedIsWindingDown ==
    \A s \in Slots \ {current} :
        ~coord[s].fetching /\ \A t \in Background : WindingDown(task[s][t])

\* Steps that a task has left before it is over, at most, once it does not begin anew.
StepsLeft(k) ==
    LET more == 3 * (ReadAttempts - k.tries)
    IN  CASE k.phase = "ready"     -> 3 * ReadAttempts + 2
          [] k.phase = "gap"       -> more + 2
          [] k.phase \in Sessions  -> more + 1
          [] k.phase = "closing"   -> more
          [] k.phase = "off"       -> 0

\* It does end: whatever a task of an unloaded coordinator does, a service call that an
\* unload leaves alone included, brings it closer to its end, so that the coordinator
\* is gone, and no longer meets the new one at the lock, after a bounded number of steps.
UnloadedWindsDown ==
    [][\A s \in Slots \ {current}, t \in Tasks :
          task'[s][t] # task[s][t] => StepsLeft(task'[s][t]) < StepsLeft(task[s][t])]_vars

\* With no reload to come, the coordinator that runs was made from the entry as it is
\* now: whatever was saved while it was set up or unloaded has reached it.
RunsOnCurrentEntry ==
    status = "loaded" /\ reloads = 0 =>
        /\ account = entry.account
        /\ task[current]["listen"].phase # "off" <=> "realtime" \in entry.options
        /\ task[current]["battery"].phase # "off" <=> "poll" \in entry.options

\* On an entry set up with its key the cloud is contacted in a service call only:
\* options, reloads and failing fetches do not bring it back into what goes on by itself,
\* nor does a failed login, although it has a reauthentication put an account into the
\* entry ("control is 100% local (cloud only for the voice-OTA language change)").
LocalUnlessCalled ==
    entry.mode \in {"cloud_cutter", "local"} =>
        \A s \in Slots :
            ~coord[s].fetching /\ \A t \in Background : task[s][t].phase # "cloud"

\* The lock is configured once, from whichever flows: no flow creates an entry in the
\* place of another ("This lock is already configured").
ConfiguredOnce ==
    [][status # "absent" => entry'.mode = entry.mode /\ entry'.ltmk = entry.ltmk]_vars

\* New credentials reach a running coordinator, unless the platforms cannot be
\* unloaded.
CredentialsTakeEffect ==
    entry.account = "new" ~> \/ status = "stuck"
                             \/ status = "loaded" /\ account = "new"

\* Home Assistant performs one operation at a time on the lock of an entry ("Serialize
\* Home Assistant lock operations per config entry").
OneOperationPerEntry ==
    \A s, r \in Slots :
        task[s]["call"].phase \in Sessions /\ task[r]["call"].phase \in Sessions => s = r

================================================================================
