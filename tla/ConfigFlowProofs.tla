---------------------------- MODULE ConfigFlowProofs ---------------------------
(* Theorems about ConfigFlow and the EntryLifecycle under it, for any number   *)
(* of coordinators, flows, read attempts, choices of options and reloads.      *)
EXTENDS ConfigFlow, TLAPS

--------------------------------------------------------------------------------
(* The parts of the inductive invariant.                                     *)

Up == {"setup", "loaded", "unloading", "stuck"}   \* statuses with a coordinator

\* The status decides whether there is a coordinator and an update listener.
StatusInv ==
    /\ status \in Up <=> current \in Slots
    /\ listening <=> status \in Up \ {"setup"}
    /\ current \in Slots => ~coord[current].stop

\* Before there is an entry there is nothing else.
AbsentInv ==
    status = "absent" => /\ ~reauth
                         /\ \A s \in Slots : Silent(s)

\* Records of tasks; the current coordinator's are never cancelled.
TaskInv ==
    \A s \in Slots, t \in Tasks :
        /\ task[s][t].phase = "off" => task[s][t].outcome = "none"
        /\ task[s][t].phase = "gap" => task[s][t].tries > 0
        /\ s = current => task[s][t].outcome # "cancelled"

\* An unloaded coordinator was told to stop, and does.
UnloadedInv ==
    \A s \in Slots \ {current} :
        /\ coord[s].stop /\ ~coord[s].fetching
        /\ \A t \in Background : WindingDown(task[s][t])

\* What is being set up has the entry's account, or a reload is to come.
SettingUpInv ==
    status = "setup" =>
        /\ account = entry.account \/ reloads > 0
        /\ \A t \in Background : task[current][t].phase = "off"

\* One flow at a time has the unique id, and only while there is no entry.
FlowInv ==
    \A f \in Flows :
        /\ flow[f].uid => /\ status = "absent"
                          /\ \A g \in Flows : flow[g].uid => g = f
        /\ flow[f].phase # "none" \/ flow[f].found => flow[f].uid

WithKey == entry.mode \in {"cloud_cutter", "local"}

\* With a stored key every coordinator that does anything has it.
KeyInv ==
    WithKey =>
        /\ entry.ltmk
        /\ current \in Slots => coord[current].ltmk
        /\ \A s \in Slots :
              /\ ~coord[s].fetching
              /\ \A t \in Tasks : task[s][t].phase # "off" => coord[s].ltmk
              /\ \A t \in Background : task[s][t].phase # "cloud"

IInv ==
    /\ TypeOK /\ StatusInv /\ AbsentInv /\ TaskInv /\ UnloadedInv
    /\ SettingUpInv /\ RunsOnCurrentEntry /\ FlowInv /\ KeyInv

--------------------------------------------------------------------------------
(* Type correctness.                                                         *)

TaskRecords  == [phase : Phases, tries : 0..(ReadAttempts - 1), outcome : Outcomes]
CoordRecords == [ltmk : BOOLEAN, fetching : BOOLEAN, stop : BOOLEAN]
FlowRecords  == [phase : FlowPhases, mode : FlowModes, found : BOOLEAN, uid : BOOLEAN]
EntryRecords == [account : Accounts, ltmk : BOOLEAN, mode : Modes,
                 options : SUBSET OptionNames]

\* The part of TypeOK that the lifecycle can disturb.
LifecycleType ==
    /\ status \in Statuses
    /\ reloads \in 0..MaxReloads
    /\ listening \in BOOLEAN
    /\ current \in Slots \union {NoSlot}
    /\ account \in Accounts
    /\ coord \in [Slots -> CoordRecords]
    /\ task \in [Slots -> [Tasks -> TaskRecords]]
    /\ reauth \in BOOLEAN

LEMMA TypeParts ==
    TypeOK <=> /\ entry \in EntryRecords
               /\ LifecycleType
               /\ flow \in [Flows -> FlowRecords]
  BY DEF TypeOK, LifecycleType, EntryRecords, CoordRecords, TaskRecords, FlowRecords

LEMMA OffType == Off \in TaskRecords
  BY LifecycleConstants DEF Off, TaskRecords, Phases, Outcomes

\* One task becomes a record, and no other changes.
LEMMA BecomesFacts ==
    ASSUME task \in [Slots -> [Tasks -> TaskRecords]],
           NEW s \in Slots, NEW t \in Tasks, NEW k \in TaskRecords, Becomes(s, t, k)
    PROVE  /\ task' \in [Slots -> [Tasks -> TaskRecords]]
           /\ task'[s][t] = k
           /\ \A r \in Slots, u \in Tasks : r # s \/ u # t => task'[r][u] = task[r][u]
  BY DEF Becomes

LEMMA CancelledType ==
    ASSUME NEW k \in TaskRecords
    PROVE  Cancelled(k) \in TaskRecords
  BY OffType DEF Cancelled, TaskRecords, Phases, Sessions, Holding, Outcomes

LEMMA RetriedFacts ==
    ASSUME LifecycleType, NEW s \in Slots, NEW t \in Tasks, NEW k \in Retried(s, t)
    PROVE  k \in TaskRecords /\ k.phase = "gap" /\ k.tries > 0
           /\ k.outcome = task[s][t].outcome /\ k.tries = task[s][t].tries + 1
  <1> DEFINE j == task[s][t]
  <1>1. j \in TaskRecords /\ j.tries \in 0..(ReadAttempts - 1) /\ j.outcome \in Outcomes
    BY DEF LifecycleType, TaskRecords
  <1>2. k = Again(j) /\ j.tries < ReadAttempts - 1
    BY DEF Retried
  <1>3. j.tries + 1 \in 0..(ReadAttempts - 1) /\ j.tries + 1 > 0
    BY <1>1, <1>2, LifecycleConstants
  <1> HIDE DEF j
  <1>4. "gap" \in Phases
    BY DEF Phases, Holding
  <1>5. k = [phase |-> "gap", tries |-> j.tries + 1, outcome |-> j.outcome]
    BY <1>1, <1>2 DEF Again, TaskRecords
  <1>6. QED
    BY <1>1, <1>3, <1>4, <1>5 DEF TaskRecords, j

LEMMA AfterType ==
    ASSUME LifecycleType, NEW s \in Slots, NEW t \in Tasks, NEW k \in After(s, t)
    PROVE  k \in TaskRecords
  <1>1. [Off EXCEPT !.phase = "ready"] \in TaskRecords
    BY OffType DEF TaskRecords, Phases
  <1>2. k \in GoneOn(s, t) => k \in TaskRecords
    BY <1>1, OffType DEF GoneOn
  <1>3. k \in Retried(s, t) => k \in TaskRecords
    BY RetriedFacts
  <1>4. task[s][t].outcome \in Outcomes
    BY DEF LifecycleType, TaskRecords
  <1>5. QED
    BY <1>2, <1>3, <1>4, OffType DEF After, Outcomes

LEMMA TaskStepType ==
    ASSUME LifecycleType, NEW s \in Slots, NEW t \in Tasks, TaskStep(s, t)
    PROVE  LifecycleType'
  <1> USE DEF LifecycleType
  <1>0. task[s][t] \in TaskRecords /\ Contact(s, t) \subseteq Phases
    BY DEF Contact, Phases, Holding, Sessions
  <1>1. CASE Begin(s, t)
    <2>1. PICK p \in Contact(s, t) : Becomes(s, t, [Off EXCEPT !.phase = p])
      BY <1>1 DEF Begin
    <2>2. [Off EXCEPT !.phase = p] \in TaskRecords
      BY <1>0, OffType DEF TaskRecords
    <2>3. QED
      BY <1>1, <2>1, <2>2, BecomesFacts DEF Begin
  <1>2. CASE SessionEnds(s, t)
    <2>1. [task[s][t] EXCEPT !.phase = "closing"] \in TaskRecords
      BY <1>0 DEF TaskRecords, Phases, Holding
    <2>2. QED
      BY <1>2, <2>1, BecomesFacts DEF SessionEnds
  <1>3. CASE LoginRejected(s, t)
    <2>1. [task[s][t] EXCEPT !.phase = "closing", !.outcome = "rejected"] \in TaskRecords
      BY <1>0 DEF TaskRecords, Phases, Holding, Outcomes
    <2>2. QED
      BY <1>3, <2>1, BecomesFacts DEF LoginRejected
  <1>4. CASE Closed(s, t)
    <2>1. PICK k \in After(s, t) : Becomes(s, t, k)
      BY <1>4 DEF Closed
    <2>2. task' \in [Slots -> [Tasks -> TaskRecords]]
      BY <2>1, AfterType, BecomesFacts
    <2>3. coord' \in [Slots -> CoordRecords]
      BY <1>4 DEF Closed, Blank, CoordRecords
    <2>4. reauth' \in BOOLEAN
      BY <1>4 DEF Closed
    <2>5. QED
      BY <1>4, <2>2, <2>3, <2>4 DEF Closed
  <1>5. CASE GapOver(s, t)
    <2>1. PICK p \in Contact(s, t) : Becomes(s, t, [task[s][t] EXCEPT !.phase = p])
      BY <1>5 DEF GapOver
    <2>2. [task[s][t] EXCEPT !.phase = p] \in TaskRecords
      BY <1>0 DEF TaskRecords
    <2>3. QED
      BY <1>5, <2>1, <2>2, BecomesFacts DEF GapOver
  <1>6. QED
    BY <1>1, <1>2, <1>3, <1>4, <1>5 DEF TaskStep

LEMMA LifecycleStepType ==
    ASSUME TypeOK, StatusInv, LifecycleStep
    PROVE  LifecycleType' /\ entry' = entry
  <1> USE LifecycleConstants DEF LifecycleType
  <1>0. LifecycleType /\ entry \in EntryRecords
    BY TypeParts
  <1>1. ASSUME NEW s \in Slots, SetUp(s)
        PROVE  LifecycleType' /\ entry' = entry
    BY <1>0, <1>1 DEF SetUp, Statuses, Blank, CoordRecords, EntryRecords
  <1>2. CASE SetUpRefused
    BY <1>0, <1>2 DEF SetUpRefused, Statuses
  <1>3. CASE SetUpDone
    <2>1. current \in Slots
      BY <1>3 DEF SetUpDone, StatusInv, Up
    <2>2. [Off EXCEPT !.phase = "ready"] \in TaskRecords
      BY OffType DEF TaskRecords, Phases
    <2>3. task' \in [Slots -> [Tasks -> TaskRecords]]
      BY <1>0, <1>3, <2>1, <2>2 DEF SetUpDone
    <2>4. Fetches(current) \in BOOLEAN
      BY <1>0, <2>1 DEF Fetches, CoordRecords
    <2>5. coord' \in [Slots -> CoordRecords]
      BY <1>0, <1>3, <2>1, <2>4 DEF SetUpDone, CoordRecords
    <2>6. QED
      BY <1>0, <1>3, <2>3, <2>5 DEF SetUpDone, Statuses
  <1>4. CASE StartReload
    BY <1>0, <1>4, FlowConstants DEF StartReload, Statuses
  <1>5. CASE Unloaded
    <2>1. current \in Slots
      BY <1>5 DEF Unloaded, StatusInv, Up
    <2>2. task' \in [Slots -> [Tasks -> TaskRecords]]
      BY <1>0, <1>5, <2>1, CancelledType DEF Unloaded
    <2>3. coord' \in [Slots -> CoordRecords]
      BY <1>0, <1>5, <2>1 DEF Unloaded, Blank, Stopped, CoordRecords
    <2>4. QED
      BY <1>0, <1>5, <2>2, <2>3 DEF Unloaded, Statuses, Accounts
  <1>6. CASE UnloadFails
    BY <1>0, <1>6 DEF UnloadFails, Statuses
  <1>7. CASE StartCall
    <2>1. current \in Slots /\ "call" \in Tasks
      BY <1>7 DEF StartCall, Tasks
    <2>2. [Off EXCEPT !.phase = "ready"] \in TaskRecords
      BY OffType DEF TaskRecords, Phases
    <2>3. QED
      BY <1>0, <1>7, <2>1, <2>2, BecomesFacts DEF StartCall
  <1>8. ASSUME NEW s \in Slots, Fetched(s)
        PROVE  LifecycleType' /\ entry' = entry
    <2>1. PICK got \in BOOLEAN :
              coord' = [coord EXCEPT ![s] = [coord[s] EXCEPT !.ltmk = got, !.fetching = FALSE]]
      BY <1>8 DEF Fetched
    <2>2. [coord[s] EXCEPT !.ltmk = got, !.fetching = FALSE] \in CoordRecords
      BY <1>0 DEF CoordRecords
    <2>3. coord' \in [Slots -> CoordRecords]
      BY <1>0, <2>1, <2>2
    <2>4. QED
      BY <1>0, <1>8, <2>3 DEF Fetched
  <1>9. ASSUME NEW s \in Slots, NEW t \in Tasks, TaskStep(s, t)
        PROVE  LifecycleType' /\ entry' = entry
    <2>1. entry' = entry
      BY <1>9 DEF TaskStep, Begin, SessionEnds, LoginRejected, Closed, GapOver
    <2>2. QED
      BY <1>0, <1>9, <2>1, TaskStepType
  <1>10. QED
    BY <1>1, <1>2, <1>3, <1>4, <1>5, <1>6, <1>7, <1>8, <1>9 DEF LifecycleStep, EntryStep

\* What a flow is after a step that creates no entry.
Moves(f, rec) ==
    /\ flow' = [flow EXCEPT ![f] = rec]
    /\ rec.uid => flow[f].uid \/ MayTake(f)
    /\ rec.phase # "none" \/ rec.found => rec.uid

Creates(f) ==
    /\ flow[f].uid \/ MayTake(f)
    /\ \E mode \in FlowModes : Created(f, mode)

LEMMA GoesToMoves ==
    ASSUME TypeOK, FlowInv, NEW f \in Flows, NEW phase \in FlowPhases,
           GoesTo(f, phase), flow[f].phase # "none"
    PROVE  UNCHANGED lifecycle /\ \E rec \in FlowRecords : Moves(f, rec)
  <1> DEFINE rec == [flow[f] EXCEPT !.phase = phase]
  <1>1. flow[f] \in FlowRecords /\ flow[f].uid
    BY DEF TypeOK, FlowInv, FlowRecords
  <1>2. rec \in FlowRecords /\ rec.uid /\ rec.found = flow[f].found
    BY <1>1 DEF FlowRecords
  <1>3. flow' = [flow EXCEPT ![f] = rec] /\ UNCHANGED lifecycle
    BY DEF GoesTo
  <1>4. QED
    BY <1>1, <1>2, <1>3 DEF Moves

LEMMA FlowCases ==
    ASSUME TypeOK, FlowInv, NEW f \in Flows, FlowStep(f)
    PROVE  \/ UNCHANGED lifecycle /\ \E rec \in FlowRecords : Moves(f, rec)
           \/ Creates(f)
  <1>0. /\ flow[f] \in FlowRecords
        /\ flow[f].phase # "none" \/ flow[f].found => flow[f].uid
    BY DEF TypeOK, FlowInv, FlowRecords
  <1>n. NoFlow \in FlowRecords
    BY DEF NoFlow, FlowRecords, FlowPhases, FlowModes
  <1>1. CASE Discover(f)
    <2> DEFINE rec == [flow[f] EXCEPT !.phase = "menu", !.found = TRUE, !.uid = TRUE]
    <2>1. rec \in FlowRecords /\ rec.uid
      BY <1>0 DEF FlowRecords, FlowPhases
    <2>2. QED
      BY <1>1, <2>1 DEF Discover, Moves
  <1>2. CASE Abandon(f)
    BY <1>2, <1>n DEF Abandon, Moves, NoFlow
  <1>3. CASE SubmitCloud(f)
    <2>1. PICK mode \in {"cloud", "cloud_cutter"} :
              /\ Submitted(f, mode)
              /\ flow' = [flow EXCEPT ![f] =
                             [flow[f] EXCEPT !.phase = "auth", !.mode = mode, !.uid = TRUE]]
      BY <1>3 DEF SubmitCloud
    <2> DEFINE rec == [flow[f] EXCEPT !.phase = "auth", !.mode = mode, !.uid = TRUE]
    <2>2. rec \in FlowRecords /\ rec.uid
      BY <1>0 DEF FlowRecords, FlowPhases, FlowModes
    <2>3. flow[f].uid \/ MayTake(f)
      BY <1>0, <2>1 DEF Submitted
    <2>4. QED
      BY <1>3, <2>1, <2>2, <2>3 DEF SubmitCloud, Moves
  <1>4. CASE CloudFails(f)
    BY <1>4, GoesToMoves DEF CloudFails, FlowPhases
  <1>5. CASE Authenticated(f)
    <2>1. GoesTo(f, "resolve") \/ GoesTo(f, "fetch")
          => UNCHANGED lifecycle /\ \E rec \in FlowRecords : Moves(f, rec)
      BY <1>5, GoesToMoves DEF Authenticated, FlowPhases
    <2>2. QED
      BY <1>0, <1>5, <2>1 DEF Authenticated, Creates, FlowModes
  <1>6. CASE Resolved(f)
    <2>1. GoesTo(f, "fetch")
          => UNCHANGED lifecycle /\ \E rec \in FlowRecords : Moves(f, rec)
      BY <1>6, GoesToMoves DEF Resolved, FlowPhases
    <2>2. QED
      BY <1>0, <1>6, <2>1 DEF Resolved, Creates, FlowModes
  <1>7. CASE LtmkFetched(f)
    <2>1. flow[f].mode \in FlowModes
      BY <1>0 DEF FlowRecords
    <2>2. QED
      BY <1>0, <1>7, <2>1 DEF LtmkFetched, Creates
  <1>8. CASE SubmitLocal(f)
    BY <1>0, <1>8 DEF SubmitLocal, Submitted, Creates, FlowModes
  <1>9. QED
    BY <1>1, <1>2, <1>3, <1>4, <1>5, <1>6, <1>7, <1>8 DEF FlowStep

LEMMA NewEntryType ==
    ASSUME NEW mode \in FlowModes, NEW chosen \in SUBSET OptionNames
    PROVE  NewEntry(mode, chosen) \in EntryRecords
  <1>1. (chosen \intersect {"realtime"}) \union {o \in {"offline"} : mode # "cloud"}
            \in SUBSET OptionNames
    BY DEF OptionNames
  <1>2. QED
    BY <1>1 DEF NewEntry, EntryRecords, Accounts, Modes, FlowModes

\* A flow in a mode with a key stores the key.
LEMMA NewEntryFacts ==
    ASSUME NEW mode \in FlowModes, NEW chosen
    PROVE  NewEntry(mode, chosen).mode \in {"cloud_cutter", "local"}
           => NewEntry(mode, chosen).ltmk
  BY DEF NewEntry, FlowModes

LEMMA UpdatedType ==
    ASSUME TypeOK, NEW new \in EntryRecords, NEW scheduled \in Nat,
           reloads + scheduled + 1 <= MaxReloads, Updated(new, scheduled),
           reauth' \in BOOLEAN
    PROVE  LifecycleType' /\ entry' \in EntryRecords
  <1>1. reloads' \in 0..MaxReloads
    BY FlowConstants DEF TypeOK, Updated
  <1>2. QED
    BY <1>1, TypeParts DEF Updated, LifecycleType

LEMMA NextType ==
    ASSUME TypeOK, StatusInv, FlowInv, [Next]_vars
    PROVE  TypeOK'
  <1> USE DEF lifecycle
  <1>0. LifecycleType /\ entry \in EntryRecords /\ flow \in [Flows -> FlowRecords]
    BY TypeParts
  <1>t. TypeOK' <=> entry' \in EntryRecords /\ LifecycleType'
                    /\ flow' \in [Flows -> FlowRecords]
    BY DEF TypeOK, LifecycleType, EntryRecords, CoordRecords, TaskRecords, FlowRecords
  <1>1. CASE LifecycleStep /\ UNCHANGED flow
    BY <1>0, <1>t, <1>1, LifecycleStepType
  <1>2. ASSUME NEW f \in Flows, FlowStep(f)
        PROVE  TypeOK'
    <2>1. CASE UNCHANGED lifecycle /\ \E rec \in FlowRecords : Moves(f, rec)
      BY <1>0, <1>t, <2>1 DEF Moves, LifecycleType
    <2>2. CASE Creates(f)
      <3>1. PICK mode \in FlowModes, chosen \in Choices :
                /\ entry' = NewEntry(mode, chosen)
                /\ Created(f, mode)
        BY <2>2 DEF Creates, Created
      <3>2. entry' \in EntryRecords
        BY <3>1, NewEntryType, FlowConstants
      <3>3. flow' \in [Flows -> FlowRecords]
        BY <1>0, <3>1 DEF Created, NoFlow, FlowRecords, FlowPhases, FlowModes
      <3>4. LifecycleType'
        BY <1>0, <3>1 DEF Created, LifecycleType, Statuses
      <3>5. QED
        BY <1>t, <3>2, <3>3, <3>4
    <2>3. QED
      BY <1>2, <2>1, <2>2, FlowCases
  <1>3. CASE ReauthSucceeds
    <2>1. [entry EXCEPT !.account = "new"] \in EntryRecords
      BY <1>0 DEF EntryRecords, Accounts
    <2>2. reloads + 1 + 1 <= MaxReloads
      BY <1>0, <1>3, FlowConstants DEF ReauthSucceeds, LifecycleType
    <2>3. QED
      BY <1>0, <1>t, <1>3, <2>1, <2>2, UpdatedType DEF ReauthSucceeds
  <1>4. CASE ReauthAbandoned
    BY <1>0, <1>t, <1>4 DEF ReauthAbandoned, LifecycleType
  <1>5. CASE OptionsSaved
    <2>1. PICK chosen \in Choices :
              Updated([entry EXCEPT !.options =
                          {o \in chosen : o = "offline" => entry.account # "none"}], 0)
      BY <1>5 DEF OptionsSaved
    <2>2. [entry EXCEPT !.options =
              {o \in chosen : o = "offline" => entry.account # "none"}] \in EntryRecords
      BY <1>0, FlowConstants DEF EntryRecords
    <2>3. reloads + 0 + 1 <= MaxReloads /\ reauth' \in BOOLEAN
      BY <1>0, <1>5, FlowConstants DEF OptionsSaved, LifecycleType
    <2>4. QED
      BY <1>0, <1>t, <1>5, <2>1, <2>2, <2>3, UpdatedType DEF OptionsSaved
  <1>6. CASE UNCHANGED vars
    BY <1>0, <1>t, <1>6 DEF vars, LifecycleType
  <1>7. QED
    BY <1>1, <1>2, <1>3, <1>4, <1>5, <1>6 DEF Next

--------------------------------------------------------------------------------
(* What a step does, in a few kinds.                                         *)

LEMMA StepsLeftIs ==
    ASSUME NEW k \in TaskRecords
    PROVE  /\ ReadAttempts \in Nat /\ k.tries \in 0..(ReadAttempts - 1)
           /\ k.phase = "off" => StepsLeft(k) = 0
           /\ k.phase = "closing" => StepsLeft(k) = 3 * (ReadAttempts - k.tries)
           /\ k.phase \in {"cloud", "local"} => StepsLeft(k) = 3 * (ReadAttempts - k.tries) + 1
           /\ k.phase = "gap" => StepsLeft(k) = 3 * (ReadAttempts - k.tries) + 2
           /\ k.phase = "ready" => StepsLeft(k) = 3 * ReadAttempts + 2
  <1>1. ReadAttempts \in Nat /\ k.tries \in 0..(ReadAttempts - 1)
    BY LifecycleConstants DEF TaskRecords
  <1>2. QED
    BY <1>1 DEF StepsLeft, Sessions

\* The ways in which a stopped task gets on.
LEMMA StepsLeftShrinks ==
    ASSUME NEW j \in TaskRecords, NEW k \in TaskRecords,
           \/ j.phase \in Sessions /\ k.phase = "closing" /\ k.tries = j.tries
           \/ j.phase = "closing" /\ k.phase = "off"
           \/ j.phase = "closing" /\ k.phase = "gap" /\ k.tries = j.tries + 1
           \/ j.phase = "gap" /\ k.phase \in Sessions /\ k.tries = j.tries
           \/ j.phase = "ready" /\ k.phase \in Sessions
    PROVE  StepsLeft(k) < StepsLeft(j)
  <1>1. /\ ReadAttempts \in Nat
        /\ j.tries \in 0..(ReadAttempts - 1) /\ k.tries \in 0..(ReadAttempts - 1)
    BY StepsLeftIs
  <1>2. CASE j.phase \in Sessions /\ k.phase = "closing" /\ k.tries = j.tries
    <2>1. /\ StepsLeft(j) = 3 * (ReadAttempts - j.tries) + 1
          /\ StepsLeft(k) = 3 * (ReadAttempts - j.tries)
      BY <1>2, StepsLeftIs DEF Sessions
    <2>2. QED
      BY <1>1, <2>1
  <1>3. CASE j.phase = "closing" /\ k.phase = "off"
    <2>1. StepsLeft(j) = 3 * (ReadAttempts - j.tries) /\ StepsLeft(k) = 0
      BY <1>3, StepsLeftIs
    <2>2. QED
      BY <1>1, <2>1
  <1>4. CASE j.phase = "closing" /\ k.phase = "gap" /\ k.tries = j.tries + 1
    <2>1. /\ StepsLeft(j) = 3 * (ReadAttempts - j.tries)
          /\ StepsLeft(k) = 3 * (ReadAttempts - (j.tries + 1)) + 2
      BY <1>4, StepsLeftIs
    <2>2. QED
      BY <1>1, <2>1
  <1>5. CASE j.phase = "gap" /\ k.phase \in Sessions /\ k.tries = j.tries
    <2>1. /\ StepsLeft(j) = 3 * (ReadAttempts - j.tries) + 2
          /\ StepsLeft(k) = 3 * (ReadAttempts - j.tries) + 1
      BY <1>5, StepsLeftIs DEF Sessions
    <2>2. QED
      BY <1>1, <2>1
  <1>6. CASE j.phase = "ready" /\ k.phase \in Sessions
    <2>1. /\ StepsLeft(j) = 3 * ReadAttempts + 2
          /\ StepsLeft(k) = 3 * (ReadAttempts - k.tries) + 1
      BY <1>6, StepsLeftIs DEF Sessions
    <2>2. QED
      BY <1>1, <2>1
  <1>7. QED
    BY <1>2, <1>3, <1>4, <1>5, <1>6

\* A task goes on to k, by itself.
TaskMoves(s, t, k) ==
    /\ Becomes(s, t, k)
    /\ UNCHANGED <<entry, status, reloads, listening, current, account>>
    /\ \/ coord' = coord
       \/ s # current /\ coord' = [coord EXCEPT ![s] = Blank]
          /\ \A u \in Tasks : task'[s][u].phase = "off"
    /\ reauth' => reauth \/ task[s][t].outcome = "rejected"
    /\ task[s][t].phase # "off"
    /\ k.phase = "off" => k.outcome = "none"
    /\ k.phase = "gap" => k.tries > 0
    /\ k.outcome = "cancelled" => task[s][t].outcome = "cancelled"
    /\ k.phase = "cloud" => ~coord[s].ltmk \/ t \notin Background
    /\ t \in Background /\ coord[s].stop /\ WindingDown(task[s][t]) => WindingDown(k)
    /\ coord[s].stop => StepsLeft(k) < StepsLeft(task[s][t])
    /\ t \in {"listen", "battery"} /\ ~coord[s].stop /\ task[s][t].outcome # "cancelled"
       => k.phase # "off"

LEMMA TaskStepMoves ==
    ASSUME TypeOK, TaskInv, NEW s \in Slots, NEW t \in Tasks, TaskStep(s, t)
    PROVE  \E k \in TaskRecords : TaskMoves(s, t, k)
  <1> DEFINE j == task[s][t]
  <1>0. LifecycleType /\ j \in TaskRecords
    BY TypeParts DEF LifecycleType
  <1>c. \A p \in Contact(s, t) :
            p \in Sessions /\ (p = "cloud" => ~coord[s].ltmk \/ t \notin Background)
    BY DEF Contact, Sessions, Background
  <1>g. j.phase = "off" => j.outcome = "none"
    BY DEF TaskInv
  <1>h. j.phase = "gap" => j.tries > 0
    BY DEF TaskInv
  <1> HIDE DEF j
  <1>1. CASE Begin(s, t)
    <2>0. PICK p \in Contact(s, t) : Becomes(s, t, [Off EXCEPT !.phase = p])
      BY <1>1 DEF Begin
    <2> DEFINE k == [Off EXCEPT !.phase = p]
    <2>1. k \in TaskRecords
      BY <1>c, OffType DEF TaskRecords, Phases, Holding
    <2>2. k.phase = p /\ k.outcome = "none"
      BY DEF Off
    <2>3. j.phase = "ready" /\ Becomes(s, t, k)
          /\ UNCHANGED <<entry, status, reloads, listening, current, account, coord, reauth>>
      BY <1>1, <2>0 DEF Begin, j
    <2> HIDE DEF k
    <2>4. ~WindingDown(j)
      BY <2>3 DEF WindingDown, Sessions
    <2>s. StepsLeft(k) < StepsLeft(j)
      BY <1>0, <1>c, <2>1, <2>2, <2>3, StepsLeftShrinks
    <2>5. TaskMoves(s, t, k)
      BY <1>c, <2>2, <2>3, <2>4, <2>s DEF TaskMoves, Sessions, j
    <2>6. QED
      BY <2>1, <2>5
  <1>2. CASE SessionEnds(s, t)
    <2> DEFINE k == [j EXCEPT !.phase = "closing"]
    <2>1. k \in TaskRecords /\ k.phase = "closing" /\ k.outcome = j.outcome
          /\ k.tries = j.tries
      BY <1>0 DEF TaskRecords, Phases, Holding
    <2>2. j.phase \in Sessions /\ Becomes(s, t, k)
          /\ UNCHANGED <<entry, status, reloads, listening, current, account, coord, reauth>>
      BY <1>2 DEF SessionEnds, j
    <2> HIDE DEF k
    <2>s. StepsLeft(k) < StepsLeft(j)
      BY <1>0, <2>1, <2>2, StepsLeftShrinks
    <2>3. TaskMoves(s, t, k)
      BY <2>1, <2>2, <2>s DEF TaskMoves, WindingDown, Sessions, j
    <2>4. QED
      BY <2>1, <2>3
  <1>3. CASE LoginRejected(s, t)
    <2> DEFINE k == [j EXCEPT !.phase = "closing", !.outcome = "rejected"]
    <2>1. k \in TaskRecords /\ k.phase = "closing" /\ k.outcome = "rejected"
          /\ k.tries = j.tries
      BY <1>0 DEF TaskRecords, Phases, Holding, Outcomes
    <2>2. j.phase \in Sessions /\ Becomes(s, t, k)
          /\ UNCHANGED <<entry, status, reloads, listening, current, account, coord, reauth>>
      BY <1>3 DEF LoginRejected, j
    <2> HIDE DEF k
    <2>s. StepsLeft(k) < StepsLeft(j)
      BY <1>0, <2>1, <2>2, StepsLeftShrinks
    <2>3. TaskMoves(s, t, k)
      BY <2>1, <2>2, <2>s DEF TaskMoves, WindingDown, Sessions, j
    <2>4. QED
      BY <2>1, <2>3
  <1>4. CASE Closed(s, t)
    <2>1. PICK k \in After(s, t) : Becomes(s, t, k)
      BY <1>4 DEF Closed
    <2>2. /\ j.phase = "closing"
          /\ coord' = IF Collected(s) THEN [coord EXCEPT ![s] = Blank] ELSE coord
          /\ reauth' = (reauth \/ j.outcome = "rejected")
          /\ UNCHANGED <<entry, status, reloads, listening, current, account>>
      BY <1>4 DEF Closed, j
    <2>3. k \in TaskRecords
      BY <1>0, AfterType
    <2>4. \/ k = Off /\ (j.outcome = "cancelled" \/ t = "call" \/ coord[s].stop \/ t = "sync")
          \/ k = [Off EXCEPT !.phase = "ready"] /\ t # "call" /\ ~coord[s].stop
          \/ k.phase = "gap" /\ k.tries > 0 /\ k.outcome = "none" /\ k.tries = j.tries + 1
      BY <1>0, RetriedFacts DEF After, GoneOn, j, TaskRecords, Outcomes
    <2>5. \/ k.phase = "off" /\ k.outcome = "none"
             /\ (j.outcome = "cancelled" \/ t = "call" \/ coord[s].stop \/ t = "sync")
          \/ k.phase = "ready" /\ k.outcome = "none" /\ ~coord[s].stop
          \/ k.phase = "gap" /\ k.tries > 0 /\ k.outcome = "none" /\ k.tries = j.tries + 1
      BY <2>4 DEF Off
    <2>s. StepsLeft(k) < StepsLeft(j) \/ ~coord[s].stop
      BY <1>0, <2>2, <2>3, <2>5, StepsLeftShrinks
    <2>6. WindingDown(k) \/ ~coord[s].stop
      BY <2>5 DEF WindingDown
    <2>7. \/ coord' = coord
          \/ s # current /\ coord' = [coord EXCEPT ![s] = Blank]
             /\ \A u \in Tasks : task'[s][u].phase = "off"
      BY <2>2 DEF Collected
    <2>8. TaskMoves(s, t, k)
      BY <2>1, <2>2, <2>5, <2>6, <2>7, <2>s DEF TaskMoves, j
    <2>9. QED
      BY <2>3, <2>8
  <1>5. CASE GapOver(s, t)
    <2>0. PICK p \in Contact(s, t) : Becomes(s, t, [j EXCEPT !.phase = p])
      BY <1>5 DEF GapOver, j
    <2> DEFINE k == [j EXCEPT !.phase = p]
    <2>1. k \in TaskRecords /\ k.phase = p /\ k.outcome = j.outcome /\ k.tries = j.tries
      BY <1>0, <1>c DEF TaskRecords, Phases, Holding
    <2>2. j.phase = "gap" /\ Becomes(s, t, k)
          /\ UNCHANGED <<entry, status, reloads, listening, current, account, coord, reauth>>
      BY <1>5, <2>0 DEF GapOver, j
    <2> HIDE DEF k
    <2>3. WindingDown(k)
      BY <1>0, <1>c, <1>h, <2>1, <2>2 DEF WindingDown
    <2>s. StepsLeft(k) < StepsLeft(j)
      BY <1>0, <1>c, <2>1, <2>2, StepsLeftShrinks
    <2>4. TaskMoves(s, t, k)
      BY <1>c, <2>1, <2>2, <2>3, <2>s DEF TaskMoves, Sessions, j
    <2>5. QED
      BY <2>1, <2>4
  <1>6. QED
    BY <1>1, <1>2, <1>3, <1>4, <1>5 DEF TaskStep

\* The entry is changed, or a reauthentication comes to nothing.
EntryChanges ==
    /\ UNCHANGED <<status, listening, current, account, coord, task, flow>>
    /\ status # "absent" \/ reauth
    /\ reauth' => reauth
    /\ entry'.mode = entry.mode /\ entry'.ltmk = entry.ltmk
    /\ entry'.account # entry.account => reauth /\ reloads' > 0
    /\ entry' # entry /\ listening => reloads' > 0
    /\ reloads' >= reloads

LEMMA ChangeCases ==
    ASSUME TypeOK, ReauthSucceeds \/ ReauthAbandoned \/ OptionsSaved
    PROVE  EntryChanges
  <1>0. reloads \in Nat /\ entry \in EntryRecords
    BY FlowConstants, TypeParts DEF LifecycleType
  <1>1. CASE ReauthSucceeds
    BY <1>0, <1>1 DEF ReauthSucceeds, Updated, EntryChanges, EntryRecords
  <1>2. CASE ReauthAbandoned
    BY <1>0, <1>2 DEF ReauthAbandoned, EntryChanges
  <1>3. CASE OptionsSaved
    BY <1>0, <1>3 DEF OptionsSaved, Updated, EntryChanges, EntryRecords
  <1>4. QED
    BY <1>1, <1>2, <1>3

\* Nothing changes but, perhaps, one flow.
OnlyFlows ==
    /\ UNCHANGED lifecycle
    /\ \/ UNCHANGED flow
       \/ \E f \in Flows, rec \in FlowRecords : Moves(f, rec)

LEMMA NextCases ==
    ASSUME TypeOK, TaskInv, FlowInv, [Next]_vars
    PROVE  \/ /\ UNCHANGED flow
              /\ \/ \E s \in Slots : SetUp(s) \/ Fetched(s)
                 \/ SetUpRefused \/ SetUpDone \/ StartReload \/ Unloaded \/ UnloadFails
                 \/ StartCall
                 \/ \E s \in Slots, t \in Tasks, k \in TaskRecords : TaskMoves(s, t, k)
           \/ OnlyFlows
           \/ \E f \in Flows : Creates(f)
           \/ EntryChanges
  <1>1. CASE LifecycleStep /\ UNCHANGED flow
    BY <1>1, TaskStepMoves, Zenon DEF LifecycleStep, EntryStep
  <1>2. CASE \E f \in Flows : FlowStep(f)
    BY <1>2, FlowCases DEF OnlyFlows
  <1>3. CASE ReauthSucceeds \/ ReauthAbandoned \/ OptionsSaved
    BY <1>3, ChangeCases
  <1>4. CASE UNCHANGED vars
    BY <1>4 DEF vars, OnlyFlows, lifecycle
  <1>5. QED
    BY <1>1, <1>2, <1>3, <1>4 DEF Next

Ready == [Off EXCEPT !.phase = "ready"]

LEMMA ReadyFacts ==
    Ready \in TaskRecords /\ Ready.phase = "ready" /\ Ready.outcome = "none"
  BY OffType DEF Ready, Off, TaskRecords, Phases

LEMMA StartCallFacts ==
    ASSUME TypeOK, StatusInv, StartCall
    PROVE  /\ current \in Slots /\ status \in Up /\ "call" \in Tasks
           /\ UNCHANGED <<entry, status, reloads, listening, current, account, coord, reauth>>
           /\ task'[current]["call"] = Ready
           /\ \A r \in Slots, u \in Tasks :
                 r # current \/ u # "call" => task'[r][u] = task[r][u]
  <1>1. current \in Slots /\ "call" \in Tasks /\ LifecycleType /\ status \in Up
    BY TypeParts DEF StartCall, StatusInv, Up, Tasks
  <1>2. /\ task'[current]["call"] = Ready
        /\ \A r \in Slots, u \in Tasks :
              r # current \/ u # "call" => task'[r][u] = task[r][u]
    <2>1. Becomes(current, "call", Ready)
      BY DEF StartCall, Ready
    <2>2. QED
      BY <1>1, <2>1, ReadyFacts, BecomesFacts DEF LifecycleType
  <1>3. QED
    BY <1>1, <1>2 DEF StartCall

\* What the end of a setup and an unloading do to coordinators and tasks.
LEMMA SetUpDoneFacts ==
    ASSUME TypeOK, StatusInv, SetUpDone
    PROVE  /\ current \in Slots /\ status = "setup" /\ status' = "loaded" /\ listening'
           /\ UNCHANGED <<entry, reloads, current, account, reauth>>
           /\ \A s \in Slots \ {current} : coord'[s] = coord[s] /\ task'[s] = task[s]
           /\ coord'[current].ltmk = coord[current].ltmk
           /\ coord'[current].stop = coord[current].stop
           /\ coord'[current].fetching <=> Fetches(current)
           /\ \A t \in Tasks :
                 task'[current][t] = IF t \in Wanted THEN Ready ELSE task[current][t]
  <1>1. current \in Slots /\ LifecycleType /\ listening'
    BY TypeParts DEF SetUpDone, StatusInv, Up
  <1>2. Fetches(current) \in BOOLEAN
    BY <1>1 DEF LifecycleType, Fetches, CoordRecords
  <1>3. QED
    BY <1>1, <1>2 DEF SetUpDone, LifecycleType, CoordRecords, Ready

LEMMA UnloadedFacts ==
    ASSUME TypeOK, StatusInv, Unloaded
    PROVE  /\ current \in Slots /\ status = "unloading" /\ status' = "not_loaded"
           /\ current' = NoSlot /\ NoSlot \notin Slots /\ ~listening'
           /\ UNCHANGED <<entry, reloads, reauth>>
           /\ \A s \in Slots \ {current} : coord'[s] = coord[s] /\ task'[s] = task[s]
           /\ \A t \in Tasks :
                 task'[current][t] = IF t \in Background THEN Cancelled(task[current][t])
                                                         ELSE task[current][t]
           /\ coord'[current].stop /\ ~coord'[current].fetching
           /\ \/ coord'[current].ltmk = coord[current].ltmk
              \/ \A t \in Tasks : task'[current][t].phase = "off"
  <1>1. current \in Slots /\ LifecycleType
    BY TypeParts DEF Unloaded, StatusInv, Up
  <1>2. QED
    BY <1>1, LifecycleConstants DEF Unloaded, LifecycleType, CoordRecords, Blank, Stopped

LEMMA CancelledFacts ==
    ASSUME NEW k \in TaskRecords, k.phase = "off" => k.outcome = "none",
           k.phase = "gap" => k.tries > 0
    PROVE  /\ Cancelled(k).phase \in {"off", "closing"}
           /\ Cancelled(k).phase = "off" => Cancelled(k).outcome = "none"
           /\ Cancelled(k).outcome \in {"none", "cancelled", k.outcome}
           /\ k.phase = "off" => Cancelled(k).phase = "off"
  BY DEF Cancelled, Off, TaskRecords, Phases, Holding, Sessions

LEMMA TaskMovesFacts ==
    ASSUME TypeOK, NEW s \in Slots, NEW t \in Tasks, NEW k \in TaskRecords, TaskMoves(s, t, k)
    PROVE  /\ task'[s][t] = k
           /\ \A r \in Slots, u \in Tasks : r # s \/ u # t => task'[r][u] = task[r][u]
           /\ \A r \in Slots : \/ coord'[r] = coord[r]
                              \/ /\ r = s /\ s # current
                                 /\ coord'[r].stop /\ ~coord'[r].fetching
                                 /\ \A u \in Tasks : task'[r][u].phase = "off"
  <1>1. LifecycleType
    BY TypeParts
  <1>2. /\ task'[s][t] = k
        /\ \A r \in Slots, u \in Tasks : r # s \/ u # t => task'[r][u] = task[r][u]
    BY <1>1, BecomesFacts DEF TaskMoves, LifecycleType
  <1>3. QED
    BY <1>1, <1>2 DEF TaskMoves, LifecycleType, Blank

--------------------------------------------------------------------------------
(* Each part of the invariant is preserved.                                  *)

LEMMA NextStatus ==
    ASSUME IInv, [Next]_vars
    PROVE  StatusInv'
  <1> USE DEF IInv, StatusInv, Up
  <1>0. LifecycleType
    BY TypeParts
  <1>1. ASSUME NEW s \in Slots, SetUp(s)
        PROVE  StatusInv'
    BY <1>0, <1>1 DEF SetUp, Blank, LifecycleType
  <1>2. ASSUME NEW s \in Slots, Fetched(s)
        PROVE  StatusInv'
    BY <1>0, <1>2 DEF Fetched, LifecycleType, CoordRecords
  <1>3. CASE SetUpRefused \/ StartReload \/ UnloadFails \/ StartCall
    BY <1>3 DEF SetUpRefused, StartReload, UnloadFails, StartCall
  <1>4. CASE SetUpDone
    BY <1>4, SetUpDoneFacts
  <1>5. CASE Unloaded
    BY <1>5, UnloadedFacts
  <1>6. ASSUME NEW s \in Slots, NEW t \in Tasks, NEW k \in TaskRecords, TaskMoves(s, t, k)
        PROVE  StatusInv'
    <2>1. UNCHANGED <<status, current, listening>>
      BY <1>6 DEF TaskMoves
    <2>2. QED
      BY <1>6, <2>1, TaskMovesFacts
  <1>7. CASE OnlyFlows
    BY <1>7 DEF OnlyFlows, lifecycle
  <1>8. CASE \E f \in Flows : Creates(f)
    BY <1>8 DEF Creates, Created, FlowInv, MayTake
  <1>9. CASE EntryChanges
    BY <1>9 DEF EntryChanges
  <1>10. QED
    BY <1>1, <1>2, <1>3, <1>4, <1>5, <1>6, <1>7, <1>8, <1>9, NextCases

LEMMA NextAbsent ==
    ASSUME IInv, [Next]_vars
    PROVE  AbsentInv'
  <1> USE DEF IInv
  <1>0. status = "absent" => current \notin Slots
    BY DEF StatusInv, Up
  <1>1. CASE status' # "absent"
    BY <1>1 DEF AbsentInv
  <1>2. CASE status = "absent" /\ UNCHANGED <<coord, task>> /\ (reauth' => reauth)
    BY <1>2 DEF AbsentInv, Silent
  <1>3. ASSUME NEW s \in Slots, SetUp(s)
        PROVE  AbsentInv'
    BY <1>1, <1>3 DEF SetUp
  <1>4. ASSUME NEW s \in Slots, Fetched(s)
        PROVE  AbsentInv'
    BY <1>1, <1>4 DEF Fetched, AbsentInv, Silent
  <1>5. CASE SetUpRefused \/ SetUpDone \/ StartReload \/ Unloaded \/ UnloadFails \/ StartCall
    BY <1>1, <1>5 DEF SetUpRefused, SetUpDone, StartReload, Unloaded, UnloadFails, StartCall
  <1>6. ASSUME NEW s \in Slots, NEW t \in Tasks, NEW k \in TaskRecords, TaskMoves(s, t, k)
        PROVE  AbsentInv'
    BY <1>1, <1>6 DEF TaskMoves, AbsentInv, Silent
  <1>7. CASE OnlyFlows \/ EntryChanges
    BY <1>1, <1>2, <1>7 DEF OnlyFlows, lifecycle, EntryChanges
  <1>8. CASE \E f \in Flows : Creates(f)
    BY <1>1, <1>8 DEF Creates, Created
  <1>9. QED
    BY <1>3, <1>4, <1>5, <1>6, <1>7, <1>8, NextCases

LEMMA NextTask ==
    ASSUME IInv, [Next]_vars
    PROVE  TaskInv'
  <1> USE DEF IInv
  <1>0. LifecycleType
    BY TypeParts
  <1>1. CASE UNCHANGED <<task, current>>
    BY <1>1 DEF TaskInv
  <1>2. ASSUME NEW s \in Slots, SetUp(s)
        PROVE  TaskInv'
    BY <1>2 DEF SetUp, TaskInv, Silent
  <1>3. ASSUME NEW s \in Slots, Fetched(s)
        PROVE  TaskInv'
    BY <1>1, <1>3 DEF Fetched
  <1>4. CASE SetUpRefused \/ StartReload \/ UnloadFails
    BY <1>1, <1>4 DEF SetUpRefused, StartReload, UnloadFails
  <1>5. CASE StartCall
    BY <1>5, StartCallFacts, ReadyFacts DEF TaskInv
  <1>6. CASE SetUpDone
    <2>1. \A t \in Tasks : task'[current][t] \in {Ready, task[current][t]}
      BY <1>6, SetUpDoneFacts
    <2>2. QED
      BY <1>6, <2>1, SetUpDoneFacts, ReadyFacts DEF TaskInv
  <1>7. CASE Unloaded
    <2>1. ASSUME NEW t \in Tasks
          PROVE  /\ task'[current][t].phase = "off" => task'[current][t].outcome = "none"
                 /\ task'[current][t].phase = "gap" => task'[current][t].tries > 0
      <3>1. task[current][t] \in TaskRecords /\ current \in Slots
        BY <1>0, <1>7, UnloadedFacts DEF LifecycleType
      <3>2. QED
        BY <1>7, <3>1, UnloadedFacts, CancelledFacts DEF TaskInv
    <2>2. QED
      BY <1>7, <2>1, UnloadedFacts DEF TaskInv
  <1>8. ASSUME NEW s \in Slots, NEW t \in Tasks, NEW k \in TaskRecords, TaskMoves(s, t, k)
        PROVE  TaskInv'
    <2>1. current' = current
      BY <1>8 DEF TaskMoves
    <2>2. /\ k.phase = "off" => k.outcome = "none"
          /\ k.phase = "gap" => k.tries > 0
          /\ s = current => k.outcome # "cancelled"
      BY <1>8 DEF TaskMoves, TaskInv
    <2>3. QED
      BY <1>8, <2>1, <2>2, TaskMovesFacts DEF TaskInv
  <1>9. CASE OnlyFlows \/ EntryChanges
    BY <1>1, <1>9 DEF OnlyFlows, lifecycle, EntryChanges
  <1>10. CASE \E f \in Flows : Creates(f)
    BY <1>1, <1>10 DEF Creates, Created
  <1>11. QED
    BY <1>2, <1>3, <1>4, <1>5, <1>6, <1>7, <1>8, <1>9, <1>10, NextCases

LEMMA NextUnloaded ==
    ASSUME IInv, [Next]_vars
    PROVE  UnloadedInv'
  <1> USE DEF IInv
  <1>0. LifecycleType
    BY TypeParts
  <1>b. Background \subseteq Tasks
    BY DEF Tasks
  <1>1. CASE UNCHANGED <<task, current, coord>>
    BY <1>1 DEF UnloadedInv, WindingDown
  <1>2. ASSUME NEW s \in Slots, SetUp(s)
        PROVE  UnloadedInv'
    BY <1>0, <1>2 DEF SetUp, UnloadedInv, WindingDown, StatusInv, Up, LifecycleType
  <1>3. ASSUME NEW s \in Slots, Fetched(s)
        PROVE  UnloadedInv'
    <2>1. s = current
      BY <1>3 DEF Fetched, UnloadedInv
    <2>2. QED
      BY <1>0, <1>3, <2>1 DEF Fetched, UnloadedInv, WindingDown, LifecycleType
  <1>4. CASE SetUpRefused \/ StartReload \/ UnloadFails
    BY <1>1, <1>4 DEF SetUpRefused, StartReload, UnloadFails
  <1>5. CASE StartCall
    BY <1>5, <1>b, StartCallFacts DEF UnloadedInv, WindingDown
  <1>6. CASE SetUpDone
    BY <1>6, SetUpDoneFacts DEF UnloadedInv, WindingDown
  <1>7. CASE Unloaded
    <2>1. ASSUME NEW t \in Background
          PROVE  WindingDown(task'[current][t])
      <3>1. t \in Tasks /\ task[current][t] \in TaskRecords /\ current \in Slots
        BY <1>0, <1>b, <1>7, UnloadedFacts DEF LifecycleType
      <3>2. QED
        BY <1>7, <2>1, <3>1, UnloadedFacts, CancelledFacts DEF TaskInv, WindingDown
    <2>2. QED
      BY <1>7, <2>1, UnloadedFacts DEF UnloadedInv, WindingDown
  <1>8. ASSUME NEW s \in Slots, NEW t \in Tasks, NEW k \in TaskRecords, TaskMoves(s, t, k)
        PROVE  UnloadedInv'
    <2>1. current' = current
      BY <1>8 DEF TaskMoves
    <2>2. ASSUME NEW r \in Slots, r # current, NEW u \in Background
          PROVE  WindingDown(task'[r][u])
      <3>1. CASE r = s /\ u = t
        BY <1>8, <2>2, <3>1, TaskMovesFacts DEF TaskMoves, UnloadedInv
      <3>2. CASE r # s \/ u # t
        BY <1>8, <1>b, <2>2, <3>2, TaskMovesFacts DEF UnloadedInv
      <3>3. QED
        BY <3>1, <3>2
    <2>3. ASSUME NEW r \in Slots, r # current
          PROVE  coord'[r].stop /\ ~coord'[r].fetching
      BY <1>8, <2>3, TaskMovesFacts DEF UnloadedInv
    <2>4. QED
      BY <2>1, <2>2, <2>3 DEF UnloadedInv, WindingDown
  <1>9. CASE OnlyFlows \/ EntryChanges
    BY <1>1, <1>9 DEF OnlyFlows, lifecycle, EntryChanges
  <1>10. CASE \E f \in Flows : Creates(f)
    BY <1>1, <1>10 DEF Creates, Created
  <1>11. QED
    BY <1>2, <1>3, <1>4, <1>5, <1>6, <1>7, <1>8, <1>9, <1>10, NextCases

LEMMA NextSettingUp ==
    ASSUME IInv, [Next]_vars
    PROVE  SettingUpInv'
  <1> USE DEF IInv
  <1>b. Background \subseteq Tasks /\ "call" \notin Background
    BY DEF Tasks, Background
  <1>n. reloads \in Nat /\ reloads' \in Nat
    BY NextType, FlowConstants DEF TypeOK
  <1>1. CASE status' # "setup"
    BY <1>1 DEF SettingUpInv
  <1>2. CASE UNCHANGED <<status, reloads, account, entry, task, current>>
    BY <1>2 DEF SettingUpInv
  <1>3. ASSUME NEW s \in Slots, SetUp(s)
        PROVE  SettingUpInv'
    BY <1>3, <1>b DEF SetUp, SettingUpInv, Silent
  <1>4. ASSUME NEW s \in Slots, Fetched(s)
        PROVE  SettingUpInv'
    BY <1>2, <1>4 DEF Fetched
  <1>5. CASE SetUpRefused \/ SetUpDone \/ StartReload \/ Unloaded \/ UnloadFails
    BY <1>1, <1>5 DEF SetUpRefused, SetUpDone, StartReload, Unloaded, UnloadFails
  <1>6. CASE StartCall
    BY <1>6, <1>b, StartCallFacts DEF SettingUpInv
  <1>7. ASSUME NEW s \in Slots, NEW t \in Tasks, NEW k \in TaskRecords, TaskMoves(s, t, k)
        PROVE  SettingUpInv'
    <2>1. UNCHANGED <<status, reloads, account, entry, current>> /\ task[s][t].phase # "off"
      BY <1>7 DEF TaskMoves
    <2>2. CASE status = "setup"
      <3>1. current \in Slots
        BY <2>2 DEF StatusInv, Up
      <3>2. \A u \in Background : task'[current][u] = task[current][u]
        BY <1>7, <1>b, <2>1, <2>2, <3>1, TaskMovesFacts DEF SettingUpInv
      <3>3. QED
        BY <2>1, <2>2, <3>2 DEF SettingUpInv
    <2>3. QED
      BY <2>1, <2>2 DEF SettingUpInv
  <1>8. CASE OnlyFlows
    BY <1>2, <1>8 DEF OnlyFlows, lifecycle
  <1>9. CASE \E f \in Flows : Creates(f)
    BY <1>1, <1>9 DEF Creates, Created
  <1>10. CASE EntryChanges
    BY <1>10, <1>n DEF EntryChanges, SettingUpInv
  <1>11. QED
    BY <1>3, <1>4, <1>5, <1>6, <1>7, <1>8, <1>9, <1>10, NextCases

LEMMA NextRuns ==
    ASSUME IInv, [Next]_vars
    PROVE  RunsOnCurrentEntry'
  <1> USE DEF IInv
  <1>b. {"listen", "battery"} \subseteq Background /\ Background \subseteq Tasks
        /\ "call" \notin Background
    BY DEF Tasks, Background
  <1>n. reloads \in Nat /\ reloads' \in Nat
    BY NextType, FlowConstants DEF TypeOK
  <1>1. CASE status' # "loaded" \/ reloads' # 0
    BY <1>1 DEF RunsOnCurrentEntry
  <1>2. CASE UNCHANGED <<status, reloads, account, entry, task, current>>
    BY <1>2 DEF RunsOnCurrentEntry
  <1>3. ASSUME NEW s \in Slots, SetUp(s)
        PROVE  RunsOnCurrentEntry'
    BY <1>1, <1>3 DEF SetUp
  <1>4. ASSUME NEW s \in Slots, Fetched(s)
        PROVE  RunsOnCurrentEntry'
    BY <1>2, <1>4 DEF Fetched
  <1>5. CASE SetUpRefused \/ StartReload \/ Unloaded \/ UnloadFails
    BY <1>1, <1>5 DEF SetUpRefused, StartReload, Unloaded, UnloadFails
  <1>6. CASE SetUpDone
    <2>1. "listen" \in Wanted <=> "realtime" \in entry.options
      BY DEF Wanted
    <2>2. "battery" \in Wanted <=> "poll" \in entry.options
      BY DEF Wanted
    <2>3. ASSUME NEW t \in {"listen", "battery"}
          PROVE  task'[current][t].phase # "off" <=> t \in Wanted
      BY <1>6, <1>b, SetUpDoneFacts, ReadyFacts DEF SettingUpInv
    <2>4. UNCHANGED <<entry, reloads, current, account>> /\ status = "setup"
      BY <1>6, SetUpDoneFacts
    <2>5. reloads = 0 => account = entry.account
      BY <1>n, <2>4 DEF SettingUpInv
    <2>6. QED
      BY <2>1, <2>2, <2>3, <2>4, <2>5 DEF RunsOnCurrentEntry
  <1>7. CASE StartCall
    BY <1>7, <1>b, StartCallFacts DEF RunsOnCurrentEntry
  <1>8. ASSUME NEW s \in Slots, NEW t \in Tasks, NEW k \in TaskRecords, TaskMoves(s, t, k)
        PROVE  RunsOnCurrentEntry'
    <2>1. UNCHANGED <<status, reloads, account, entry, current>>
      BY <1>8 DEF TaskMoves
    <2>2. CASE status = "loaded"
      <3>1. current \in Slots /\ ~coord[current].stop
        BY <2>2 DEF StatusInv, Up
      <3>2. ASSUME NEW u \in {"listen", "battery"}
            PROVE  task'[current][u].phase # "off" <=> task[current][u].phase # "off"
        <4>1. CASE s = current /\ t = u
          <5>1. task[s][t].phase # "off" /\ k.phase # "off"
            BY <1>8, <3>1, <3>2, <4>1 DEF TaskMoves, TaskInv
          <5>2. QED
            BY <1>8, <4>1, <5>1, TaskMovesFacts
        <4>2. CASE s # current \/ t # u
          BY <1>8, <1>b, <3>1, <4>2, TaskMovesFacts
        <4>3. QED
          BY <4>1, <4>2
      <3>3. QED
        BY <2>1, <3>2 DEF RunsOnCurrentEntry
    <2>3. QED
      BY <1>1, <2>1, <2>2
  <1>9. CASE OnlyFlows
    BY <1>2, <1>9 DEF OnlyFlows, lifecycle
  <1>10. CASE \E f \in Flows : Creates(f)
    BY <1>1, <1>10 DEF Creates, Created
  <1>11. CASE EntryChanges
    <2>1. status = "loaded" => listening
      BY DEF StatusInv, Up
    <2>2. status = "loaded" /\ reloads' = 0 => entry' = entry /\ reloads = 0
      BY <1>11, <1>n, <2>1 DEF EntryChanges
    <2>3. UNCHANGED <<status, account, task, current>>
      BY <1>11 DEF EntryChanges
    <2>4. QED
      BY <2>2, <2>3 DEF RunsOnCurrentEntry
  <1>12. QED
    BY <1>3, <1>4, <1>5, <1>6, <1>7, <1>8, <1>9, <1>10, <1>11, NextCases

LEMMA NextFlow ==
    ASSUME IInv, [Next]_vars
    PROVE  FlowInv'
  <1> USE DEF IInv
  <1>0. flow \in [Flows -> FlowRecords]
    BY TypeParts
  <1>1. CASE UNCHANGED <<status, flow>>
    BY <1>1 DEF FlowInv
  <1>2. CASE UNCHANGED flow /\ status # "absent"
    BY <1>2 DEF FlowInv
  <1>3. ASSUME NEW s \in Slots, SetUp(s) \/ Fetched(s), UNCHANGED flow
        PROVE  FlowInv'
    BY <1>1, <1>2, <1>3 DEF SetUp, Fetched
  <1>4. CASE /\ UNCHANGED flow
             /\ \/ SetUpRefused \/ SetUpDone \/ StartReload \/ Unloaded
                \/ UnloadFails \/ StartCall
    BY <1>1, <1>2, <1>4
       DEF SetUpRefused, SetUpDone, StartReload, Unloaded, UnloadFails, StartCall
  <1>5. ASSUME NEW s \in Slots, NEW t \in Tasks, NEW k \in TaskRecords, TaskMoves(s, t, k),
               UNCHANGED flow
        PROVE  FlowInv'
    BY <1>1, <1>5 DEF TaskMoves
  <1>6. ASSUME NEW f \in Flows, NEW rec \in FlowRecords, Moves(f, rec), UNCHANGED lifecycle
        PROVE  FlowInv'
    <2>1. flow'[f] = rec /\ (\A g \in Flows \ {f} : flow'[g] = flow[g]) /\ status' = status
      BY <1>0, <1>6 DEF Moves, lifecycle
    <2>2. rec.uid => status = "absent" /\ \A g \in Flows \ {f} : ~flow[g].uid
      BY <1>6 DEF Moves, MayTake, InProgress, FlowInv
    <2>3. QED
      BY <1>6, <2>1, <2>2 DEF FlowInv, Moves
  <1>7. ASSUME NEW f \in Flows, Creates(f)
        PROVE  FlowInv'
    <2>1. \A g \in Flows \ {f} : ~flow[g].uid /\ flow'[g] = flow[g]
      BY <1>0, <1>7 DEF Creates, Created, MayTake, InProgress, FlowInv
    <2>2. flow'[f] = NoFlow
      BY <1>0, <1>7 DEF Creates, Created
    <2>3. QED
      BY <2>1, <2>2 DEF FlowInv, NoFlow
  <1>8. CASE EntryChanges
    BY <1>1, <1>8 DEF EntryChanges
  <1>9. CASE OnlyFlows
    BY <1>1, <1>6, <1>9 DEF OnlyFlows, lifecycle
  <1>10. QED
    BY <1>3, <1>4, <1>5, <1>7, <1>8, <1>9, NextCases

LEMMA NextKey ==
    ASSUME IInv, [Next]_vars
    PROVE  KeyInv'
  <1> USE DEF IInv, WithKey
  <1>0. LifecycleType
    BY TypeParts
  <1>b. Background \subseteq Tasks
    BY DEF Tasks
  <1>1. CASE /\ UNCHANGED <<task, current, coord>>
             /\ entry'.mode = entry.mode /\ entry'.ltmk = entry.ltmk
    BY <1>1 DEF KeyInv
  <1>2. ASSUME NEW s \in Slots, SetUp(s)
        PROVE  KeyInv'
    <2>1. /\ UNCHANGED <<entry, task>> /\ current' = s /\ Silent(s)
          /\ coord'[s].ltmk = entry.ltmk /\ ~coord'[s].fetching
          /\ \A r \in Slots \ {s} : coord'[r] = coord[r]
      BY <1>0, <1>2 DEF SetUp, LifecycleType, Blank, CoordRecords
    <2>2. QED
      BY <2>1 DEF KeyInv, Silent
  <1>3. ASSUME NEW s \in Slots, Fetched(s)
        PROVE  KeyInv'
    BY <1>3 DEF Fetched, KeyInv
  <1>4. CASE SetUpRefused \/ StartReload \/ UnloadFails
    BY <1>1, <1>4 DEF SetUpRefused, StartReload, UnloadFails
  <1>5. CASE StartCall
    BY <1>5, <1>b, StartCallFacts, ReadyFacts DEF KeyInv
  <1>6. CASE SetUpDone
    <2>1. WithKey => ~Fetches(current)
      BY <1>6, SetUpDoneFacts DEF KeyInv, Fetches
    <2>2. \A t \in Tasks : task'[current][t] \in {Ready, task[current][t]}
      BY <1>6, SetUpDoneFacts
    <2>3. QED
      BY <1>6, <1>b, <2>1, <2>2, SetUpDoneFacts, ReadyFacts DEF KeyInv
  <1>7. CASE Unloaded
    <2>1. ASSUME NEW t \in Background
          PROVE  task'[current][t].phase # "cloud"
      <3>1. task[current][t] \in TaskRecords /\ current \in Slots
        BY <1>0, <1>7, <1>b, UnloadedFacts DEF LifecycleType
      <3>2. QED
        BY <1>7, <1>b, <2>1, <3>1, UnloadedFacts, CancelledFacts DEF TaskInv
    <2>2. WithKey => \A t \in Tasks : task'[current][t].phase # "off" => coord'[current].ltmk
      BY <1>7, UnloadedFacts DEF KeyInv
    <2>3. QED
      BY <1>7, <1>b, <2>1, <2>2, UnloadedFacts DEF KeyInv
  <1>8. ASSUME NEW s \in Slots, NEW t \in Tasks, NEW k \in TaskRecords, TaskMoves(s, t, k)
        PROVE  KeyInv'
    <2>1. UNCHANGED <<entry, current>>
      BY <1>8 DEF TaskMoves
    <2>2. WithKey => coord[s].ltmk
      BY <1>8 DEF TaskMoves, KeyInv
    <2>3. WithKey /\ t \in Background => k.phase # "cloud"
      BY <1>8, <2>2 DEF TaskMoves
    <2>4. QED
      BY <1>8, <1>b, <2>1, <2>2, <2>3, TaskMovesFacts DEF KeyInv
  <1>9. CASE OnlyFlows
    BY <1>1, <1>9 DEF OnlyFlows, lifecycle
  <1>10. ASSUME NEW f \in Flows, Creates(f)
         PROVE  KeyInv'
    <2>1. status = "absent" /\ UNCHANGED <<current, coord, task>>
      BY <1>10 DEF Creates, Created, FlowInv, MayTake
    <2>2. current \notin Slots /\ \A s \in Slots : Silent(s)
      BY <2>1 DEF AbsentInv, StatusInv, Up
    <2>3. WithKey' => entry'.ltmk
      <3>1. PICK mode \in FlowModes, chosen \in Choices : entry' = NewEntry(mode, chosen)
        BY <1>10 DEF Creates, Created
      <3>2. QED
        BY <3>1, NewEntryFacts
    <2>4. QED
      BY <1>b, <2>1, <2>2, <2>3 DEF KeyInv, Silent
  <1>11. CASE EntryChanges
    BY <1>1, <1>11 DEF EntryChanges
  <1>12. QED
    BY <1>2, <1>3, <1>4, <1>5, <1>6, <1>7, <1>8, <1>9, <1>10, <1>11, NextCases

--------------------------------------------------------------------------------
(* The theorems.                                                             *)

LEMMA InitEstablishesIInv == Init => IInv
  <1> SUFFICES ASSUME Init PROVE IInv
    OBVIOUS
  <1> USE DEF Init, LifecycleInit
  <1>1. TypeOK
    <2>1. entry \in EntryRecords
      <3>1. Nothing \in EntryRecords
        BY DEF Nothing, EntryRecords, Accounts, Modes, OptionNames
      <3>2. \A a \in {"none", "partial"} : [Nothing EXCEPT !.account = a] \in EntryRecords
        BY <3>1 DEF EntryRecords, Accounts
      <3>3. QED
        BY <3>1, <3>2, NewEntryType, FlowConstants
    <2>2. LifecycleType
      <3>1. status \in Statuses /\ reloads \in 0..MaxReloads
        BY FlowConstants DEF Statuses
      <3>2. Blank \in CoordRecords /\ account \in Accounts
        BY DEF Blank, CoordRecords, Accounts
      <3>3. QED
        BY <3>1, <3>2, OffType DEF LifecycleType
    <2>3. flow \in [Flows -> FlowRecords]
      BY DEF NoFlow, FlowRecords, FlowPhases, FlowModes
    <2>4. QED
      BY <2>1, <2>2, <2>3, TypeParts
  <1>2. current \notin Slots /\ status \notin Up
    BY LifecycleConstants DEF Up
  <1>3. \A s \in Slots : /\ coord[s] = Blank
                        /\ \A t \in Tasks : task[s][t] = Off
    OBVIOUS
  <1>4. \A s \in Slots : Silent(s)
    BY <1>3 DEF Silent, Blank, Off
  <1>5. StatusInv /\ AbsentInv /\ SettingUpInv /\ RunsOnCurrentEntry
    BY <1>2, <1>4 DEF StatusInv, AbsentInv, SettingUpInv, RunsOnCurrentEntry, Up
  <1>6. TaskInv /\ UnloadedInv
    BY <1>2, <1>3 DEF TaskInv, UnloadedInv, WindingDown, Blank, Off, Background, Tasks
  <1>7. FlowInv
    BY DEF FlowInv, NoFlow
  <1>8. KeyInv
    <2>1. Nothing.mode = "cloud"
          /\ \A a \in {"none", "partial"} : [Nothing EXCEPT !.account = a].mode = "cloud"
      BY DEF Nothing
    <2>2. WithKey => entry.ltmk
      <3>1. CASE entry = Nothing
        BY <2>1, <3>1 DEF WithKey
      <3>2. ASSUME NEW a \in {"none", "partial"}, entry = [Nothing EXCEPT !.account = a]
            PROVE  ~WithKey
        BY <2>1, <3>2, Zenon DEF WithKey
      <3>3. ASSUME NEW mode \in FlowModes, NEW chosen \in Choices,
                   entry = NewEntry(mode, chosen)
            PROVE  WithKey => entry.ltmk
        BY <3>3, NewEntryFacts DEF WithKey
      <3>4. QED
        BY <3>1, <3>2, <3>3
    <2>3. \A s \in Slots : ~coord[s].fetching /\ \A t \in Tasks : task[s][t].phase = "off"
      BY <1>3 DEF Blank, Off
    <2>4. QED
      BY <1>2, <2>2, <2>3 DEF KeyInv, Tasks
  <1>9. QED
    BY <1>1, <1>5, <1>6, <1>7, <1>8 DEF IInv

LEMMA NextPreservesIInv == IInv /\ [Next]_vars => IInv'
  BY NextType, NextStatus, NextAbsent, NextTask, NextUnloaded, NextSettingUp, NextRuns,
     NextFlow, NextKey DEF IInv

LEMMA Invariance == Spec => []IInv
  BY InitEstablishesIInv, NextPreservesIInv, PTL DEF Spec

\* Every variable keeps its type.
THEOREM TypeCorrect == Spec => []TypeOK
  <1>1. IInv => TypeOK
    BY DEF IInv
  <1>2. QED
    BY <1>1, Invariance, PTL

\* An unloaded coordinator begins nothing new, however its tasks took the cancellation.
THEOREM Unloading == Spec => []UnloadedIsWindingDown
  <1>1. IInv => UnloadedIsWindingDown
    BY DEF IInv, UnloadedInv, UnloadedIsWindingDown
  <1>2. QED
    BY <1>1, Invariance, PTL

\* A running coordinator was made from the entry as it is, or a reload is to come:
\* nothing saved during a setup or an unloading is lost.
THEOREM Currency == Spec => []RunsOnCurrentEntry
  <1>1. IInv => RunsOnCurrentEntry
    BY DEF IInv
  <1>2. QED
    BY <1>1, Invariance, PTL

\* With a stored key nothing but a service call contacts the cloud, whatever becomes of
\* options, logins and the account.
THEOREM KeptLocal == Spec => []LocalUnlessCalled
  <1>1. IInv => LocalUnlessCalled
    BY DEF IInv, KeyInv, WithKey, LocalUnlessCalled
  <1>2. QED
    BY <1>1, Invariance, PTL

\* However many flows are open, at most one of them ever configures the lock.
THEOREM OneConfiguration == Spec => ConfiguredOnce
  <1>1. IInv /\ [Next]_vars
        => [status # "absent" => entry'.mode = entry.mode /\ entry'.ltmk = entry.ltmk]_vars
    <2> SUFFICES ASSUME IInv, [Next]_vars, status # "absent"
                 PROVE  entry'.mode = entry.mode /\ entry'.ltmk = entry.ltmk
      OBVIOUS
    <2> USE DEF IInv
    <2>1. \A f \in Flows : ~Creates(f)
      BY DEF Creates, FlowInv, MayTake
    <2>2. CASE EntryChanges
      BY <2>2 DEF EntryChanges
    <2>3. CASE OnlyFlows
      BY <2>3 DEF OnlyFlows, lifecycle
    <2>4. CASE \E s \in Slots : SetUp(s) \/ Fetched(s)
      BY <2>4 DEF SetUp, Fetched
    <2>5. CASE SetUpRefused \/ SetUpDone \/ StartReload \/ Unloaded \/ UnloadFails \/ StartCall
      BY <2>5 DEF SetUpRefused, SetUpDone, StartReload, Unloaded, UnloadFails, StartCall
    <2>6. CASE \E s \in Slots, t \in Tasks, k \in TaskRecords : TaskMoves(s, t, k)
      BY <2>6 DEF TaskMoves
    <2>7. QED
      BY <2>1, <2>2, <2>3, <2>4, <2>5, <2>6, NextCases
  <1>2. QED
    BY <1>1, Invariance, PTL DEF Spec, ConfiguredOnce

\* Whatever a task of an unloaded coordinator does brings it closer to its end.
THEOREM UnloadingEnds == Spec => UnloadedWindsDown
  <1> DEFINE WindsDown == \A s \in Slots \ {current}, t \in Tasks :
                             task'[s][t] # task[s][t]
                             => StepsLeft(task'[s][t]) < StepsLeft(task[s][t])
  <1>1. IInv /\ [Next]_vars => [WindsDown]_vars
    <2> SUFFICES ASSUME IInv, [Next]_vars, NEW s \in Slots \ {current}, NEW t \in Tasks,
                        task'[s][t] # task[s][t]
                 PROVE  StepsLeft(task'[s][t]) < StepsLeft(task[s][t])
      OBVIOUS
    <2> USE DEF IInv
    <2>1. coord[s].stop /\ s \in Slots
      BY DEF UnloadedInv
    <2>2. ~UNCHANGED task
      OBVIOUS
    <2>3. ASSUME NEW r \in Slots, NEW u \in Tasks, NEW k \in TaskRecords, TaskMoves(r, u, k)
          PROVE  StepsLeft(task'[s][t]) < StepsLeft(task[s][t])
      <3>1. r = s /\ u = t /\ task'[s][t] = k
        BY <2>1, <2>3, TaskMovesFacts
      <3>2. QED
        BY <2>1, <2>3, <3>1 DEF TaskMoves
    <2>4. ~SetUpDone /\ ~Unloaded /\ ~StartCall
      BY <2>1, SetUpDoneFacts, UnloadedFacts, StartCallFacts
    <2>5. ~\E r \in Slots : SetUp(r) \/ Fetched(r)
      BY <2>2 DEF SetUp, Fetched
    <2>6. ~SetUpRefused /\ ~StartReload /\ ~UnloadFails
      BY <2>2 DEF SetUpRefused, StartReload, UnloadFails
    <2>7. ~OnlyFlows /\ ~EntryChanges /\ ~\E f \in Flows : Creates(f)
      BY <2>2 DEF OnlyFlows, lifecycle, EntryChanges, Creates, Created
    <2>8. QED
      BY <2>3, <2>4, <2>5, <2>6, <2>7, NextCases
  <1>2. QED
    BY <1>1, Invariance, PTL DEF Spec, UnloadedWindsDown

================================================================================
