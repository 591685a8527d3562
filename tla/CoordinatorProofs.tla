--------------------------- MODULE CoordinatorProofs ---------------------------
(* Theorems about Coordinator, for any set of calls and any number of read     *)
(* attempts.                                                                   *)
EXTENDS Coordinator, QueueLemmas

--------------------------------------------------------------------------------
(* Type correctness.                                                         *)

\* The part of TypeOK that a call can disturb.
CallTypeOK ==
    /\ opLock \in Tasks \union {Nobody}
    /\ waiters \in Seq(Tasks)
    /\ call \in [Calls -> CallRecords]
    /\ isLocked \in Positions \union {"unknown"}
    /\ inProgress \in BOOLEAN
    /\ lastOp \in Kinds \union {"none"}
    /\ lastError \in Errors \union {"none"}
    /\ reauth \in BOOLEAN
    /\ snapshot \in Snapshots

LEMMA LeaveQueueType ==
    ASSUME TypeOK, NEW t \in Tasks, LeaveQueue(t)
    PROVE  waiters' \in Seq(Tasks)
  BY RemoveAtFacts DEF TypeOK, LeaveQueue

LEMMA RestType ==
    ASSUME TypeOK
    PROVE  Rest \in Seq(Tasks)
  BY TailFacts DEF TypeOK, Rest

\* The pushed snapshot is built from values of the right types.
LEMMA BuiltType ==
    ASSUME reachable' \in BOOLEAN, inProgress' \in BOOLEAN,
           lastOp' \in Kinds \union {"none"}, lastError' \in Errors \union {"none"},
           isLocked' \in Positions \union {"unknown"}
    PROVE  Built' \in Snapshots
  BY DEF Built, Snapshots

LEMMA IdleType == Idle \in CallRecords
  BY ConstantsOK DEF Idle, CallRecords, CallPhases, Kinds, Results

LEMMA CallType ==
    ASSUME call \in [Calls -> CallRecords], NEW c \in Calls, NEW rec \in CallRecords,
           call' = [call EXCEPT ![c] = rec]
    PROVE  call' \in [Calls -> CallRecords]
  OBVIOUS

LEMMA BeginType ==
    ASSUME TypeOK, NEW c \in Calls, NEW kind \in Kinds, Begin(c, kind),
           UNCHANGED envVars
    PROVE  CallTypeOK'
  <1> USE ConstantsOK DEF TypeOK, Tasks, stateVars, envVars
  <1>1. waiters' \in Seq(Tasks)
    BY RestType DEF Begin
  <1>2. call' \in [Calls -> CallRecords]
    <2>1. [Idle EXCEPT !.phase = "connect"] \in CallRecords
      BY IdleType DEF CallRecords, CallPhases
    <2>2. [Idle EXCEPT !.phase = "connect", !.kind = kind] \in CallRecords
      BY IdleType DEF CallRecords, CallPhases
    <2>3. QED
      BY <2>1, <2>2, IdleType DEF Begin
  <1>3. opLock' \in Tasks \union {Nobody}
    BY DEF Begin
  <1>4. /\ isLocked' \in Positions \union {"unknown"}
        /\ inProgress' \in BOOLEAN
        /\ lastOp' \in Kinds \union {"none"}
        /\ lastError' \in Errors \union {"none"}
        /\ reauth' \in BOOLEAN
    BY DEF Begin
  <1>5. snapshot' \in Snapshots
    BY <1>4, BuiltType DEF Begin
  <1>6. QED
    BY <1>1, <1>2, <1>3, <1>4, <1>5 DEF CallTypeOK

LEMMA ReturnType ==
    ASSUME TypeOK, NEW c \in Calls, NEW r \in Results, Return(c, r),
           reachable' = reachable
    PROVE  CallTypeOK'
  <1> USE ConstantsOK DEF TypeOK, Tasks
  <1>1. call' \in [Calls -> CallRecords]
    BY IdleType DEF Return
  <1>2. /\ opLock' \in Tasks \union {Nobody}
        /\ waiters' \in Seq(Tasks)
        /\ inProgress' \in BOOLEAN
        /\ lastOp' \in Kinds \union {"none"}
        /\ reauth' \in BOOLEAN
    BY DEF Return, InProgressAfter
  <1>3. isLocked' \in Positions \union {"unknown"}
    BY DEF Return, Stored, Commanded, Positions
  <1>4. lastError' \in Errors \union {"none"}
    BY DEF Return, ErrorOf, Errors
  <1>5. snapshot' \in Snapshots
    BY <1>2, <1>3, <1>4, BuiltType DEF Return
  <1>6. QED
    BY <1>1, <1>2, <1>3, <1>4, <1>5 DEF CallTypeOK

LEMMA SessionOverType ==
    ASSUME TypeOK, NEW c \in Calls, NEW r \in Results, SessionOver(c, r),
           reachable' = reachable
    PROVE  CallTypeOK'
  <1> DEFINE again  == [call[c] EXCEPT !.phase = "gap", !.tries = call[c].tries + 1]
             reread == [call[c] EXCEPT !.phase = "connect", !.wrote = TRUE,
                                       !.result = "none"]
  <1>1. CASE /\ Retries(c, r) /\ call' = [call EXCEPT ![c] = again]
             /\ UNCHANGED <<lockVars, stateVars>>
    <2>1. call[c] \in CallRecords /\ call[c].tries \in 0..(ReadAttempts - 1)
      BY DEF TypeOK, CallRecords
    <2>2. call[c].tries + 1 \in 0..(ReadAttempts - 1)
      BY <1>1, <2>1, ConstantsOK DEF Retries
    <2>3. again \in CallRecords
      BY <2>1, <2>2 DEF CallRecords, CallPhases
    <2>4. QED
      BY <1>1, <2>3 DEF TypeOK, CallTypeOK, lockVars, stateVars
  <1>2. CASE call' = [call EXCEPT ![c] = reread] /\ UNCHANGED <<lockVars, stateVars>>
    <2>1. reread \in CallRecords
      BY DEF TypeOK, CallRecords, CallPhases, Results
    <2>2. QED
      BY <1>2, <2>1 DEF TypeOK, CallTypeOK, lockVars, stateVars
  <1>3. CASE Return(c, "operation")
    BY <1>3, ReturnType DEF Results, Errors
  <1>4. CASE Return(c, r)
    BY <1>4, ReturnType
  <1>5. QED
    BY <1>1, <1>2, <1>3, <1>4, Zenon DEF SessionOver

\* The record of a call moves on: another phase, another result.
LEMMA AdvanceType ==
    ASSUME TypeOK, NEW c \in Calls, NEW p \in CallPhases, NEW r \in Results
    PROVE  [call EXCEPT ![c] = [@ EXCEPT !.phase = p, !.result = r]]
               \in [Calls -> CallRecords]
  BY DEF TypeOK, CallRecords

LEMMA CallStepType ==
    ASSUME TypeOK, NEW c \in Calls, CallStep(c)
    PROVE  TypeOK'
  <1> USE DEF TypeOK, CallTypeOK, lockVars, loopVars, stateVars, envVars
  <1>r. call[c].result \in Results /\ call[c].kind \in Kinds
    BY DEF CallRecords
  <1>1. CASE Woken(c)
    BY <1>1, <1>r, BeginType DEF Woken
  <1>2. CASE Connect(c)
    <2>1. "talk" \in CallPhases
      BY DEF CallPhases
    <2>2. [call EXCEPT ![c].phase = "talk"] \in [Calls -> CallRecords]
      BY <2>1 DEF CallRecords
    <2>3. QED
      BY <1>2, <2>2 DEF Connect
  <1>3. CASE ConnectFails(c)
    BY <1>3, SessionOverType DEF ConnectFails, Failures, Results, Errors
  <1>4. CASE Actuate(c)
    <2>1. PICK r \in {bolt', "none", "auth", "operation"} :
              call' = [call EXCEPT ![c] = [@ EXCEPT !.phase = "disconnect", !.result = r]]
      BY <1>4 DEF Actuate
    <2>2. bolt' \in Positions
      BY <1>4 DEF Actuate, Commanded, Positions
    <2>3. call' \in [Calls -> CallRecords]
      BY <2>1, <2>2, AdvanceType DEF CallPhases, Results, Errors
    <2>4. QED
      BY <1>4, <2>2, <2>3 DEF Actuate
  <1>5. CASE Exchange(c)
    <2>1. PICK r \in {"none", "auth", IF call[c].kind = "read" THEN bolt ELSE "ack"} :
              call' = [call EXCEPT ![c] = [@ EXCEPT !.phase = "disconnect", !.result = r]]
      BY <1>5 DEF Exchange
    <2>2. call' \in [Calls -> CallRecords]
      BY <2>1, AdvanceType DEF CallPhases, Results, Errors
    <2>3. QED
      BY <1>5, <2>2 DEF Exchange
  <1>6. CASE Disconnect(c)
    BY <1>6, <1>r, SessionOverType DEF Disconnect
  <1>7. CASE GapOver(c)
    BY <1>7, AdvanceType DEF GapOver, CallPhases, Results
  <1>8. QED
    BY <1>1, <1>2, <1>3, <1>4, <1>5, <1>6, <1>7 DEF CallStep

LEMMA RequestType ==
    ASSUME TypeOK, NEW c \in Calls, NEW kind \in Kinds, Request(c, kind)
    PROVE  TypeOK'
  <1> USE DEF TypeOK, CallTypeOK, lockVars, loopVars, stateVars, envVars
  <1>1. cancelPending' \in BOOLEAN /\ UNCHANGED <<loop, unwinding, stop, envVars>>
    BY DEF Request, Preempt
  <1>2. CASE Begin(c, kind)
    BY <1>1, <1>2, BeginType
  <1>3. CASE /\ waiters' = Append(waiters, c)
             /\ call' = [call EXCEPT ![c] =
                            [Idle EXCEPT !.phase = "waiting", !.kind = kind]]
             /\ UNCHANGED <<opLock, stateVars>>
    <2>1. [Idle EXCEPT !.phase = "waiting", !.kind = kind] \in CallRecords
      BY IdleType DEF CallRecords, CallPhases
    <2>2. waiters' \in Seq(Tasks)
      BY <1>3, AppendFacts DEF Tasks
    <2>3. QED
      BY <1>1, <1>3, <2>1, <2>2
  <1>4. QED
    BY <1>2, <1>3 DEF Request

LEMMA CancelType ==
    ASSUME TypeOK, NEW c \in Calls, Cancel(c)
    PROVE  TypeOK'
  <1> USE DEF TypeOK, CallTypeOK, lockVars, loopVars, stateVars, envVars
  <1>r. call[c].result \in Results /\ "cancelled" \in Results
    BY DEF CallRecords, Results
  <1>1. CASE CancelWaiting(c)
    <2>1. waiters' \in Seq(Tasks)
      BY <1>1, LeaveQueueType DEF CancelWaiting, Tasks
    <2>2. QED
      BY <1>1, <2>1, IdleType DEF CancelWaiting
  <1>2. CASE CancelSession(c)
    <2>1. CASE call' = [call EXCEPT ![c] =
                          [@ EXCEPT !.phase = "disconnect", !.result = "cancelled"]]
               /\ UNCHANGED <<lockVars, loopVars, stateVars, envVars>>
      BY <2>1, <1>r, AdvanceType DEF CallPhases
    <2>2. CASE Return(c, "cancelled") /\ UNCHANGED <<loopVars, reachable, bolt>>
               /\ stray' \in BOOLEAN
      BY <2>2, <1>r, ReturnType
    <2>3. CASE SessionOver(c, call[c].result) /\ UNCHANGED <<loopVars, reachable, bolt>>
               /\ stray' \in BOOLEAN
      BY <2>3, <1>r, SessionOverType
    <2>4. QED
      BY <1>2, <2>1, <2>2, <2>3 DEF CancelSession
  <1>3. QED
    BY <1>1, <1>2 DEF Cancel

LEMMA LoopStepType ==
    ASSUME TypeOK, LoopStep \/ Push \/ ListenEnds \/ StopRealtime
    PROVE  TypeOK'
  <1> USE DEF TypeOK, lockVars, loopVars, stateVars, envVars, LoopPhases, Tasks
  <1>1. CASE LoopWakes
    BY <1>1, RestType, AppendFacts DEF LoopWakes
  <1>2. CASE LoopGranted
    BY <1>2, RestType DEF LoopGranted
  <1>3. CASE ListenConnects
    BY <1>3 DEF ListenConnects
  <1>4. CASE ListenNotConnected
    BY <1>4 DEF ListenNotConnected, ListenOver
  <1>5. CASE ListenCancelled
    BY <1>5 DEF ListenCancelled
  <1>6. CASE ListenDisconnects
    BY <1>6 DEF ListenDisconnects, ListenOver
  <1>7. CASE Push
    BY <1>7, BuiltType DEF Push
  <1>8. CASE ListenEnds
    BY <1>8 DEF ListenEnds
  <1>9. CASE StopRealtime
    BY <1>9, LeaveQueueType DEF StopRealtime
  <1>10. QED
    BY <1>1, <1>2, <1>3, <1>4, <1>5, <1>6, <1>7, <1>8, <1>9 DEF LoopStep

LEMMA SurroundingsType ==
    ASSUME TypeOK, BluetoothChanges \/ BoltTurned \/ StrayDrops
    PROVE  TypeOK'
  <1> USE DEF TypeOK, lockVars, loopVars, stateVars, envVars
  <1>1. CASE BluetoothChanges
    BY <1>1, BuiltType DEF BluetoothChanges
  <1>2. CASE BoltTurned
    BY <1>2 DEF BoltTurned
  <1>3. CASE StrayDrops
    BY <1>3 DEF StrayDrops
  <1>4. QED
    BY <1>1, <1>2, <1>3

\* Every variable keeps its type; no read is tried more than ReadAttempts times.
THEOREM TypeCorrect == Spec => []TypeOK
  <1>1. Init => TypeOK
    <2> SUFFICES ASSUME Init PROVE TypeOK
      OBVIOUS
    <2>1. snapshot \in Snapshots
      BY DEF Init, Built, Snapshots
    <2>2. waiters \in Seq(Tasks) /\ call \in [Calls -> CallRecords]
      BY IdleType DEF Init
    <2>3. QED
      BY <2>1, <2>2 DEF Init, TypeOK, LoopPhases, Tasks
  <1>2. TypeOK /\ [Next]_vars => TypeOK'
    <2> SUFFICES ASSUME TypeOK, [Next]_vars PROVE TypeOK'
      OBVIOUS
    <2>1. CASE UNCHANGED vars
      BY <2>1 DEF TypeOK, vars, lockVars, loopVars, stateVars, envVars
    <2>2. ASSUME NEW c \in Calls, CallStep(c) PROVE TypeOK'
      BY <2>2, CallStepType
    <2>3. ASSUME NEW c \in Calls, Cancel(c) PROVE TypeOK'
      BY <2>3, CancelType
    <2>4. ASSUME NEW c \in Calls, NEW kind \in Methods, Request(c, kind) PROVE TypeOK'
      BY <2>4, RequestType, ConstantsOK
    <2>5. QED
      BY <2>1, <2>2, <2>3, <2>4, LoopStepType, SurroundingsType DEF Next
  <1>3. QED
    BY <1>1, <1>2, PTL DEF Spec

--------------------------------------------------------------------------------
(* The lock and the tasks.                                                   *)

\* Only the record of c changes.
Alone(c) == \A d \in Calls \ {c} : call'[d] = call[d]

LEMMA CallMoves ==
    ASSUME NEW c \in Calls, Alone(c), UNCHANGED loop
    PROVE  /\ Talking' = (Talking \ {c})
                  \union (IF call'[c].phase \in InSession THEN {c} ELSE {})
           /\ Waiting' = (Waiting \ {c})
                  \union (IF call'[c].phase = "waiting" THEN {c} ELSE {})
  BY ConstantsOK DEF Talking, Waiting, Alone

LEMMA LoopMoves ==
    ASSUME UNCHANGED call
    PROVE  /\ Talking' = (Talking \ {Loop}) \union (IF loop' \in InSession THEN {Loop} ELSE {})
           /\ Waiting' = (Waiting \ {Loop}) \union (IF loop' = "waiting" THEN {Loop} ELSE {})
  BY ConstantsOK DEF Talking, Waiting

LEMMA TaskPhases ==
    /\ \A c \in Calls : /\ c \in Talking <=> call[c].phase \in InSession
                        /\ c \in Waiting <=> call[c].phase = "waiting"
    /\ Loop \in Talking <=> loop \in InSession
    /\ Loop \in Waiting <=> loop = "waiting"
    /\ Talking \subseteq Tasks /\ Waiting \subseteq Tasks /\ Nobody \notin Tasks
  BY ConstantsOK DEF Talking, Waiting, Tasks

\* Whoever may enter leaves the queue of the others behind.
LEMMA EnterFacts ==
    ASSUME TypeOK, LockMatchesTasks, NEW t \in Tasks, MayEnter(t)
    PROVE  Talking = {} /\ IsInjective(Rest) /\ Range(Rest) = Waiting \ {t}
  <1>1. Talking = {}
    BY DEF LockMatchesTasks, MayEnter
  <1>2. CASE waiters = <<>>
    <2>1. Range(waiters) = {}
      BY <1>2 DEF Range
    <2>2. QED
      BY <1>1, <1>2, <2>1 DEF LockMatchesTasks, Rest
  <1>3. CASE waiters # <<>>
    <2>1. Head(waiters) = t
      BY <1>3 DEF MayEnter
    <2>2. IsInjective(Tail(waiters)) /\ Range(Tail(waiters)) = Range(waiters) \ {Head(waiters)}
      BY <1>3, TailKeepsInjective DEF TypeOK, LockMatchesTasks
    <2>3. QED
      BY <1>1, <1>3, <2>1, <2>2 DEF LockMatchesTasks, Rest
  <1>4. QED
    BY <1>2, <1>3

LEMMA JoinFacts ==
    ASSUME TypeOK, LockMatchesTasks, NEW t \in Tasks \ Waiting
    PROVE  /\ IsInjective(Append(waiters, t))
           /\ Range(Append(waiters, t)) = Waiting \union {t}
  BY AppendKeepsInjective DEF TypeOK, LockMatchesTasks

LEMMA LeaveFacts ==
    ASSUME TypeOK, LockMatchesTasks, NEW t \in Tasks, LeaveQueue(t)
    PROVE  IsInjective(waiters') /\ Range(waiters') = Waiting \ {t}
  <1>1. PICK i \in DOMAIN waiters : waiters[i] = t /\ waiters' = RemoveAt(waiters, i)
    BY DEF LeaveQueue
  <1>2. /\ IsInjective(RemoveAt(waiters, i))
        /\ Range(RemoveAt(waiters, i)) = Range(waiters) \ {waiters[i]}
    BY RemoveAtKeepsInjective DEF TypeOK, LockMatchesTasks
  <1>3. QED
    BY <1>1, <1>2 DEF LockMatchesTasks

LEMMA BeginLock ==
    ASSUME TypeOK, LockMatchesTasks, NEW c \in Calls, NEW kind \in Kinds,
           MayEnter(c), Begin(c, kind), UNCHANGED loop
    PROVE  LockMatchesTasks'
  <1>1. c \in Tasks /\ c # Nobody
    BY TaskPhases DEF Tasks
  <1>2. waiters' = Rest
    BY DEF Begin
  <1>3. Talking = {} /\ IsInjective(Rest) /\ Range(Rest) = Waiting \ {c}
    BY <1>1, EnterFacts
  <1>4. /\ Alone(c)
        /\ \/ call'[c].phase = "connect" /\ opLock' = c
           \/ call'[c].phase = "idle" /\ opLock' = Nobody
    <2>1. CASE opLock' = c /\ call' = [call EXCEPT ![c] = [Idle EXCEPT !.phase = "connect"]]
      BY <2>1 DEF Idle, TypeOK, Alone
    <2>2. CASE /\ opLock' = c
               /\ call' = [call EXCEPT ![c] =
                              [Idle EXCEPT !.phase = "connect", !.kind = kind]]
      BY <2>2 DEF Idle, TypeOK, Alone
    <2>3. CASE opLock' = Nobody /\ call' = [call EXCEPT ![c] = Idle]
      BY <2>3 DEF Idle, TypeOK, Alone
    <2>4. QED
      BY <2>1, <2>2, <2>3 DEF Begin
  <1>5. /\ Talking' = {opLock'} \ {Nobody}
        /\ Waiting' = Waiting \ {c}
    BY <1>1, <1>3, <1>4, CallMoves DEF InSession
  <1>6. QED
    BY <1>2, <1>3, <1>5 DEF LockMatchesTasks

LEMMA ReturnLock ==
    ASSUME TypeOK, LockMatchesTasks, NEW c \in Calls, NEW r, c \in Talking,
           Return(c, r), UNCHANGED loop
    PROVE  LockMatchesTasks'
  <1>1. opLock' = Nobody /\ waiters' = waiters /\ call' = [call EXCEPT ![c] = Idle]
    BY DEF Return
  <1>2. Talking = {c} /\ c \notin Waiting
    BY TaskPhases DEF LockMatchesTasks, InSession
  <1>3. Alone(c) /\ call'[c].phase = "idle"
    BY <1>1 DEF Idle, TypeOK, Alone
  <1>4. Talking' = {} /\ Waiting' = Waiting
    BY <1>2, <1>3, CallMoves DEF InSession
  <1>5. QED
    BY <1>1, <1>4 DEF LockMatchesTasks

\* A session that goes on keeps the lock.
LEMMA StaysLock ==
    ASSUME LockMatchesTasks, NEW c \in Calls, c \in Talking,
           Alone(c), call'[c].phase \in InSession, UNCHANGED <<lockVars, loop>>
    PROVE  LockMatchesTasks'
  <1>1. c \notin Waiting /\ call'[c].phase # "waiting"
    BY TaskPhases DEF InSession
  <1>2. Talking' = Talking /\ Waiting' = Waiting
    BY <1>1, CallMoves
  <1>3. QED
    BY <1>2 DEF LockMatchesTasks, lockVars

LEMMA SessionOverLock ==
    ASSUME TypeOK, LockMatchesTasks, NEW c \in Calls, NEW r, c \in Talking,
           SessionOver(c, r), UNCHANGED loop
    PROVE  LockMatchesTasks'
  <1>1. call[c] \in CallRecords
    BY DEF TypeOK
  <1>2. CASE /\ call' = [call EXCEPT ![c] =
                           [@ EXCEPT !.phase = "gap", !.tries = call[c].tries + 1]]
             /\ UNCHANGED <<lockVars, stateVars>>
    <2>1. Alone(c) /\ call'[c].phase = "gap"
      BY <1>1, <1>2 DEF TypeOK, CallRecords, Alone
    <2>2. QED
      BY <1>2, <2>1, StaysLock DEF InSession
  <1>3. CASE /\ call' = [call EXCEPT ![c] =
                  [@ EXCEPT !.phase = "connect", !.wrote = TRUE, !.result = "none"]]
             /\ UNCHANGED <<lockVars, stateVars>>
    <2>1. Alone(c) /\ call'[c].phase = "connect"
      BY <1>1, <1>3 DEF TypeOK, CallRecords, Alone
    <2>2. QED
      BY <1>3, <2>1, StaysLock DEF InSession
  <1>4. CASE Return(c, "operation") \/ Return(c, r)
    BY <1>4, ReturnLock
  <1>5. QED
    BY <1>2, <1>3, <1>4, Zenon DEF SessionOver

LEMMA CallStepLock ==
    ASSUME TypeOK, LockMatchesTasks, NEW c \in Calls, CallStep(c)
    PROVE  LockMatchesTasks'
  <1> USE DEF lockVars, loopVars
  <1>r. call[c] \in CallRecords
    BY DEF TypeOK
  <1>1. CASE Woken(c)
    BY <1>1, <1>r, BeginLock DEF Woken, CallRecords
  <1>2. CASE Connect(c)
    <2>1. c \in Talking /\ Alone(c) /\ call'[c].phase = "talk"
      BY <1>2, <1>r, TaskPhases DEF Connect, InSession, Alone, TypeOK, CallRecords
    <2>2. QED
      BY <1>2, <2>1, StaysLock DEF Connect, InSession
  <1>3. CASE ConnectFails(c)
    <2>1. c \in Talking
      BY <1>3, TaskPhases DEF ConnectFails, InSession
    <2>2. QED
      BY <1>3, <2>1, SessionOverLock DEF ConnectFails
  <1>4. CASE Actuate(c)
    <2>1. PICK r : call' = [call EXCEPT ![c] = [@ EXCEPT !.phase = "disconnect", !.result = r]]
      BY <1>4 DEF Actuate
    <2>2. c \in Talking /\ Alone(c) /\ call'[c].phase = "disconnect"
      BY <1>4, <1>r, <2>1, TaskPhases DEF Actuate, InSession, Alone, TypeOK, CallRecords
    <2>3. QED
      BY <1>4, <2>2, StaysLock DEF Actuate, InSession
  <1>5. CASE Exchange(c)
    <2>1. PICK r : call' = [call EXCEPT ![c] = [@ EXCEPT !.phase = "disconnect", !.result = r]]
      BY <1>5 DEF Exchange
    <2>2. c \in Talking /\ Alone(c) /\ call'[c].phase = "disconnect"
      BY <1>5, <1>r, <2>1, TaskPhases DEF Exchange, InSession, Alone, TypeOK, CallRecords
    <2>3. QED
      BY <1>5, <2>2, StaysLock DEF Exchange, InSession
  <1>6. CASE Disconnect(c)
    <2>1. c \in Talking
      BY <1>6, TaskPhases DEF Disconnect, InSession
    <2>2. QED
      BY <1>6, <2>1, SessionOverLock DEF Disconnect
  <1>7. CASE GapOver(c)
    <2>1. c \in Talking /\ Alone(c) /\ call'[c].phase = "connect"
      BY <1>7, <1>r, TaskPhases DEF GapOver, InSession, Alone, TypeOK, CallRecords
    <2>2. QED
      BY <1>7, <2>1, StaysLock DEF GapOver, InSession
  <1>8. QED
    BY <1>1, <1>2, <1>3, <1>4, <1>5, <1>6, <1>7 DEF CallStep

LEMMA RequestLock ==
    ASSUME TypeOK, LockMatchesTasks, NEW c \in Calls, NEW kind \in Kinds, Request(c, kind)
    PROVE  LockMatchesTasks'
  <1>1. UNCHANGED loop /\ call[c].phase = "idle"
    BY DEF Request, Preempt
  <1>2. CASE MayEnter(c) /\ Begin(c, kind)
    BY <1>1, <1>2, BeginLock
  <1>3. CASE /\ waiters' = Append(waiters, c)
             /\ call' = [call EXCEPT ![c] =
                            [Idle EXCEPT !.phase = "waiting", !.kind = kind]]
             /\ UNCHANGED <<opLock, stateVars>>
    <2>1. c \in Tasks /\ c \notin Waiting /\ c \notin Talking
      BY <1>1, TaskPhases DEF InSession, Tasks
    <2>2. IsInjective(waiters') /\ Range(waiters') = Waiting \union {c}
      BY <1>3, <2>1, JoinFacts
    <2>3. Alone(c) /\ call'[c].phase = "waiting"
      BY <1>3 DEF Idle, TypeOK, Alone
    <2>4. Talking' = Talking /\ Waiting' = Waiting \union {c}
      BY <1>1, <2>1, <2>3, CallMoves DEF InSession
    <2>5. QED
      BY <1>3, <2>2, <2>4 DEF LockMatchesTasks
  <1>4. QED
    BY <1>2, <1>3 DEF Request

LEMMA CancelLock ==
    ASSUME TypeOK, LockMatchesTasks, NEW c \in Calls, Cancel(c)
    PROVE  LockMatchesTasks'
  <1> USE DEF lockVars, loopVars
  <1>1. CASE CancelWaiting(c)
    <2>1. c \in Tasks /\ c \in Waiting /\ c \notin Talking
      BY <1>1, TaskPhases DEF CancelWaiting, InSession
    <2>2. IsInjective(waiters') /\ Range(waiters') = Waiting \ {c}
      BY <1>1, <2>1, LeaveFacts DEF CancelWaiting
    <2>3. Alone(c) /\ call'[c].phase = "idle"
      BY <1>1 DEF CancelWaiting, Idle, TypeOK, Alone
    <2>4. Talking' = Talking /\ Waiting' = Waiting \ {c}
      BY <1>1, <2>1, <2>3, CallMoves DEF CancelWaiting, InSession
    <2>5. QED
      BY <1>1, <2>2, <2>4 DEF CancelWaiting, LockMatchesTasks
  <1>2. CASE CancelSession(c)
    <2>1. c \in Talking /\ UNCHANGED loop
      BY <1>2, TaskPhases DEF CancelSession, InSession
    <2>2. CASE /\ call' = [call EXCEPT ![c] =
                             [@ EXCEPT !.phase = "disconnect", !.result = "cancelled"]]
               /\ UNCHANGED <<lockVars, loopVars, stateVars, envVars>>
      <3>1. Alone(c) /\ call'[c].phase = "disconnect"
        BY <2>2 DEF TypeOK, CallRecords, Alone
      <3>2. QED
        BY <2>1, <2>2, <3>1, StaysLock DEF InSession
    <2>3. CASE Return(c, "cancelled")
      BY <2>1, <2>3, ReturnLock
    <2>4. CASE SessionOver(c, call[c].result)
      BY <2>1, <2>4, SessionOverLock
    <2>5. QED
      BY <1>2, <2>2, <2>3, <2>4 DEF CancelSession
  <1>3. QED
    BY <1>1, <1>2 DEF Cancel

LEMMA LoopLock ==
    ASSUME TypeOK, LockMatchesTasks,
           LoopStep \/ Push \/ ListenEnds \/ StopRealtime
    PROVE  LockMatchesTasks'
  <1> USE DEF lockVars, LockMatchesTasks
  <1>0. Loop \in Tasks /\ Loop # Nobody
    BY TaskPhases DEF Tasks
  <1>1. UNCHANGED call
    BY DEF LoopStep, LoopWakes, LoopGranted, ListenConnects, ListenNotConnected,
           ListenCancelled, ListenDisconnects, ListenOver, Push, ListenEnds, StopRealtime
  <1>2. CASE waiters' = Rest /\ MayEnter(Loop) /\ opLock' = Loop /\ loop' = "connect"
    <2>1. Talking' = {Loop} /\ Waiting' = Waiting \ {Loop}
      BY <1>0, <1>1, <1>2, EnterFacts, LoopMoves DEF InSession
    <2>2. QED
      BY <1>0, <1>2, <2>1, EnterFacts
  <1>3. CASE /\ loop = "pause" /\ loop' = "waiting"
             /\ waiters' = Append(waiters, Loop) /\ UNCHANGED opLock
    <2>1. Loop \notin Waiting /\ Loop \notin Talking
      BY <1>3, TaskPhases DEF InSession
    <2>2. Talking' = Talking /\ Waiting' = Waiting \union {Loop}
      BY <1>1, <1>3, <2>1, LoopMoves DEF InSession
    <2>3. QED
      BY <1>0, <1>3, <2>1, <2>2, JoinFacts
  <1>4. CASE /\ loop \in InSession /\ loop' \in {"pause", "ended"}
             /\ opLock' = Nobody /\ UNCHANGED waiters
    <2>1. Talking = {Loop} /\ Loop \notin Waiting
      BY <1>4, TaskPhases DEF InSession
    <2>2. Talking' = {} /\ Waiting' = Waiting
      BY <1>1, <1>4, <2>1, LoopMoves DEF InSession
    <2>3. QED
      BY <1>4, <2>2
  <1>5. CASE /\ UNCHANGED lockVars
             /\ loop' \in InSession <=> loop \in InSession
             /\ loop' = "waiting" <=> loop = "waiting"
    <2>1. Talking' = Talking /\ Waiting' = Waiting
      BY <1>1, <1>5, LoopMoves, TaskPhases
    <2>2. QED
      BY <1>5, <2>1
  <1>6. CASE loop = "waiting" /\ loop' = "ended" /\ LeaveQueue(Loop) /\ UNCHANGED opLock
    <2>1. Loop \in Waiting /\ Loop \notin Talking
      BY <1>6, TaskPhases DEF InSession
    <2>2. Talking' = Talking /\ Waiting' = Waiting \ {Loop}
      BY <1>1, <1>6, <2>1, LoopMoves DEF InSession
    <2>3. QED
      BY <1>0, <1>6, <2>2, LeaveFacts
  <1>7. CASE LoopStep
    <2> USE DEF InSession, ListenOver
    <2>1. CASE LoopWakes
      BY <2>1, <1>2, <1>3, <1>5 DEF LoopWakes
    <2>2. CASE LoopGranted
      BY <2>2, <1>2 DEF LoopGranted
    <2>3. CASE ListenConnects \/ ListenCancelled
      BY <2>3, <1>5 DEF ListenConnects, ListenCancelled
    <2>4. CASE ListenNotConnected \/ ListenDisconnects
      BY <2>4, <1>4 DEF ListenNotConnected, ListenDisconnects
    <2>5. QED
      BY <1>7, <2>1, <2>2, <2>3, <2>4 DEF LoopStep
  <1>8. CASE Push \/ ListenEnds
    BY <1>8, <1>5 DEF Push, ListenEnds, loopVars, InSession
  <1>9. CASE StopRealtime
    BY <1>9, <1>5, <1>6 DEF StopRealtime, InSession
  <1>10. QED
    BY <1>7, <1>8, <1>9

\* The lock is held by exactly the task in a session, and queues exactly the
\* waiting tasks.
THEOREM LockAccounting == Spec => []LockMatchesTasks
  <1>1. Init => LockMatchesTasks
    <2> SUFFICES ASSUME Init PROVE LockMatchesTasks
      OBVIOUS
    <2>1. Talking = {} /\ Waiting = {}
      BY DEF Init, Talking, Waiting, Idle, InSession
    <2>2. Range(waiters) = {} /\ IsInjective(waiters)
      BY DEF Init, Range, IsInjective
    <2>3. QED
      BY <2>1, <2>2 DEF Init, LockMatchesTasks
  <1>2. TypeOK /\ LockMatchesTasks /\ [Next]_vars => LockMatchesTasks'
    <2> SUFFICES ASSUME TypeOK, LockMatchesTasks, [Next]_vars PROVE LockMatchesTasks'
      OBVIOUS
    <2>1. CASE UNCHANGED vars
      BY <2>1 DEF vars, lockVars, loopVars, LockMatchesTasks, Talking, Waiting
    <2>2. ASSUME NEW c \in Calls, CallStep(c) PROVE LockMatchesTasks'
      BY <2>2, CallStepLock
    <2>3. ASSUME NEW c \in Calls, Cancel(c) PROVE LockMatchesTasks'
      BY <2>3, CancelLock
    <2>4. ASSUME NEW c \in Calls, NEW kind \in Methods, Request(c, kind)
          PROVE  LockMatchesTasks'
      BY <2>4, RequestLock, ConstantsOK
    <2>5. CASE BluetoothChanges \/ BoltTurned \/ StrayDrops
      BY <2>5 DEF BluetoothChanges, BoltTurned, StrayDrops, lockVars, loopVars,
                  LockMatchesTasks, Talking, Waiting
    <2>6. QED
      BY <2>1, <2>2, <2>3, <2>4, <2>5, LoopLock DEF Next
  <1>3. QED
    BY <1>1, <1>2, TypeCorrect, PTL DEF Spec

\* At most one task uses the radio.
THEOREM MutualExclusion == Spec => []OneTalker
  <1>1. LockMatchesTasks => OneTalker
    BY DEF LockMatchesTasks, OneTalker
  <1>2. QED
    BY <1>1, LockAccounting, PTL

--------------------------------------------------------------------------------
(* Who changes what.  A step of a call either leaves the coordinator's state   *)
(* alone and its own session open, or is a Begin or a Return.                  *)

\* The session of c goes on and stores nothing.
GoesOn(c) ==
    /\ c \in Talking /\ c \in Talking'
    /\ Alone(c) /\ call'[c].kind = call[c].kind
    /\ UNCHANGED <<lockVars, stateVars, reachable, loop>>

\* c stands in the queue, or leaves it without having entered.
Queues(c) ==
    /\ c \notin Talking /\ c \notin Talking'
    /\ Alone(c)
    /\ UNCHANGED <<opLock, stateVars, reachable>>

Begins(c) ==
    /\ MayEnter(c) /\ c \notin Talking
    /\ UNCHANGED <<loop, envVars>>
    /\ \E kind \in Kinds : Begin(c, kind)

Returns(c) ==
    /\ c \in Talking
    /\ UNCHANGED <<loop, reachable>>
    /\ \E r \in Results : Return(c, r)

LEMMA SessionOverCases ==
    ASSUME TypeOK, NEW c \in Calls, NEW r \in Results, c \in Talking,
           SessionOver(c, r), UNCHANGED <<loop, reachable>>
    PROVE  GoesOn(c) \/ Returns(c)
  <1>1. call[c] \in CallRecords
    BY DEF TypeOK
  <1>2. CASE /\ call' = [call EXCEPT ![c] =
                           [@ EXCEPT !.phase = "gap", !.tries = call[c].tries + 1]]
             /\ UNCHANGED <<lockVars, stateVars>>
    <2>1. Alone(c) /\ call'[c].phase = "gap" /\ call'[c].kind = call[c].kind
      BY <1>1, <1>2 DEF TypeOK, CallRecords, Alone
    <2>2. QED
      BY <1>2, <2>1, CallMoves DEF InSession, GoesOn
  <1>3. CASE /\ call' = [call EXCEPT ![c] =
                  [@ EXCEPT !.phase = "connect", !.wrote = TRUE, !.result = "none"]]
             /\ UNCHANGED <<lockVars, stateVars>>
    <2>1. Alone(c) /\ call'[c].phase = "connect" /\ call'[c].kind = call[c].kind
      BY <1>1, <1>3 DEF TypeOK, CallRecords, Alone
    <2>2. QED
      BY <1>3, <2>1, CallMoves DEF InSession, GoesOn
  <1>4. CASE Return(c, "operation") \/ Return(c, r)
    BY <1>4 DEF Returns, Results, Errors
  <1>5. QED
    BY <1>2, <1>3, <1>4, Zenon DEF SessionOver

LEMMA CallCases ==
    ASSUME TypeOK, NEW c \in Calls,
           CallStep(c) \/ Cancel(c) \/ \E kind \in Kinds : Request(c, kind)
    PROVE  GoesOn(c) \/ Queues(c) \/ Begins(c) \/ Returns(c)
  <1> USE DEF lockVars, loopVars, envVars
  <1>r. call[c] \in CallRecords /\ call[c].kind \in Kinds /\ call[c].result \in Results
    BY DEF TypeOK, CallRecords
  <1>1. CASE Woken(c)
    BY <1>1, <1>r, TaskPhases DEF Woken, Begins, InSession
  <1>2. CASE Connect(c)
    <2>1. /\ c \in Talking /\ Alone(c)
          /\ call'[c].phase = "talk" /\ call'[c].kind = call[c].kind
      BY <1>2, <1>r, TaskPhases DEF Connect, InSession, Alone, TypeOK, CallRecords
    <2>2. QED
      BY <1>2, <2>1, CallMoves DEF Connect, InSession, GoesOn
  <1>3. CASE ConnectFails(c)
    <2>1. PICK r \in Results : SessionOver(c, r)
      BY <1>3 DEF ConnectFails, Failures, Results, Errors
    <2>2. c \in Talking /\ UNCHANGED <<loop, reachable>>
      BY <1>3, TaskPhases DEF ConnectFails, InSession
    <2>3. QED
      BY <2>1, <2>2, SessionOverCases
  <1>4. CASE Actuate(c) \/ Exchange(c)
    <2>1. PICK r : call' = [call EXCEPT ![c] = [@ EXCEPT !.phase = "disconnect", !.result = r]]
      BY <1>4 DEF Actuate, Exchange
    <2>2. /\ c \in Talking /\ Alone(c)
          /\ call'[c].phase = "disconnect" /\ call'[c].kind = call[c].kind
      BY <1>4, <1>r, <2>1, TaskPhases
         DEF Actuate, Exchange, InSession, Alone, TypeOK, CallRecords
    <2>3. QED
      BY <1>4, <2>2, CallMoves DEF Actuate, Exchange, InSession, GoesOn
  <1>5. CASE Disconnect(c)
    <2>1. c \in Talking /\ UNCHANGED <<loop, reachable>> /\ SessionOver(c, call[c].result)
      BY <1>5, TaskPhases DEF Disconnect, InSession
    <2>2. QED
      BY <1>r, <2>1, SessionOverCases
  <1>6. CASE GapOver(c)
    <2>1. /\ c \in Talking /\ Alone(c)
          /\ call'[c].phase = "connect" /\ call'[c].kind = call[c].kind
      BY <1>6, <1>r, TaskPhases DEF GapOver, InSession, Alone, TypeOK, CallRecords
    <2>2. QED
      BY <1>6, <2>1, CallMoves DEF GapOver, InSession, GoesOn
  <1>7. CASE CancelWaiting(c)
    <2>1. Alone(c) /\ call'[c].phase = "idle"
      BY <1>7 DEF CancelWaiting, Idle, TypeOK, Alone
    <2>2. c \notin Talking /\ c \notin Talking'
      BY <1>7, <2>1, TaskPhases, CallMoves DEF CancelWaiting, InSession
    <2>3. QED
      BY <1>7, <2>1, <2>2 DEF CancelWaiting, Queues
  <1>8. CASE CancelSession(c)
    <2>1. c \in Talking /\ UNCHANGED <<loop, reachable>>
      BY <1>8, TaskPhases DEF CancelSession, InSession
    <2>2. CASE /\ call' = [call EXCEPT ![c] =
                             [@ EXCEPT !.phase = "disconnect", !.result = "cancelled"]]
               /\ UNCHANGED <<lockVars, loopVars, stateVars, envVars>>
      <3>1. /\ Alone(c) /\ call'[c].phase = "disconnect" /\ call'[c].kind = call[c].kind
        BY <1>r, <2>2 DEF TypeOK, CallRecords, Alone
      <3>2. QED
        BY <2>1, <2>2, <3>1, CallMoves DEF InSession, GoesOn
    <2>3. CASE Return(c, "cancelled")
      BY <2>1, <2>3 DEF Returns, Results
    <2>4. CASE SessionOver(c, call[c].result)
      BY <1>r, <2>1, <2>4, SessionOverCases
    <2>5. QED
      BY <1>8, <2>2, <2>3, <2>4 DEF CancelSession
  <1>9. ASSUME NEW kind \in Kinds, Request(c, kind)
        PROVE  Queues(c) \/ Begins(c)
    <2>1. c \notin Talking /\ UNCHANGED <<loop, envVars>>
      BY <1>9, TaskPhases DEF Request, Preempt, InSession
    <2>2. CASE MayEnter(c) /\ Begin(c, kind)
      BY <2>1, <2>2 DEF Begins
    <2>3. CASE /\ call' = [call EXCEPT ![c] =
                              [Idle EXCEPT !.phase = "waiting", !.kind = kind]]
               /\ UNCHANGED <<opLock, stateVars>>
      <3>1. Alone(c) /\ call'[c].phase = "waiting"
        BY <2>3 DEF Idle, TypeOK, Alone
      <3>2. QED
        BY <2>1, <2>3, <3>1, CallMoves DEF InSession, Queues
    <2>4. QED
      BY <1>9, <2>2, <2>3 DEF Request
  <1>10. QED
    BY <1>1, <1>2, <1>3, <1>4, <1>5, <1>6, <1>7, <1>8, <1>9 DEF CallStep, Cancel

LEMMA BeginsCases ==
    ASSUME TypeOK, NEW c \in Calls, Begins(c)
    PROVE  /\ Alone(c) /\ waiters' = Rest /\ isLocked' = isLocked
           /\ \/ call'[c].kind = "read" /\ c \in Talking' /\ UNCHANGED <<stateVars, reachable>>
              \/ /\ call'[c].kind # "read" /\ c \in Talking'
                 /\ inProgress' /\ snapshot' = Built'
              \/ c \notin Talking' /\ UNCHANGED <<stateVars, reachable>>
  <1>1. PICK kind \in Kinds : Begin(c, kind)
    BY DEF Begins
  <1>2. UNCHANGED <<loop, reachable>>
    BY DEF Begins, envVars
  <1>3. CASE /\ call' = [call EXCEPT ![c] = [Idle EXCEPT !.phase = "connect"]]
             /\ UNCHANGED stateVars
    <2>1. Alone(c) /\ call'[c].phase = "connect" /\ call'[c].kind = "read"
      BY <1>3 DEF Idle, TypeOK, Alone
    <2>2. QED
      BY <1>1, <1>2, <1>3, <2>1, CallMoves DEF Begin, stateVars, InSession
  <1>4. CASE /\ kind # "read" /\ inProgress' /\ snapshot' = Built' /\ UNCHANGED isLocked
             /\ call' = [call EXCEPT ![c] =
                            [Idle EXCEPT !.phase = "connect", !.kind = kind]]
    <2>1. Alone(c) /\ call'[c].phase = "connect" /\ call'[c].kind # "read"
      BY <1>4 DEF Idle, TypeOK, Alone
    <2>2. QED
      BY <1>1, <1>2, <1>4, <2>1, CallMoves DEF Begin, stateVars, InSession
  <1>5. CASE call' = [call EXCEPT ![c] = Idle] /\ UNCHANGED stateVars
    <2>1. Alone(c) /\ call'[c].phase = "idle"
      BY <1>5 DEF Idle, TypeOK, Alone
    <2>2. QED
      BY <1>1, <1>2, <1>5, <2>1, CallMoves DEF Begin, stateVars, InSession
  <1>6. QED
    BY <1>1, <1>3, <1>4, <1>5 DEF Begin

LEMMA ReturnsCases ==
    ASSUME TypeOK, NEW c \in Calls, Returns(c)
    PROVE  /\ Alone(c) /\ c \notin Talking' /\ call'[c] = Idle
           /\ UNCHANGED <<waiters, loop>>
           /\ isLocked' \in Positions \union {isLocked}
           /\ inProgress' = (call[c].kind = "read" /\ inProgress)
           /\ lastOp' = lastOp /\ reachable' = reachable
           /\ \/ snapshot' = Built'
              \/ /\ call[c].kind = "read" /\ UNCHANGED <<isLocked, snapshot>>
                 /\ lastError' \in {lastError, "auth"}
  <1>1. PICK r \in Results : Return(c, r)
    BY DEF Returns
  <1>2. Alone(c) /\ call'[c] = Idle
    BY <1>1 DEF Return, TypeOK, Alone
  <1>3. c \notin Talking'
    BY <1>2, CallMoves DEF Returns, Idle, InSession
  <1>4. isLocked' \in Positions \union {isLocked}
    BY <1>1 DEF Return, Stored, Commanded, Positions
  <1>5. QED
    BY <1>1, <1>2, <1>3, <1>4
       DEF Return, Returns, Stored, ErrorOf, InProgressAfter, Pushes

--------------------------------------------------------------------------------
(* The operation flag shown to the user.                                     *)

LEMMA BusyIsTalking ==
    /\ InProgressExact
          <=> (inProgress <=> \E c \in Calls \cap Talking : call[c].kind # "read")
    /\ InProgressExact'
          <=> (inProgress' <=> \E c \in Calls \cap Talking' : call'[c].kind # "read")
  BY ConstantsOK DEF InProgressExact, Talking

LEMMA CallProgress ==
    ASSUME TypeOK, TypeOK', LockMatchesTasks, LockMatchesTasks', InProgressExact,
           NEW c \in Calls, GoesOn(c) \/ Queues(c) \/ Begins(c) \/ Returns(c)
    PROVE  InProgressExact'
  <1> DEFINE busy == \E d \in Calls \cap Talking : call[d].kind # "read"
  <1>1. inProgress <=> busy
    BY BusyIsTalking
  <1>2. InProgressExact' <=> (inProgress' <=> busy')
    BY BusyIsTalking
  <1>3. \A s, t \in Talking : s = t
    BY DEF LockMatchesTasks
  <1>4. \A s, t \in Talking' : s = t
    BY DEF LockMatchesTasks
  <1>5. inProgress \in BOOLEAN /\ inProgress' \in BOOLEAN
    BY DEF TypeOK
  <1>6. CASE GoesOn(c)
    <2>1. busy <=> call[c].kind # "read"
      BY <1>3, <1>6 DEF GoesOn
    <2>2. busy' <=> call'[c].kind # "read"
      BY <1>4, <1>6 DEF GoesOn
    <2>3. QED
      BY <1>1, <1>2, <1>6, <2>1, <2>2 DEF GoesOn, stateVars
  <1>7. CASE Queues(c)
    <2>1. Talking = Talking'
      BY <1>7 DEF Queues, LockMatchesTasks
    <2>2. busy <=> busy'
      BY <1>7, <2>1 DEF Queues, Alone
    <2>3. QED
      BY <1>1, <1>2, <1>7, <2>2 DEF Queues, stateVars
  <1>8. CASE Begins(c)
    <2>1. ~busy
      BY <1>8 DEF Begins, MayEnter, LockMatchesTasks
    <2>2. CASE c \in Talking'
      <3>1. busy' <=> call'[c].kind # "read"
        BY <1>4, <2>2
      <3>2. QED
        BY <1>1, <1>2, <1>5, <1>8, <2>1, <2>2, <3>1, BeginsCases DEF stateVars
    <2>3. CASE c \notin Talking'
      <3>1. Talking' \cap Calls = {}
        BY <1>8, <2>3, BeginsCases
           DEF Begins, MayEnter, LockMatchesTasks, Alone, Talking
      <3>2. QED
        BY <1>1, <1>2, <1>8, <2>1, <2>3, <3>1, BeginsCases DEF stateVars
    <2>4. QED
      BY <2>2, <2>3
  <1>9. CASE Returns(c)
    <2>1. busy <=> call[c].kind # "read"
      BY <1>3, <1>9 DEF Returns
    <2>2. ~busy'
      BY <1>3, <1>9, ReturnsCases DEF Returns, Alone, Talking
    <2>3. QED
      BY <1>1, <1>2, <1>5, <1>9, <2>1, <2>2, ReturnsCases
  <1>10. QED
    BY <1>6, <1>7, <1>8, <1>9

\* operation_in_progress is shown exactly while an operation runs.
THEOREM ProgressFlag == Spec => []InProgressExact
  <1>1. Init => InProgressExact
    BY DEF Init, InProgressExact, Idle, InSession
  <1>2. /\ TypeOK /\ TypeOK' /\ LockMatchesTasks /\ LockMatchesTasks'
        /\ InProgressExact /\ [Next]_vars
        => InProgressExact'
    <2> SUFFICES ASSUME TypeOK, TypeOK', LockMatchesTasks, LockMatchesTasks',
                        InProgressExact, [Next]_vars
                 PROVE  InProgressExact'
      OBVIOUS
    <2>1. ASSUME NEW c \in Calls,
                 \/ CallStep(c) \/ Cancel(c)
                 \/ \E kind \in Methods : Request(c, kind)
          PROVE  InProgressExact'
      <3>1. CallStep(c) \/ Cancel(c) \/ \E kind \in Kinds : Request(c, kind)
        BY <2>1, ConstantsOK
      <3>2. QED
        BY <3>1, CallCases, CallProgress
    <2>2. CASE UNCHANGED <<call, inProgress>>
      BY <2>2 DEF InProgressExact
    <2>3. LoopStep \/ Push \/ ListenEnds \/ StopRealtime => UNCHANGED <<call, inProgress>>
      BY DEF LoopStep, LoopWakes, LoopGranted, ListenConnects, ListenNotConnected,
             ListenCancelled, ListenDisconnects, ListenOver, Push, ListenEnds,
             StopRealtime, stateVars
    <2>4. BluetoothChanges \/ BoltTurned \/ StrayDrops \/ UNCHANGED vars
          => UNCHANGED <<call, inProgress>>
      BY DEF BluetoothChanges, BoltTurned, StrayDrops, stateVars, vars
    <2>5. QED
      BY <2>1, <2>2, <2>3, <2>4 DEF Next
  <1>3. QED
    BY <1>1, <1>2, TypeCorrect, LockAccounting, PTL DEF Spec

--------------------------------------------------------------------------------
(* Reports are stored in the order they came.                                *)

\* While a call holds a report it has yet to store, nobody else changes the
\* stored position.
THEOREM ReportOrder == Spec => ReportsAppliedInOrder
  <1> DEFINE inOrder ==
        \A c \in Calls : Pending(c) /\ isLocked' # isLocked => ~Pending(c)'
  <1>1. TypeOK /\ LockMatchesTasks /\ [Next]_vars => [inOrder]_vars
    <2> SUFFICES ASSUME TypeOK, LockMatchesTasks, Next, NEW c \in Calls,
                        Pending(c), isLocked' # isLocked
                 PROVE  ~Pending(c)'
      BY DEF vars
    <2>1. c \in Talking /\ Talking = {c} /\ loop # "listen"
      BY TaskPhases, ConstantsOK DEF Pending, InSession, LockMatchesTasks, Tasks
    <2>2. ASSUME NEW d \in Calls,
                 \/ CallStep(d) \/ Cancel(d)
                 \/ \E kind \in Methods : Request(d, kind)
          PROVE  Returns(d)
      <3>1. CallStep(d) \/ Cancel(d) \/ \E kind \in Kinds : Request(d, kind)
        BY <2>2, ConstantsOK
      <3>2. GoesOn(d) \/ Queues(d) \/ Begins(d) \/ Returns(d)
        BY <3>1, CallCases
      <3>3. ~GoesOn(d) /\ ~Queues(d) /\ ~Begins(d)
        BY BeginsCases DEF GoesOn, Queues, stateVars
      <3>4. QED
        BY <3>2, <3>3
    <2>3. ASSUME NEW d \in Calls, Returns(d) PROVE call'[c] = Idle
      BY <2>1, <2>3, ReturnsCases DEF Returns
    <2>4. ~(LoopStep \/ Push \/ ListenEnds \/ StopRealtime)
      BY <2>1 DEF LoopStep, LoopWakes, LoopGranted, ListenConnects, ListenNotConnected,
             ListenCancelled, ListenDisconnects, ListenOver, Push, ListenEnds,
             StopRealtime, stateVars
    <2>5. ~(BluetoothChanges \/ BoltTurned \/ StrayDrops)
      BY DEF BluetoothChanges, BoltTurned, StrayDrops, stateVars
    <2>6. call'[c] = Idle
      BY <2>2, <2>3, <2>4, <2>5 DEF Next
    <2>7. QED
      BY <2>6 DEF Pending, Idle
  <1>2. QED
    BY <1>1, TypeCorrect, LockAccounting, PTL DEF Spec, ReportsAppliedInOrder

--------------------------------------------------------------------------------
(* Where the stored position comes from.                                     *)

LEMMA StoringResults ==
    ASSUME NEW c \in Calls, NEW r, SessionOver(c, r), isLocked' # isLocked
    PROVE  \/ r \in Positions /\ isLocked' = r
           \/ call[c].kind \in Actuations /\ r = "none" /\ isLocked' = Commanded(call[c].kind)
  <1>1. PICK s \in {r, "operation"} : Return(c, s) /\ (s # r => Writing(c))
    BY DEF SessionOver, stateVars
  <1>2. isLocked' = Stored(call[c].kind, s)
    BY <1>1 DEF Return
  <1>3. s = r
    BY <1>1, <1>2 DEF Stored, Positions, Writing, Actuations
  <1>4. QED
    BY <1>2, <1>3 DEF Stored

LEMMA CallStores ==
    ASSUME NEW c \in Calls, CallStep(c) \/ Cancel(c), isLocked' # isLocked
    PROVE  \/ Pending(c) /\ isLocked' = call[c].result
           \/ Unreported(c) /\ isLocked' = Commanded(call[c].kind)
  <1>1. CASE ConnectFails(c)
    <2>1. PICK r : /\ SessionOver(c, r)
                   /\ r \in IF Reading(c) THEN {"none", "auth"} ELSE Failures(call[c].kind)
      BY <1>1 DEF ConnectFails
    <2>2. r \notin Positions
      BY <2>1 DEF Failures, Positions, Errors
    <2>3. call[c].kind \in Actuations => r # "none"
      BY <2>1 DEF Failures, Errors, Reading, Actuations
    <2>4. QED
      BY <2>1, <2>2, <2>3, StoringResults
  <1>2. CASE call[c].phase = "disconnect" /\ SessionOver(c, call[c].result)
    BY <1>2, StoringResults DEF Pending, Unreported
  <1>3. ~Return(c, "cancelled")
    BY DEF Return, Stored, Positions
  <1>4. CASE Cancel(c)
    BY <1>2, <1>3, <1>4 DEF Cancel, CancelWaiting, CancelSession, stateVars
  <1>5. CASE Woken(c)
    BY <1>5 DEF Woken, Begin, stateVars
  <1>6. CASE Connect(c) \/ Actuate(c) \/ Exchange(c) \/ GapOver(c)
    BY <1>6 DEF Connect, Actuate, Exchange, GapOver, stateVars
  <1>7. CASE Disconnect(c)
    BY <1>2, <1>7 DEF Disconnect
  <1>8. QED
    BY <1>1, <1>4, <1>5, <1>6, <1>7 DEF CallStep

\* The stored position is one the lock reported to the session that stores it, or
\* the commanded one after an actuation without a report; a failed or cancelled
\* actuation, a settings write and a lost connection leave it alone.
THEOREM PositionSources == Spec => PositionIsAccountedFor
  <1> DEFINE accounted ==
        isLocked' # isLocked =>
          \/ loop = "listen" /\ isLocked' = bolt
          \/ \E c \in Calls : Pending(c) /\ isLocked' = call[c].result
          \/ \E c \in Calls : Unreported(c) /\ isLocked' = Commanded(call[c].kind)
  <1>1. Next => accounted
    <2> SUFFICES ASSUME Next, isLocked' # isLocked PROVE accounted
      OBVIOUS
    <2>1. ASSUME NEW c \in Calls, CallStep(c) \/ Cancel(c) PROVE accounted
      BY <2>1, CallStores
    <2>2. CASE Push
      BY <2>2 DEF Push
    <2>3. ASSUME NEW c \in Calls, NEW kind \in Methods, Request(c, kind) PROVE FALSE
      BY <2>3 DEF Request, Begin, stateVars
    <2>4. ~(LoopStep \/ ListenEnds \/ StopRealtime)
      BY DEF LoopStep, LoopWakes, LoopGranted, ListenConnects, ListenNotConnected,
             ListenCancelled, ListenDisconnects, ListenOver, ListenEnds, StopRealtime,
             stateVars
    <2>5. ~(BluetoothChanges \/ BoltTurned \/ StrayDrops)
      BY DEF BluetoothChanges, BoltTurned, StrayDrops, stateVars
    <2>6. QED
      BY <2>1, <2>2, <2>3, <2>4, <2>5 DEF Next
  <1>2. QED
    BY <1>1, PTL DEF Spec, PositionIsAccountedFor

--------------------------------------------------------------------------------
(* What the entities were last given.                                        *)

LEMMA BuiltFields ==
    /\ SnapshotCurrent <=>
          /\ snapshot.reachable = reachable /\ snapshot.inProgress = inProgress
          /\ snapshot.lastOp = lastOp /\ snapshot.isLocked = isLocked
          /\ snapshot.lastError = lastError \/ lastError = "auth"
    /\ SnapshotCurrent' <=>
          /\ snapshot'.reachable = reachable' /\ snapshot'.inProgress = inProgress'
          /\ snapshot'.lastOp = lastOp' /\ snapshot'.isLocked = isLocked'
          /\ snapshot'.lastError = lastError' \/ lastError' = "auth"
    /\ snapshot' = Built' => SnapshotCurrent'
  BY DEF SnapshotCurrent, Built

\* Every path that changes reachability, position, operation or error type pushes
\* it, a rejected login of a background read excepted.
THEOREM PushedState == Spec => []SnapshotCurrent
  <1>1. Init => SnapshotCurrent
    BY DEF Init, Built, SnapshotCurrent
  <1>2. TypeOK /\ SnapshotCurrent /\ [Next]_vars => SnapshotCurrent'
    <2> SUFFICES ASSUME TypeOK, SnapshotCurrent, [Next]_vars PROVE SnapshotCurrent'
      OBVIOUS
    <2>1. CASE UNCHANGED <<stateVars, reachable>>
      BY <2>1, BuiltFields DEF stateVars
    <2>2. ASSUME NEW c \in Calls,
                 \/ CallStep(c) \/ Cancel(c)
                 \/ \E kind \in Methods : Request(c, kind)
          PROVE  SnapshotCurrent'
      <3>1. CallStep(c) \/ Cancel(c) \/ \E kind \in Kinds : Request(c, kind)
        BY <2>2, ConstantsOK
      <3>2. GoesOn(c) \/ Queues(c) \/ Begins(c) \/ Returns(c)
        BY <3>1, CallCases
      <3>3. CASE GoesOn(c) \/ Queues(c)
        BY <2>1, <3>3 DEF GoesOn, Queues
      <3>4. CASE Begins(c)
        BY <2>1, <3>4, BeginsCases, BuiltFields
      <3>5. CASE Returns(c)
        <4>1. snapshot' = Built' => SnapshotCurrent'
          BY BuiltFields
        <4>2. CASE /\ call[c].kind = "read" /\ UNCHANGED <<isLocked, snapshot>>
                   /\ lastError' \in {lastError, "auth"}
          <5>1. inProgress' = inProgress
            BY <3>5, <4>2, ReturnsCases DEF TypeOK
          <5>2. QED
            BY <3>5, <4>2, <5>1, ReturnsCases, BuiltFields
        <4>3. QED
          BY <3>5, <4>1, <4>2, ReturnsCases
      <3>6. QED
        BY <3>2, <3>3, <3>4, <3>5
    <2>3. Push \/ BluetoothChanges => SnapshotCurrent'
      BY BuiltFields DEF Push, BluetoothChanges
    <2>4. LoopStep \/ ListenEnds \/ StopRealtime => UNCHANGED <<stateVars, reachable>>
      BY DEF LoopStep, LoopWakes, LoopGranted, ListenConnects, ListenNotConnected,
             ListenCancelled, ListenDisconnects, ListenOver, ListenEnds, StopRealtime,
             envVars
    <2>5. BoltTurned \/ StrayDrops \/ UNCHANGED vars => UNCHANGED <<stateVars, reachable>>
      BY DEF BoltTurned, StrayDrops, vars, envVars
    <2>6. QED
      BY <2>1, <2>2, <2>3, <2>4, <2>5 DEF Next
  <1>3. QED
    BY <1>1, <1>2, TypeCorrect, PTL DEF Spec

--------------------------------------------------------------------------------
(* Refinement: the coordinator implements FairAccess.                        *)

LEMMA JoinRefines ==
    ASSUME NEW t \in Tasks, t \notin Talking, t \notin Range(waiters),
           waiters' = Append(waiters, t), Talking' = Talking, UNCHANGED isLocked
    PROVE  Access!Next
  BY DEF Access!Next, Access!Join, Range, Access!Range

LEMMA GiveUpRefines ==
    ASSUME NEW t \in Tasks, LeaveQueue(t), Talking' = Talking, UNCHANGED isLocked
    PROVE  Access!Next
  BY DEF Access!Next, Access!GiveUp, LeaveQueue, RemoveAt, Access!RemoveAt

LEMMA EnterRefines ==
    ASSUME NEW t \in Tasks, MayEnter(t), Talking = {}, waiters' = Rest,
           Talking' \in {{}, {t}}, UNCHANGED isLocked
    PROVE  [Access!Next]_<<Talking, waiters, isLocked>>
  <1>1. CASE Talking' = {t}
    BY <1>1 DEF Access!Next, Access!Start, Rest, MayEnter
  <1>2. CASE Talking' = {} /\ waiters # <<>>
    BY <1>2 DEF Access!Next, Access!Refused, Rest, MayEnter
  <1>3. CASE Talking' = {} /\ waiters = <<>>
    BY <1>3 DEF Rest
  <1>4. QED
    BY <1>1, <1>2, <1>3

LEMMA FinishRefines ==
    ASSUME NEW t \in Tasks, t \in Talking, Talking' = Talking \ {t},
           isLocked' \in Positions \union {isLocked}, UNCHANGED waiters
    PROVE  Access!Next
  BY DEF Access!Next, Access!Finish

LEMMA CallRefines ==
    ASSUME TypeOK, LockMatchesTasks, NEW c \in Calls,
           CallStep(c) \/ Cancel(c) \/ \E kind \in Kinds : Request(c, kind)
    PROVE  [Access!Next]_<<Talking, waiters, isLocked>>
  <1>0. c \in Tasks
    BY DEF Tasks
  <1>1. CASE GoesOn(c)
    <2>1. Talking' = Talking
      BY <1>1, CallMoves DEF GoesOn
    <2>2. QED
      BY <1>1, <2>1 DEF GoesOn, lockVars, stateVars
  <1>2. CASE Begins(c)
    <2>1. Talking = {}
      BY <1>2 DEF Begins, MayEnter, LockMatchesTasks
    <2>2. Talking' \in {{}, {c}}
      BY <1>2, <2>1, BeginsCases, CallMoves DEF Begins
    <2>3. QED
      BY <1>0, <1>2, <2>1, <2>2, BeginsCases, EnterRefines DEF Begins
  <1>3. CASE Returns(c)
    <2>1. Talking' = Talking \ {c}
      BY <1>3, ReturnsCases, CallMoves DEF Returns, Idle, InSession
    <2>2. QED
      BY <1>0, <1>3, <2>1, ReturnsCases, FinishRefines DEF Returns
  <1>4. CASE CancelWaiting(c)
    <2>1. Alone(c) /\ call'[c].phase = "idle" /\ UNCHANGED <<loop, isLocked>>
      BY <1>4 DEF CancelWaiting, Idle, TypeOK, Alone, loopVars, stateVars
    <2>2. Talking' = Talking
      BY <1>4, <2>1, TaskPhases, CallMoves DEF CancelWaiting, InSession
    <2>3. QED
      BY <1>0, <1>4, <2>1, <2>2, GiveUpRefines DEF CancelWaiting
  <1>5. ASSUME NEW kind \in Kinds, Request(c, kind), ~Begins(c)
        PROVE  [Access!Next]_<<Talking, waiters, isLocked>>
    <2>1. /\ waiters' = Append(waiters, c)
          /\ call' = [call EXCEPT ![c] =
                         [Idle EXCEPT !.phase = "waiting", !.kind = kind]]
          /\ UNCHANGED <<isLocked, loop>>
      BY <1>5, TaskPhases DEF Request, Begins, Preempt, InSession, stateVars, envVars
    <2>2. c \notin Talking /\ c \notin Range(waiters)
      BY <1>5, TaskPhases DEF Request, InSession, LockMatchesTasks
    <2>3. Alone(c) /\ call'[c].phase = "waiting"
      BY <2>1 DEF Idle, TypeOK, Alone
    <2>4. call'[c].phase \notin InSession /\ loop' = loop
      BY <2>1, <2>3 DEF InSession
    <2>5. Talking' = Talking \ {c}
      BY <2>3, <2>4, CallMoves
    <2>6. QED
      BY <1>0, <2>1, <2>2, <2>5, JoinRefines
  <1>6. CASE Queues(c) /\ (CallStep(c) \/ CancelSession(c))
    <2>1. c \notin Talking /\ c \notin Talking'
      BY <1>6 DEF Queues
    <2>2. Woken(c)
      BY <1>6, <2>1, TaskPhases
         DEF CallStep, CancelSession, Connect, ConnectFails, Actuate, Exchange,
             Disconnect, GapOver, InSession
    <2>3. Begins(c)
      BY <2>1, <2>2 DEF Woken, Begins, loopVars, TypeOK, CallRecords
    <2>4. QED
      BY <1>2, <2>3
  <1>7. QED
    BY <1>1, <1>2, <1>3, <1>4, <1>5, <1>6, CallCases DEF Cancel

LEMMA LoopRefines ==
    ASSUME TypeOK, LockMatchesTasks,
           LoopStep \/ Push \/ ListenEnds \/ StopRealtime
    PROVE  [Access!Next]_<<Talking, waiters, isLocked>>
  <1> USE DEF lockVars, stateVars
  <1>0. Loop \in Tasks
    BY DEF Tasks
  <1>1. UNCHANGED call
    BY DEF LoopStep, LoopWakes, LoopGranted, ListenConnects, ListenNotConnected,
           ListenCancelled, ListenDisconnects, ListenOver, Push, ListenEnds, StopRealtime
  <1>2. CASE waiters' = Rest /\ MayEnter(Loop) /\ loop' = "connect" /\ UNCHANGED isLocked
    <2>1. Talking = {} /\ Talking' = {Loop}
      BY <1>0, <1>1, <1>2, EnterFacts, LoopMoves DEF InSession
    <2>2. QED
      BY <1>0, <1>2, <2>1, EnterRefines
  <1>3. CASE /\ loop = "pause" /\ loop' = "waiting"
             /\ waiters' = Append(waiters, Loop) /\ UNCHANGED isLocked
    <2>1. Loop \notin Range(waiters) /\ Loop \notin Talking
      BY <1>3, TaskPhases DEF InSession, LockMatchesTasks
    <2>2. Talking' = Talking
      BY <1>1, <1>3, <2>1, LoopMoves DEF InSession
    <2>3. QED
      BY <1>0, <1>3, <2>1, <2>2, JoinRefines
  <1>4. CASE /\ loop \in InSession /\ loop' \in {"pause", "ended"}
             /\ UNCHANGED <<waiters, isLocked>>
    <2>1. Loop \in Talking
      BY <1>4, TaskPhases
    <2>2. Talking' = Talking \ {Loop}
      BY <1>1, <1>4, LoopMoves DEF InSession
    <2>3. QED
      BY <1>0, <1>4, <2>1, <2>2, FinishRefines
  <1>5. CASE /\ UNCHANGED <<waiters, isLocked>>
             /\ loop' \in InSession <=> loop \in InSession
    <2>1. Talking' = Talking
      BY <1>1, <1>5, LoopMoves, TaskPhases
    <2>2. QED
      BY <1>5, <2>1
  <1>6. CASE loop = "waiting" /\ loop' = "ended" /\ LeaveQueue(Loop) /\ UNCHANGED isLocked
    <2>1. Talking' = Talking
      BY <1>1, <1>6, LoopMoves, TaskPhases DEF InSession
    <2>2. QED
      BY <1>0, <1>6, <2>1, GiveUpRefines
  <1>7. CASE LoopStep
    <2> USE DEF InSession, ListenOver
    <2>1. CASE LoopWakes
      BY <2>1, <1>2, <1>3, <1>5 DEF LoopWakes
    <2>2. CASE LoopGranted
      BY <2>2, <1>2 DEF LoopGranted
    <2>3. CASE ListenConnects \/ ListenCancelled
      BY <2>3, <1>5 DEF ListenConnects, ListenCancelled
    <2>4. CASE ListenNotConnected \/ ListenDisconnects
      BY <2>4, <1>4 DEF ListenNotConnected, ListenDisconnects
    <2>5. QED
      BY <1>7, <2>1, <2>2, <2>3, <2>4 DEF LoopStep
  <1>8. CASE Push
    <2>1. Loop \in Talking
      BY <1>8, TaskPhases DEF Push, InSession
    <2>2. UNCHANGED <<waiters, loop>> /\ isLocked' \in Positions
      BY <1>8 DEF Push, loopVars, TypeOK
    <2>3. Talking' = Talking
      BY <1>1, <2>2 DEF Talking
    <2>4. Access!Hear(Loop)
      BY <2>1, <2>2, <2>3 DEF Access!Hear
    <2>5. QED
      BY <1>0, <2>4 DEF Access!Next
  <1>9. CASE ListenEnds
    BY <1>9, <1>5 DEF ListenEnds, InSession
  <1>10. CASE StopRealtime
    BY <1>10, <1>5, <1>6 DEF StopRealtime, InSession
  <1>11. QED
    BY <1>7, <1>8, <1>9, <1>10

\* Every behaviour of the coordinator is one of fair, exclusive access: one task
\* at a time, in arrival order, and the position changes only in a session.
THEOREM Refinement == Spec => ImplementsFairAccess
  <1>1. Init => Access!Init
    BY DEF Init, Access!Init, Talking, Idle, InSession, Positions
  <1>2. TypeOK /\ LockMatchesTasks /\ [Next]_vars
        => [Access!Next]_<<Talking, waiters, isLocked>>
    <2> SUFFICES ASSUME TypeOK, LockMatchesTasks, [Next]_vars
                 PROVE  [Access!Next]_<<Talking, waiters, isLocked>>
      OBVIOUS
    <2>1. ASSUME NEW c \in Calls,
                 \/ CallStep(c) \/ Cancel(c)
                 \/ \E kind \in Methods : Request(c, kind)
          PROVE  [Access!Next]_<<Talking, waiters, isLocked>>
      <3>1. CallStep(c) \/ Cancel(c) \/ \E kind \in Kinds : Request(c, kind)
        BY <2>1, ConstantsOK
      <3>2. QED
        BY <3>1, CallRefines
    <2>2. BluetoothChanges \/ BoltTurned \/ StrayDrops \/ UNCHANGED vars
          => UNCHANGED <<Talking, waiters, isLocked>>
      BY DEF BluetoothChanges, BoltTurned, StrayDrops, vars, lockVars, loopVars,
             stateVars, Talking
    <2>3. QED
      BY <2>1, <2>2, LoopRefines DEF Next
  <1>3. QED
    BY <1>1, <1>2, TypeCorrect, LockAccounting, PTL
       DEF Spec, ImplementsFairAccess, Access!Spec, Access!fvars

--------------------------------------------------------------------------------
(* Arrival order.                                                            *)

\* The same specification, with what FairAccessProofs shows of it.
Proved == INSTANCE FairAccessProofs WITH
    talking <- Talking, line <- waiters, shown <- isLocked, Values <- Positions

\* Two instances of one module: what one can do the other can.
LEMMA SameSteps ==
    /\ Access!Init => Proved!Init
    /\ [Access!Next]_Access!fvars => [Proved!Next]_Proved!fvars
  <1>1. Access!Init => Proved!Init
    BY DEF Access!Init, Proved!Init
  <1>2. ASSUME NEW t \in Tasks
        PROVE  /\ Access!Join(t) => Proved!Join(t)
               /\ Access!GiveUp(t) => Proved!GiveUp(t)
               /\ Access!Start(t) => Proved!Start(t)
               /\ Access!Refused(t) => Proved!Refused(t)
               /\ Access!Hear(t) => Proved!Hear(t)
               /\ Access!Finish(t) => Proved!Finish(t)
    BY DEF Access!Join, Access!GiveUp, Access!Start, Access!Refused, Access!Hear,
           Access!Finish, Proved!Join, Proved!GiveUp, Proved!Start, Proved!Refused,
           Proved!Hear, Proved!Finish, Access!Range, Access!RemoveAt, Proved!Range,
           Proved!RemoveAt
  <1>3. Access!Next => Proved!Next
    BY <1>2 DEF Access!Next, Proved!Next
  <1>4. UNCHANGED Access!fvars => UNCHANGED Proved!fvars
    BY DEF Access!fvars, Proved!fvars
  <1>5. QED
    BY <1>1, <1>3, <1>4

\* The lock is granted in the order in which it was asked for, whatever gives up, fails
\* or is cancelled in between: what FairAccess promises, the coordinator keeps.
THEOREM ArrivalOrder == Spec => Access!NobodyOvertakes
  <1>1. Access!Spec => Proved!Spec
    BY SameSteps, PTL DEF Access!Spec, Proved!Spec
  <1>2. [\A s, t \in Tasks :
             s \in Proved!Range(waiters) /\ s # t /\ ~Proved!Ahead(t, s) /\ t \notin Talking
             => t \notin Talking' /\ ~Proved!Ahead(t, s)']_Proved!fvars
        => [\A s, t \in Tasks :
             s \in Access!Range(waiters) /\ s # t /\ ~Access!Ahead(t, s) /\ t \notin Talking
             => t \notin Talking' /\ ~Access!Ahead(t, s)']_Access!fvars
    BY DEF Proved!Ahead, Access!Ahead, Proved!fvars, Access!fvars, Proved!Range, Access!Range
  <1>3. Proved!NobodyOvertakes => Access!NobodyOvertakes
    BY <1>2, PTL DEF Proved!NobodyOvertakes, Access!NobodyOvertakes
  <1>4. QED
    BY Refinement, Proved!FirstComeFirstServed, <1>1, <1>3, PTL
       DEF ImplementsFairAccess

--------------------------------------------------------------------------------
(* How long a call can hold the lock.                                        *)

LEMMA Ranks ==
    ASSUME NEW k \in CallRecords
    PROVE  /\ ReadAttempts \in Nat \ {0} /\ k.tries \in 0..(ReadAttempts - 1)
           /\ k.phase = "waiting" => Remaining(k) = 4 * ReadAttempts + 4
           /\ k.phase # "idle" => Remaining(k) > 0
  <1>1. ReadAttempts \in Nat \ {0} /\ k.tries \in 0..(ReadAttempts - 1)
    BY ConstantsOK DEF CallRecords
  <1>2. QED
    BY <1>1 DEF Remaining

LEMMA ReturnAdvances ==
    ASSUME TypeOK, NEW c \in Calls, call[c].phase # "idle",
           call' = [call EXCEPT ![c] = Idle]
    PROVE  Remaining(call'[c]) < Remaining(call[c])
  <1>1. call[c] \in CallRecords /\ call'[c] = Idle
    BY DEF TypeOK
  <1>2. Remaining(call'[c]) = 0
    BY <1>1 DEF Remaining, Idle
  <1>3. QED
    BY <1>1, <1>2, Ranks

LEMMA SessionOverAdvances ==
    ASSUME TypeOK, NEW c \in Calls, call[c].phase \in {"connect", "disconnect"},
           NEW r \in Results, SessionOver(c, r)
    PROVE  Remaining(call'[c]) < Remaining(call[c])
  <1> DEFINE k == call[c]
  <1>1. k \in CallRecords /\ ReadAttempts \in Nat \ {0} /\ k.tries \in 0..(ReadAttempts - 1)
    BY Ranks DEF TypeOK
  <1>2. CASE /\ Retries(c, r)
             /\ call' = [call EXCEPT ![c] =
                           [@ EXCEPT !.phase = "gap", !.tries = call[c].tries + 1]]
    <2>1. /\ k.kind = "read" \/ (k.kind = "set" /\ k.wrote)
          /\ k.tries < ReadAttempts - 1
      BY <1>2 DEF Retries, Reading
    <2>2. call'[c] = [k EXCEPT !.phase = "gap", !.tries = k.tries + 1]
      BY <1>2 DEF TypeOK
    <2>3. Remaining(call'[c]) = 4 * (ReadAttempts - 1 - (k.tries + 1)) + 4
      BY <1>1, <2>1, <2>2 DEF Remaining, CallRecords
    <2>4. \/ Remaining(k) = 4 * (ReadAttempts - 1 - k.tries) + 3
          \/ Remaining(k) = 4 * (ReadAttempts - 1 - k.tries) + 1
      BY <1>1, <2>1 DEF Remaining
    <2>5. QED
      BY <1>1, <2>3, <2>4
  <1>3. CASE /\ Writing(c)
             /\ call' = [call EXCEPT ![c] =
                           [@ EXCEPT !.phase = "connect", !.wrote = TRUE, !.result = "none"]]
    <2>1. k.kind = "set" /\ ~k.wrote
      BY <1>3 DEF Writing
    <2>2. call'[c] = [k EXCEPT !.phase = "connect", !.wrote = TRUE, !.result = "none"]
      BY <1>3 DEF TypeOK
    <2>3. Remaining(call'[c]) = 4 * (ReadAttempts - 1 - k.tries) + 3
      BY <1>1, <2>1, <2>2 DEF Remaining, CallRecords
    <2>4. Remaining(k) = 4 * ReadAttempts + 3 \/ Remaining(k) = 4 * ReadAttempts + 1
      BY <1>1, <2>1 DEF Remaining
    <2>5. QED
      BY <1>1, <2>3, <2>4
  <1>4. CASE Return(c, "operation") \/ Return(c, r)
    BY <1>4, ReturnAdvances DEF Return
  <1>5. QED
    BY <1>2, <1>3, <1>4, Zenon DEF SessionOver

LEMMA CallAdvances ==
    ASSUME TypeOK, NEW c \in Calls, call[c].phase # "idle",
           CallStep(c) \/ Cancel(c) \/ \E kind \in Kinds : Request(c, kind)
    PROVE  Remaining(call'[c]) < Remaining(call[c])
  <1> DEFINE k == call[c]
  <1>1. /\ k \in CallRecords /\ k.result \in Results
        /\ ReadAttempts \in Nat \ {0} /\ k.tries \in 0..(ReadAttempts - 1)
    BY Ranks DEF TypeOK, CallRecords
  <1>2. ASSUME k.phase = "connect", call'[c] = [k EXCEPT !.phase = "talk"]
        PROVE  Remaining(call'[c]) < Remaining(k)
    BY <1>1, <1>2 DEF Remaining, CallRecords
  <1>14. ASSUME NEW r, k.phase = "gap",
                call'[c] = [k EXCEPT !.phase = "connect", !.result = r]
         PROVE  Remaining(call'[c]) < Remaining(k)
    BY <1>1, <1>14 DEF Remaining, CallRecords
  <1>3. ASSUME NEW r, k.phase = "talk",
               call'[c] = [k EXCEPT !.phase = "disconnect", !.result = r]
        PROVE  Remaining(call'[c]) < Remaining(k)
    BY <1>1, <1>3 DEF Remaining, CallRecords
  <1>4. CASE Woken(c)
    <2>1. PICK kind \in Kinds : Begin(c, kind)
      BY <1>1, <1>4 DEF Woken, CallRecords
    <2>2. k.phase = "waiting" /\ Remaining(k) = 4 * ReadAttempts + 4
      BY <1>1, <1>4, Ranks DEF Woken
    <2>3. CASE call' = [call EXCEPT ![c] = Idle]
      BY <2>3, ReturnAdvances
    <2>4. CASE \/ call' = [call EXCEPT ![c] = [Idle EXCEPT !.phase = "connect"]]
               \/ call' = [call EXCEPT ![c] = [Idle EXCEPT !.phase = "connect", !.kind = kind]]
      <3>1. /\ call'[c].phase = "connect" /\ call'[c].tries = 0
        BY <2>4 DEF TypeOK, Idle
      <3>2. \/ Remaining(call'[c]) = 4 * (ReadAttempts - 1 - 0) + 3
            \/ Remaining(call'[c]) = 4 * ReadAttempts + 3
        BY <3>1 DEF Remaining
      <3>3. QED
        BY <1>1, <2>2, <3>2
    <2>5. QED
      BY <2>1, <2>3, <2>4 DEF Begin
  <1>5. CASE Connect(c)
    BY <1>2, <1>5 DEF Connect, TypeOK
  <1>6. CASE ConnectFails(c)
    <2>1. PICK r \in Results : SessionOver(c, r)
      BY <1>6 DEF ConnectFails, Failures, Results, Errors
    <2>2. QED
      BY <1>6, <2>1, SessionOverAdvances DEF ConnectFails
  <1>7. CASE Actuate(c) \/ Exchange(c)
    BY <1>3, <1>7 DEF Actuate, Exchange, TypeOK
  <1>8. CASE Disconnect(c)
    BY <1>1, <1>8, SessionOverAdvances DEF Disconnect
  <1>9. CASE GapOver(c)
    BY <1>14, <1>9 DEF GapOver, TypeOK
  <1>10. CASE CancelWaiting(c)
    BY <1>10, ReturnAdvances DEF CancelWaiting
  <1>11. CASE CancelSession(c)
    <2>1. CASE Return(c, "cancelled")
      BY <2>1, ReturnAdvances DEF Return
    <2>2. CASE call[c].phase = "disconnect" /\ SessionOver(c, call[c].result)
      BY <1>1, <2>2, SessionOverAdvances
    <2>3. CASE /\ call[c].phase = "talk"
               /\ call' = [call EXCEPT ![c] =
                             [@ EXCEPT !.phase = "disconnect", !.result = "cancelled"]]
      BY <1>3, <2>3 DEF TypeOK
    <2>4. QED
      BY <1>11, <2>1, <2>2, <2>3 DEF CancelSession
  <1>12. ~\E kind \in Kinds : Request(c, kind)
    BY DEF Request
  <1>13. QED
    BY <1>4, <1>5, <1>6, <1>7, <1>8, <1>9, <1>10, <1>11, <1>12 DEF CallStep, Cancel

\* A call that holds the lock gives it back after a bounded number of its own steps, at
\* most ReadAttempts sessions for a read and one more for a settings write, and no
\* actuation is ever sent again, whatever fails or is cancelled.
THEOREM BoundedSessions == Spec => CallsAdvance
  <1> DEFINE advance ==
        \A c \in Calls : call[c].phase # "idle" /\ call'[c] # call[c]
                         => Remaining(call'[c]) < Remaining(call[c])
  <1>1. TypeOK /\ [Next]_vars => [advance]_vars
    <2> SUFFICES ASSUME TypeOK, Next, NEW c \in Calls, call[c].phase # "idle",
                        call'[c] # call[c]
                 PROVE  Remaining(call'[c]) < Remaining(call[c])
      BY DEF vars
    <2>1. ASSUME NEW d \in Calls,
                 \/ CallStep(d) \/ Cancel(d)
                 \/ \E kind \in Methods : Request(d, kind)
          PROVE  Remaining(call'[c]) < Remaining(call[c])
      <3>1. CallStep(d) \/ Cancel(d) \/ \E kind \in Kinds : Request(d, kind)
        BY <2>1, ConstantsOK
      <3>2. Alone(d)
        BY <3>1, CallCases, BeginsCases, ReturnsCases DEF GoesOn, Queues
      <3>3. c = d
        BY <3>2 DEF Alone
      <3>4. QED
        BY <3>1, <3>3, CallAdvances
    <2>2. LoopStep \/ Push \/ ListenEnds \/ StopRealtime => UNCHANGED call
      BY DEF LoopStep, LoopWakes, LoopGranted, ListenConnects, ListenNotConnected,
             ListenCancelled, ListenDisconnects, ListenOver, Push, ListenEnds,
             StopRealtime
    <2>3. BluetoothChanges \/ BoltTurned \/ StrayDrops => UNCHANGED call
      BY DEF BluetoothChanges, BoltTurned, StrayDrops
    <2>4. QED
      BY <2>1, <2>2, <2>3 DEF Next
  <1>2. QED
    BY <1>1, TypeCorrect, PTL DEF Spec, CallsAdvance

--------------------------------------------------------------------------------
(* The way down after the stop.                                              *)

\* The stop has reached the loop wherever it was: it is no longer in line, and a session
\* that could still begin to listen, or go on listening, has been told to end.
StopReached ==
    stop => loop # "waiting" /\ (loop \in {"connect", "listen"} => cancelPending)

LEMMA StopDelivered == Spec => []StopReached
  <1>1. Init => StopReached
    BY DEF Init, StopReached
  <1>2. TypeOK /\ StopReached /\ [Next]_vars => StopReached'
    <2> SUFFICES ASSUME TypeOK, StopReached, [Next]_vars PROVE StopReached'
      OBVIOUS
    <2> USE DEF StopReached, loopVars
    <2>1. CASE UNCHANGED loopVars
      BY <2>1
    <2>2. ASSUME NEW c \in Calls, CallStep(c) \/ Cancel(c) PROVE StopReached'
      <3>1. UNCHANGED loopVars
        BY <2>2 DEF CallStep, Cancel, CancelWaiting, CancelSession, Woken, Connect,
                    ConnectFails, Actuate, Exchange, Disconnect, GapOver
      <3>2. QED
        BY <2>1, <3>1
    <2>3. ASSUME NEW c \in Calls, NEW kind \in Methods, Request(c, kind) PROVE StopReached'
      <3>1. cancelPending => cancelPending'
        BY <2>3 DEF Request, Preempt
      <3>2. UNCHANGED <<loop, stop>>
        BY <2>3 DEF Request, Preempt
      <3>3. QED
        BY <3>1, <3>2
    <2>4. CASE LoopStep \/ Push \/ ListenEnds
      BY <2>4 DEF LoopStep, LoopWakes, LoopGranted, ListenConnects, ListenNotConnected,
                  ListenCancelled, ListenDisconnects, ListenOver, Push, ListenEnds
    <2>5. CASE StopRealtime
      <3>1. CASE loop \in InSession
        <4>1. cancelPending' /\ UNCHANGED loop
          BY <2>5, <3>1 DEF StopRealtime, InSession
        <4>2. QED
          BY <3>1, <4>1 DEF InSession
      <3>2. CASE loop \notin InSession
        BY <2>5, <3>2 DEF StopRealtime, InSession
      <3>3. QED
        BY <3>1, <3>2
    <2>6. CASE BluetoothChanges \/ BoltTurned \/ StrayDrops \/ UNCHANGED vars
      BY <2>1, <2>6 DEF BluetoothChanges, BoltTurned, StrayDrops, vars
    <2>7. QED
      BY <2>2, <2>3, <2>4, <2>5, <2>6 DEF Next
  <1>3. QED
    BY <1>1, <1>2, TypeCorrect, PTL DEF Spec

LEMMA WindingRanks ==
    /\ Winding["listen"] = 3 /\ Winding["connect"] = 2 /\ Winding["disconnect"] = 2
    /\ Winding["waiting"] = 1 /\ Winding["pause"] = 1 /\ Winding["ended"] = 0
  BY DEF Winding

\* Once stopped the loop only winds down; no swallowed cancellation and no earlier
\* preemption lets it ask for the lock or listen again.
THEOREM OrderlyStop == Spec => StoppedLoopWindsDown
  <1>1. StopReached /\ [Next]_vars
        => [stop /\ loop' # loop => Winding[loop'] < Winding[loop]]_vars
    <2> SUFFICES ASSUME StopReached, Next, stop, loop' # loop
                 PROVE  Winding[loop'] < Winding[loop]
      BY DEF vars
    <2>1. ASSUME NEW c \in Calls, CallStep(c) \/ Cancel(c) PROVE FALSE
      BY <2>1 DEF loopVars, CallStep, Cancel, CancelWaiting, CancelSession, Woken, Connect,
                  ConnectFails, Actuate, Exchange, Disconnect, GapOver
    <2>2. ASSUME NEW c \in Calls, NEW kind \in Methods, Request(c, kind) PROVE FALSE
      BY <2>2 DEF Request, Preempt
    <2>3. CASE LoopStep
      <3>1. \/ loop = "listen" /\ loop' = "disconnect"
            \/ loop \in {"connect", "disconnect"} /\ loop' \in {"pause", "ended"}
            \/ loop = "pause" /\ loop' = "ended"
        BY <2>3 DEF StopReached, LoopStep, LoopWakes, LoopGranted, ListenConnects,
                    ListenNotConnected, ListenCancelled, ListenDisconnects, ListenOver
      <3>2. QED
        BY <3>1, WindingRanks
    <2>4. CASE ListenEnds
      BY <2>4 DEF StopReached, ListenEnds
    <2>5. CASE Push \/ StopRealtime
      BY <2>5 DEF loopVars, Push, StopRealtime
    <2>6. CASE BluetoothChanges \/ BoltTurned \/ StrayDrops
      BY <2>6 DEF loopVars, BluetoothChanges, BoltTurned, StrayDrops
    <2>7. QED
      BY <2>1, <2>2, <2>3, <2>4, <2>5, <2>6 DEF Next
  <1>2. QED
    BY <1>1, StopDelivered, PTL DEF Spec, StoppedLoopWindsDown

--------------------------------------------------------------------------------
(* The cancellation of a listen.                                             *)

LEMMA InSessionPhases ==
    /\ {"connect", "disconnect", "listen"} \subseteq InSession
    /\ "pause" \notin InSession /\ "ended" \notin InSession /\ "waiting" \notin InSession
  BY DEF InSession

\* Only a listen under way is ever told to end; one that obeys is disconnecting.
ToldInSession ==
    /\ cancelPending => loop \in InSession
    /\ unwinding => loop = "disconnect"

LEMMA ToldOnlyInSession == Spec => []ToldInSession
  <1>1. Init => ToldInSession
    BY DEF Init, ToldInSession
  <1>2. TypeOK /\ ToldInSession /\ [Next]_vars => ToldInSession'
    <2> SUFFICES ASSUME TypeOK, ToldInSession, [Next]_vars PROVE ToldInSession'
      OBVIOUS
    <2> USE DEF ToldInSession, loopVars
    <2>1. CASE UNCHANGED loopVars
      BY <2>1
    <2>2. ASSUME NEW c \in Calls, CallStep(c) \/ Cancel(c) PROVE ToldInSession'
      <3>1. UNCHANGED loopVars
        BY <2>2 DEF CallStep, Cancel, CancelWaiting, CancelSession, Woken, Connect,
                    ConnectFails, Actuate, Exchange, Disconnect, GapOver
      <3>2. QED
        BY <2>1, <3>1
    <2>3. ASSUME NEW c \in Calls, NEW kind \in Methods, Request(c, kind) PROVE ToldInSession'
      BY <2>3 DEF Request, Preempt
    <2>4. CASE LoopStep
      <3>1. CASE LoopWakes \/ LoopGranted \/ ListenConnects
        BY <3>1, InSessionPhases DEF LoopWakes, LoopGranted, ListenConnects
      <3>2. CASE ListenCancelled
        BY <3>2 DEF ListenCancelled
      <3>3. CASE ListenNotConnected \/ ListenDisconnects
        BY <3>3 DEF ListenNotConnected, ListenDisconnects, ListenOver
      <3>4. QED
        BY <2>4, <3>1, <3>2, <3>3 DEF LoopStep
    <2>8. CASE Push \/ ListenEnds
      BY <2>8 DEF Push, ListenEnds
    <2>5. CASE StopRealtime
      BY <2>5, InSessionPhases DEF StopRealtime
    <2>6. CASE BluetoothChanges \/ BoltTurned \/ StrayDrops \/ UNCHANGED vars
      BY <2>1, <2>6 DEF BluetoothChanges, BoltTurned, StrayDrops, vars
    <2>7. QED
      BY <2>2, <2>3, <2>4, <2>5, <2>6, <2>8 DEF Next
  <1>3. QED
    BY <1>1, <1>2, TypeCorrect, PTL DEF Spec

\* The loop holds the lock exactly while it is in a session.
HeldInSession == opLock = Loop <=> loop \in InSession

LEMMA HeldOnlyInSession == Spec => []HeldInSession
  <1>1. LockMatchesTasks => HeldInSession
    <2> SUFFICES ASSUME LockMatchesTasks PROVE HeldInSession
      OBVIOUS
    <2>1. Loop \notin Calls /\ Nobody # Loop
      BY ConstantsOK DEF Tasks
    <2>2. Loop \in Talking <=> loop \in InSession
      BY <2>1 DEF Talking
    <2>3. Loop \in Talking <=> opLock = Loop
      BY <2>1 DEF LockMatchesTasks
    <2>4. QED
      BY <2>2, <2>3 DEF HeldInSession
  <1>2. QED
    BY <1>1, LockAccounting, PTL

\* A listen that was told to end obeys, once: nothing of the cancellation is forgotten
\* before it lets go of the lock, nor left for the next listen.
THEOREM Obedience == Spec => CancellationIsSpent
  <1> DEFINE Spent == Told => \/ /\ Told' /\ opLock' = Loop
                                 /\ loop' # loop => loop' = "disconnect"
                              \/ ~Told' /\ opLock' # Loop
  <1>1. ToldInSession /\ HeldInSession' /\ [Next]_vars => [Spent]_vars
    <2> SUFFICES ASSUME ToldInSession, HeldInSession', Next, Told
                 PROVE  \/ /\ Told' /\ opLock' = Loop
                           /\ loop' # loop => loop' = "disconnect"
                        \/ ~Told' /\ opLock' # Loop
      BY DEF vars
    <2>1. loop \in InSession /\ (opLock' = Loop <=> loop' \in InSession)
      BY InSessionPhases DEF ToldInSession, HeldInSession, Told
    <2>2. CASE UNCHANGED loopVars
      BY <2>1, <2>2 DEF Told, loopVars
    <2>3. ASSUME NEW c \in Calls, CallStep(c) \/ Cancel(c) PROVE UNCHANGED loopVars
      BY <2>3 DEF CallStep, Cancel, CancelWaiting, CancelSession, Woken, Connect,
                  ConnectFails, Actuate, Exchange, Disconnect, GapOver
    <2>4. ASSUME NEW c \in Calls, NEW kind \in Methods, Request(c, kind)
          PROVE  Told' /\ UNCHANGED loop
      BY <2>4 DEF Told, Request, Preempt
    <2>5. CASE ListenNotConnected \/ ListenDisconnects
      <3>1. ~Told' /\ loop' \in {"pause", "ended"}
        BY <2>5 DEF Told, ListenNotConnected, ListenDisconnects, ListenOver
      <3>2. QED
        BY <2>1, <3>1, InSessionPhases
    <2>6. CASE ListenConnects \/ ListenEnds
      BY <2>1, <2>6, InSessionPhases DEF Told, ToldInSession, ListenConnects, ListenEnds
    <2>7. CASE ListenCancelled
      BY <2>1, <2>7, InSessionPhases DEF Told, ListenCancelled
    <2>8. CASE LoopWakes \/ LoopGranted
      BY <2>1, <2>8, InSessionPhases DEF LoopWakes, LoopGranted
    <2>9. CASE StopRealtime
      BY <2>1, <2>9, InSessionPhases DEF Told, StopRealtime
    <2>10. CASE Push \/ BluetoothChanges \/ BoltTurned \/ StrayDrops
      BY <2>2, <2>10 DEF loopVars, Push, BluetoothChanges, BoltTurned, StrayDrops
    <2>11. QED
      BY <2>1, <2>2, <2>3, <2>4, <2>5, <2>6, <2>7, <2>8, <2>9, <2>10 DEF Next, LoopStep
  <1>2. QED
    BY <1>1, HeldOnlyInSession, ToldOnlyInSession, PTL
       DEF Spec, CancellationIsSpent

================================================================================
