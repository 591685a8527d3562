------------------------- MODULE AuxiliaryLockingProofs ------------------------
(* Theorems about AuxiliaryLocking, for any calls, toggles and read attempts.  *)
EXTENDS AuxiliaryLocking, QueueLemmas

--------------------------------------------------------------------------------
(* The inductive invariant.                                                  *)

Working == {"write", "read", "apply"}

\* One call at a time holds the operation lock, the one that works.
LockInv ==
    /\ \A c \in Calls : c \in talking <=> call[c].phase \in Working
    /\ \A c, d \in Calls : c \in talking /\ d \in talking => c = d

Current == cached \in {mask, NotRead} \/ unheard

\* The switches are right, or a switch's mask is about to be read back.
CacheInv ==
    /\ talking = {} => Current
    /\ \A c \in Calls :
          /\ call[c].phase = "write" => Current /\ call[c].job # "refresh"
          /\ call[c].phase = "read" /\ call[c].job # "switch" => Current
          /\ call[c].phase = "apply" => call[c].mask = mask \/ unheard

\* A switch flipped on its own is about to write a mask that keeps the others.
FrameInv ==
    \A c \in Calls :
        /\ call[c].phase = "queued" => ~call[c].alone
        /\ /\ call[c].phase = "write" /\ call[c].job = "switch" /\ call[c].alone
           /\ call[c].informed /\ ~unheard
           => \A t \in Toggles \ {call[c].toggle} : t \in call[c].mask <=> t \in mask

IInv == TypeOK /\ LockInv /\ CacheInv /\ FrameInv

--------------------------------------------------------------------------------
(* The calls' records.                                                       *)

CallRecords == [phase : Phases, job : Jobs, toggle : Toggles \union {"none"},
                mask : Masks, tries : 0..(ReadAttempts - 1), alone : BOOLEAN,
                informed : BOOLEAN]

LEMMA IdleType == Idle \in CallRecords /\ Idle.phase = "idle"
  BY MaskConstants DEF Idle, CallRecords, Phases, Jobs, Masks

\* One call becomes a record, and no other changes.
Becomes(c, k) == call' = [call EXCEPT ![c] = k]

LEMMA BecomesFacts ==
    ASSUME TypeOK, NEW c \in Calls, NEW k \in CallRecords, Becomes(c, k)
    PROVE  /\ call' \in [Calls -> CallRecords]
           /\ call'[c] = k
           /\ \A d \in Calls \ {c} : call'[d] = call[d]
  BY DEF TypeOK, CallRecords, Becomes

--------------------------------------------------------------------------------
(* What a step does, in a few kinds.                                         *)

\* The call takes its turn, k being its record: at once or from the queue.
TakesTurn(c, k) ==
    /\ call[c].phase \in {"idle", "queued"}
    /\ talking = {} /\ talking' = {c} /\ line' \in Seq(Calls)
    /\ Becomes(c, k) /\ k.phase = FirstPhase(k.job)
    /\ UNCHANGED <<cached, mask, unheard>>
    /\ k.job = "switch" /\ k.alone /\ k.informed
       => cached # NotRead /\ \A t \in Toggles \ {k.toggle} : t \in k.mask <=> t \in cached

\* The call joins the queue, or leaves it without having had its turn.
StandsBy(c, k) ==
    /\ call[c].phase \in {"idle", "queued"} /\ k.phase \in {"idle", "queued"}
    /\ call[c].phase = "queued" => k.phase = "idle"
    /\ ~k.alone
    /\ Becomes(c, k)
    /\ line' \in Seq(Calls)
    /\ UNCHANGED <<talking, cached, mask, unheard>>

LEMMA FirstPhases ==
    ASSUME NEW job \in Jobs
    PROVE  /\ FirstPhase(job) \in {"write", "read"} /\ FirstPhase(job) \in Phases
           /\ FirstPhase(job) = "read" <=> job = "refresh"
  BY DEF FirstPhase, Jobs, Phases

LEMMA StartFacts ==
    ASSUME TypeOK, NEW c \in Calls, Access!Start(c)
    PROVE  talking = {} /\ talking' = {c} /\ line' \in Seq(Calls) /\ cached' = cached
  <1>1. CASE line = <<>> /\ UNCHANGED line
    BY <1>1 DEF Access!Start, TypeOK
  <1>2. CASE line # <<>> /\ line' = Tail(line)
    BY <1>2, TailFacts DEF Access!Start, TypeOK
  <1>3. QED
    BY <1>1, <1>2 DEF Access!Start

LEMMA QueueFacts ==
    ASSUME TypeOK, NEW c \in Calls, Access!Join(c) \/ Access!Refused(c) \/ Access!GiveUp(c)
    PROVE  line' \in Seq(Calls) /\ UNCHANGED <<talking, cached>>
  <1>1. CASE Access!Join(c)
    BY <1>1, AppendFacts DEF Access!Join, TypeOK
  <1>2. CASE Access!Refused(c)
    BY <1>2, TailFacts DEF Access!Refused, TypeOK
  <1>3. CASE Access!GiveUp(c)
    <2>1. PICK i \in DOMAIN line : line' = RemoveAt(line, i)
      BY <1>3 DEF Access!GiveUp, RemoveAt, Access!RemoveAt
    <2>2. QED
      BY <1>3, <2>1, RemoveAtFacts DEF Access!GiveUp, TypeOK
  <1>4. QED
    BY <1>1, <1>2, <1>3

LEMMA RequestCases ==
    ASSUME TypeOK, NEW c \in Calls, NEW job \in Jobs, NEW toggle \in Toggles \union {"none"},
           NEW m \in Masks, Request(c, job, toggle, m),
           job = "switch" /\ cached # NotRead
           => \A t \in Toggles \ {toggle} : t \in m <=> t \in cached
    PROVE  \E k \in CallRecords : TakesTurn(c, k) \/ StandsBy(c, k)
  <1> DEFINE asked == [Idle EXCEPT !.job = job, !.toggle = toggle, !.mask = m,
                                   !.informed = cached # NotRead]
             taken == [asked EXCEPT !.phase = FirstPhase(job), !.alone = TRUE]
             queued == [asked EXCEPT !.phase = "queued"]
  <1>1. asked \in CallRecords /\ asked.job = job /\ asked.toggle = toggle
        /\ asked.mask = m /\ asked.alone = FALSE /\ asked.informed = (cached # NotRead)
    BY IdleType DEF CallRecords, Idle
  <1> HIDE DEF asked
  <1>2. taken \in CallRecords /\ taken.phase = FirstPhase(job) /\ taken.job = job
        /\ taken.toggle = toggle /\ taken.mask = m /\ taken.informed = (cached # NotRead)
    BY <1>1, FirstPhases DEF CallRecords
  <1>3. queued \in CallRecords /\ queued.phase = "queued" /\ queued.alone = FALSE
    BY <1>1 DEF CallRecords, Phases
  <1> HIDE DEF taken, queued
  <1>4. CASE Access!Start(c) /\ Becomes(c, taken)
    <2>1. TakesTurn(c, taken)
      BY <1>2, <1>4, StartFacts DEF TakesTurn, Request
    <2>2. QED
      BY <1>2, <2>1
  <1>5. CASE Access!Join(c) /\ Becomes(c, queued)
    <2>1. StandsBy(c, queued)
      BY <1>3, <1>5, QueueFacts DEF StandsBy, Request
    <2>2. QED
      BY <1>3, <2>1
  <1>6. QED
    BY <1>4, <1>5 DEF Request, Becomes, asked, taken, queued

LEMMA SwitchCases ==
    ASSUME TypeOK, NEW c \in Calls, NEW toggle \in Switchable, NEW enabled \in BOOLEAN,
           SetAuxiliaryToggle(c, toggle, enabled)
    PROVE  \E k \in CallRecords : TakesTurn(c, k) \/ StandsBy(c, k)
  <1> DEFINE m == IF enabled THEN Known \union {toggle} ELSE Known \ {toggle}
  <1>1. toggle \in Toggles
    BY MaskConstants
  <1>2. Known \in Masks /\ (cached # NotRead => Known = cached)
    BY DEF Known, TypeOK, Masks
  <1>3. m \in Masks
    BY <1>1, <1>2 DEF Masks
  <1>4. cached # NotRead => \A t \in Toggles \ {toggle} : t \in m <=> t \in cached
    BY <1>2
  <1>5. Request(c, "switch", toggle, m)
    BY DEF SetAuxiliaryToggle
  <1> HIDE DEF m
  <1>6. QED
    BY <1>1, <1>3, <1>4, <1>5, RequestCases DEF Jobs

\* What is left of a cancellation when the call had its turn.
CancelWorking(c) ==
    /\ call[c].phase \in Working
    /\ mask' \in IF call[c].phase = "write" THEN {mask, call[c].mask} ELSE {mask}
    /\ unheard' = (\/ unheard \/ mask' # mask
                   \/ call[c].phase = "apply"
                   \/ call[c].phase = "read" /\ call[c].job = "switch")
    /\ UNCHANGED cached
    /\ Leave(c)

LEMMA NextCases ==
    ASSUME TypeOK, FrameInv, [Next]_vars
    PROVE  \/ \E c \in Calls, k \in CallRecords : TakesTurn(c, k) \/ StandsBy(c, k)
           \/ \E c \in Calls : \/ Write(c) \/ WriteFails(c) \/ Read(c) \/ ReadFails(c)
                              \/ Apply(c) \/ CancelWorking(c)
           \/ AppChanges
           \/ UNCHANGED vars
  <1>1. ASSUME NEW c \in Calls, NEW toggle \in Switchable, NEW enabled \in BOOLEAN,
               SetAuxiliaryToggle(c, toggle, enabled)
        PROVE  \E k \in CallRecords : TakesTurn(c, k) \/ StandsBy(c, k)
    BY <1>1, SwitchCases
  <1>2. ASSUME NEW c \in Calls, NEW toggle \in Buttons, EnableButton(c, toggle)
        PROVE  \E k \in CallRecords : TakesTurn(c, k) \/ StandsBy(c, k)
    <2>1. PICK m \in Masks : Request(c, "button", toggle, m)
      BY <1>2 DEF EnableButton
    <2>2. toggle \in Toggles /\ "button" \in Jobs
      BY MaskConstants DEF Jobs
    <2>3. QED
      BY <2>1, <2>2, RequestCases
  <1>3. ASSUME NEW c \in Calls, Refresh(c)
        PROVE  \E k \in CallRecords : TakesTurn(c, k) \/ StandsBy(c, k)
    BY <1>3, RequestCases DEF Refresh, Jobs, Masks
  <1>4. ASSUME NEW c \in Calls, Granted(c)
        PROVE  \E k \in CallRecords : TakesTurn(c, k)
    <2> DEFINE k == [call[c] EXCEPT !.phase = FirstPhase(call[c].job)]
    <2>1. call[c] \in CallRecords /\ call[c].phase = "queued" /\ ~call[c].alone
      BY <1>4 DEF TypeOK, CallRecords, Granted, FrameInv
    <2>2. k \in CallRecords /\ k.phase = FirstPhase(k.job) /\ ~k.alone
      BY <2>1, FirstPhases DEF CallRecords
    <2>3. Becomes(c, k)
      BY <1>4 DEF Granted, Becomes
    <2> HIDE DEF k
    <2>4. TakesTurn(c, k)
      BY <1>4, <2>1, <2>2, <2>3, StartFacts DEF TakesTurn, Granted
    <2>5. QED
      BY <2>2, <2>4
  <1>i. Idle \in CallRecords /\ Idle.phase = "idle" /\ ~Idle.alone
    BY IdleType DEF Idle
  <1>5. ASSUME NEW c \in Calls, TurnedAway(c)
        PROVE  StandsBy(c, Idle)
    BY <1>5, <1>i, QueueFacts DEF TurnedAway, StandsBy, Becomes
  <1>6. ASSUME NEW c \in Calls, Cancel(c)
        PROVE  StandsBy(c, Idle) \/ CancelWorking(c)
    <2>1. CASE /\ call[c].phase = "queued" /\ Access!GiveUp(c)
               /\ call' = [call EXCEPT ![c] = Idle] /\ UNCHANGED <<mask, unheard>>
      BY <2>1, <1>i, QueueFacts DEF StandsBy, Becomes
    <2>2. QED
      BY <1>6, <2>1 DEF Cancel, CancelWorking, Working
  <1>7. QED
    BY <1>1, <1>2, <1>3, <1>4, <1>5, <1>6, <1>i DEF Next

LEMMA LeaveFacts ==
    ASSUME TypeOK, NEW c \in Calls, Leave(c)
    PROVE  /\ c \in talking /\ talking' = talking \ {c} /\ line' = line
           /\ Becomes(c, Idle)
  BY DEF Leave, Becomes, Access!Finish

--------------------------------------------------------------------------------
(* Each part of the invariant is preserved.                                  *)

LEMMA NextType ==
    ASSUME TypeOK, FrameInv, [Next]_vars
    PROVE  TypeOK'
  <1>0. /\ call \in [Calls -> CallRecords] /\ mask \in Masks
        /\ \A c \in Calls : call[c] \in CallRecords /\ call[c].mask \in Masks
    BY DEF TypeOK, CallRecords
  <1>t. TypeOK' <=> /\ talking' \subseteq Calls /\ line' \in Seq(Calls)
                    /\ call' \in [Calls -> CallRecords] /\ mask' \in Masks
                    /\ cached' = NotRead \/ cached' \in Masks
                    /\ unheard' \in BOOLEAN
    BY DEF TypeOK, CallRecords
  <1>1. ASSUME NEW c \in Calls, NEW k \in CallRecords, TakesTurn(c, k) \/ StandsBy(c, k)
        PROVE  TypeOK'
    BY <1>1, <1>t, BecomesFacts DEF TakesTurn, StandsBy, TypeOK
  <1>2. ASSUME NEW c \in Calls, Leave(c), mask' \in Masks, unheard' \in BOOLEAN,
               cached' = cached \/ cached' \in Masks
        PROVE  TypeOK'
    BY <1>2, <1>t, LeaveFacts, IdleType, BecomesFacts DEF TypeOK
  <1>3. ASSUME NEW c \in Calls, Write(c)
        PROVE  TypeOK'
    <2>1. mask' \in Masks /\ unheard' \in BOOLEAN
      BY <1>0, <1>3 DEF Write, TypeOK
    <2>2. [call EXCEPT ![c].phase = "read"] \in [Calls -> CallRecords]
      BY <1>0 DEF CallRecords, Phases
    <2>3. QED
      BY <1>2, <1>3, <1>t, <2>1, <2>2 DEF Write, TypeOK
  <1>4. ASSUME NEW c \in Calls, WriteFails(c) \/ Apply(c) \/ CancelWorking(c)
        PROVE  TypeOK'
    BY <1>0, <1>2, <1>4 DEF WriteFails, Apply, CancelWorking, TypeOK
  <1>5. ASSUME NEW c \in Calls, Read(c)
        PROVE  TypeOK'
    <2> DEFINE k == [call[c] EXCEPT !.phase = "apply", !.mask = mask]
    <2>1. k \in CallRecords
      BY <1>0 DEF CallRecords, Phases
    <2>2. Becomes(c, k)
      BY <1>5 DEF Read, Becomes
    <2>3. call' \in [Calls -> CallRecords]
      BY <2>1, <2>2, BecomesFacts
    <2>4. QED
      BY <1>5, <1>t, <2>3 DEF Read, TypeOK
  <1>6. ASSUME NEW c \in Calls, ReadFails(c)
        PROVE  TypeOK'
    <2> DEFINE k == [call[c] EXCEPT !.tries = call[c].tries + 1]
    <2>1. CASE Again(c) /\ Becomes(c, k) /\ UNCHANGED <<talking, line, cached, unheard, mask>>
      <3>1. call[c].tries + 1 \in 0..(ReadAttempts - 1)
        BY <1>0, <2>1, MaskConstants DEF Again, CallRecords
      <3>2. k \in CallRecords
        BY <1>0, <3>1 DEF CallRecords
      <3>3. QED
        BY <1>t, <2>1, <3>2, BecomesFacts DEF TypeOK
    <2>2. QED
      BY <1>0, <1>2, <1>6, <2>1 DEF ReadFails, Retried, Becomes, TypeOK
  <1>7. CASE AppChanges
    BY <1>7, <1>t DEF AppChanges, TypeOK
  <1>8. CASE UNCHANGED vars
    BY <1>8, <1>t DEF vars, TypeOK
  <1>9. QED
    BY <1>1, <1>3, <1>4, <1>5, <1>6, <1>7, <1>8, NextCases

\* A step of the call that holds the lock, and only of that one.
LEMMA WorkingStep ==
    ASSUME TypeOK, LockInv, NEW c \in Calls, call[c].phase \in Working
    PROVE  talking = {c} /\ \A d \in Calls \ {c} : call[d].phase \notin Working
  BY DEF TypeOK, LockInv

\* What each of its steps makes of the call.
LEMMA WorkFacts ==
    ASSUME TypeOK, LockInv, NEW c \in Calls,
           Write(c) \/ WriteFails(c) \/ Read(c) \/ ReadFails(c) \/ Apply(c) \/ CancelWorking(c)
    PROVE  /\ call[c].phase \in Working
           /\ \A d \in Calls \ {c} : call'[d] = call[d]
           /\ \/ talking' = {} /\ call'[c] = Idle
              \/ /\ talking' = talking /\ call'[c].phase \in {"read", "apply"}
                 /\ call'[c].job = call[c].job
           /\ Write(c) /\ talking' = talking => call[c].job = "switch" /\ call'[c].phase = "read"
           /\ Read(c) => talking' = talking /\ call'[c].phase = "apply" /\ call'[c].mask = mask
           /\ ReadFails(c) /\ talking' = talking => call'[c].phase = "read"
           /\ WriteFails(c) \/ Apply(c) \/ CancelWorking(c) => talking' = {}
  <1>0. call \in [Calls -> CallRecords] /\ call[c] \in CallRecords
    BY DEF TypeOK, CallRecords
  <1>1. call[c].phase \in Working
    BY DEF Write, WriteFails, Read, ReadFails, Apply, CancelWorking, Working
  <1>2. talking = {c} /\ talking # {}
    BY <1>1, WorkingStep
  <1>3. Leave(c) => /\ talking' = {} /\ call'[c] = Idle
                    /\ \A d \in Calls \ {c} : call'[d] = call[d]
    BY <1>0, <1>2, LeaveFacts DEF Becomes
  <1>4. ASSUME Write(c), ~Leave(c)
        PROVE  /\ talking' = talking /\ call'[c].phase = "read" /\ call'[c].job = call[c].job
               /\ call[c].job = "switch" /\ \A d \in Calls \ {c} : call'[d] = call[d]
    BY <1>0, <1>4 DEF Write, ReadsBack, CallRecords
  <1>5. ASSUME Read(c)
        PROVE  /\ talking' = talking /\ call'[c].phase = "apply" /\ call'[c].job = call[c].job
               /\ call'[c].mask = mask /\ \A d \in Calls \ {c} : call'[d] = call[d]
    BY <1>0, <1>5 DEF Read, CallRecords
  <1>6. ASSUME ReadFails(c), ~Leave(c)
        PROVE  /\ talking' = talking /\ call'[c].phase = "read" /\ call'[c].job = call[c].job
               /\ \A d \in Calls \ {c} : call'[d] = call[d]
    BY <1>0, <1>6 DEF ReadFails, Retried, CallRecords
  <1>7. WriteFails(c) \/ Apply(c) \/ CancelWorking(c) => Leave(c)
    BY DEF WriteFails, Apply, CancelWorking
  <1>8. QED
    BY <1>1, <1>2, <1>3, <1>4, <1>5, <1>6, <1>7

LEMMA NextLock ==
    ASSUME IInv, [Next]_vars
    PROVE  LockInv'
  <1> USE DEF IInv
  <1>0. \A d \in Calls : call[d] \in CallRecords
    BY DEF TypeOK, CallRecords
  <1>1. ASSUME NEW c \in Calls, NEW k \in CallRecords, TakesTurn(c, k)
        PROVE  LockInv'
    <2>1. talking = {} /\ talking' = {c} /\ k.phase \in Working
      BY <1>1, FirstPhases DEF TakesTurn, CallRecords, Working
    <2>2. call'[c] = k /\ \A d \in Calls \ {c} : call'[d] = call[d]
      BY <1>1, BecomesFacts DEF TakesTurn
    <2>3. QED
      BY <2>1, <2>2 DEF LockInv
  <1>2. ASSUME NEW c \in Calls, NEW k \in CallRecords, StandsBy(c, k)
        PROVE  LockInv'
    BY <1>2, BecomesFacts DEF StandsBy, LockInv, Working
  <1>3. ASSUME NEW c \in Calls,
               \/ Write(c) \/ WriteFails(c) \/ Read(c) \/ ReadFails(c)
               \/ Apply(c) \/ CancelWorking(c)
        PROVE  LockInv'
    <2>1. talking = {c} /\ \A d \in Calls \ {c} : call[d].phase \notin Working
      BY <1>3, WorkFacts, WorkingStep
    <2>2. \A d \in Calls \ {c} : call'[d] = call[d]
      BY <1>3, WorkFacts
    <2>3. CASE talking' = {} /\ call'[c] = Idle
      BY <2>1, <2>2, <2>3 DEF LockInv, Idle, Working
    <2>4. CASE talking' = talking /\ call'[c].phase \in {"read", "apply"}
      BY <2>1, <2>2, <2>4 DEF LockInv, Working
    <2>5. QED
      BY <1>3, <2>3, <2>4, WorkFacts
  <1>4. CASE AppChanges \/ UNCHANGED vars
    BY <1>4 DEF AppChanges, vars, LockInv
  <1>5. QED
    BY <1>1, <1>2, <1>3, <1>4, NextCases

LEMMA NextCache ==
    ASSUME IInv, [Next]_vars
    PROVE  CacheInv'
  <1> USE DEF IInv
  <1>0. \A d \in Calls : call[d] \in CallRecords
    BY DEF TypeOK, CallRecords
  <1>1. ASSUME NEW c \in Calls, NEW k \in CallRecords, TakesTurn(c, k)
        PROVE  CacheInv'
    <2>1. Current /\ Current' /\ UNCHANGED <<mask, unheard>>
      BY <1>1 DEF TakesTurn, CacheInv, Current
    <2>2. \A d \in Calls : call'[d] = k \/ call'[d] = call[d]
      BY <1>1, BecomesFacts DEF TakesTurn
    <2>3. k.phase \in {"read", "write"} /\ (k.phase = "write" => k.job # "refresh")
      BY <1>1, FirstPhases DEF TakesTurn, CallRecords
    <2>4. QED
      BY <2>1, <2>2, <2>3 DEF CacheInv
  <1>2. ASSUME NEW c \in Calls, NEW k \in CallRecords, StandsBy(c, k)
        PROVE  CacheInv'
    BY <1>2, BecomesFacts DEF StandsBy, CacheInv, Current
  <1>3. ASSUME NEW c \in Calls,
               \/ Write(c) \/ WriteFails(c) \/ Read(c) \/ ReadFails(c)
               \/ Apply(c) \/ CancelWorking(c)
        PROVE  CacheInv'
    <2>1. talking = {c} /\ \A d \in Calls \ {c} : call[d].phase \notin Working
      BY <1>3, WorkFacts, WorkingStep
    <2>2. \A d \in Calls \ {c} : call'[d].phase \notin Working
      BY <1>3, <2>1, WorkFacts
    <2>3. Write(c) => (talking' = {} => Current')
      <3>1. SUFFICES ASSUME Write(c), talking' = {} PROVE Current'
        OBVIOUS
      <3>2. Current /\ call[c].phase = "write" /\ call[c].job # "refresh"
        BY <3>1 DEF Write, CacheInv
      <3>3. ~ReadsBack(call[c].job) /\ UNCHANGED cached
        BY <2>1, <3>1 DEF Write
      <3>4. call[c].job = "button"
        BY <1>0, <3>2, <3>3 DEF ReadsBack, CallRecords, Jobs
      <3>5. QED
        BY <3>1, <3>2, <3>3, <3>4 DEF Write, Current
    <2>4. WriteFails(c) => Current'
      BY DEF WriteFails, CacheInv, Current, TypeOK
    <2>5. Apply(c) => Current'
      BY DEF Apply, CacheInv, Current
    <2>6. ReadFails(c) => (call[c].job = "switch" /\ talking' = talking) \/ Current'
      <3>1. SUFFICES ASSUME ReadFails(c)
                     PROVE  (call[c].job = "switch" /\ talking' = talking) \/ Current'
        OBVIOUS
      <3>2. call[c].phase = "read" /\ UNCHANGED <<mask, cached>>
        BY <3>1 DEF ReadFails
      <3>3. \/ UNCHANGED <<talking, unheard>>
            \/ unheard' = (unheard \/ call[c].job = "switch")
        BY <3>1 DEF ReadFails
      <3>4. CASE call[c].job = "switch"
        BY <3>3, <3>4 DEF Current
      <3>5. CASE call[c].job # "switch"
        BY <2>1, <3>2, <3>3, <3>5 DEF CacheInv, Current
      <3>6. QED
        BY <3>4, <3>5
    <2>7. CancelWorking(c) => Current'
      BY DEF CancelWorking, CacheInv, Current, Working, TypeOK
    <2>8. Read(c) => call'[c].mask = mask'
      BY WorkFacts DEF Read
    <2>9. CASE talking' = {} /\ call'[c] = Idle
      <3>1. Current'
        BY <1>3, <2>1, <2>3, <2>4, <2>5, <2>6, <2>7, <2>9, WorkFacts
      <3>2. QED
        BY <2>2, <2>9, <3>1 DEF CacheInv, Idle, Working
    <2>10. CASE talking' = talking /\ call'[c].phase \in {"read", "apply"}
      <3>1. talking' # {}
        BY <2>1, <2>10
      <3>2. call'[c].phase = "apply" => Read(c)
        BY <1>3, <2>10, <3>1, WorkFacts
      <3>3. call'[c].phase = "read" /\ call'[c].job # "switch" => Current'
        BY <1>3, <2>6, <2>10, <3>1, WorkFacts
      <3>4. QED
        BY <2>2, <2>8, <3>1, <3>2, <3>3, <2>10 DEF CacheInv, Working
    <2>11. QED
      BY <1>3, <2>9, <2>10, WorkFacts
  <1>4. CASE AppChanges
    BY <1>4 DEF AppChanges, CacheInv, Current
  <1>5. CASE UNCHANGED vars
    BY <1>5 DEF vars, CacheInv, Current
  <1>6. QED
    BY <1>1, <1>2, <1>3, <1>4, <1>5, NextCases

LEMMA NextFrame ==
    ASSUME IInv, [Next]_vars
    PROVE  FrameInv'
  <1> USE DEF IInv
  <1>1. ASSUME NEW c \in Calls, NEW k \in CallRecords, TakesTurn(c, k)
        PROVE  FrameInv'
    <2>1. Current /\ UNCHANGED <<cached, mask, unheard>>
      BY <1>1 DEF TakesTurn, CacheInv
    <2>2. call'[c] = k /\ \A d \in Calls \ {c} : call'[d] = call[d]
      BY <1>1, BecomesFacts DEF TakesTurn
    <2>3. k.phase # "queued"
      BY <1>1, FirstPhases DEF TakesTurn, CallRecords
    <2>4. k.job = "switch" /\ k.alone /\ k.informed /\ ~unheard
          => \A t \in Toggles \ {k.toggle} : t \in k.mask <=> t \in mask
      BY <1>1, <2>1 DEF TakesTurn, Current
    <2>5. QED
      BY <2>1, <2>2, <2>3, <2>4 DEF FrameInv
  <1>2. ASSUME NEW c \in Calls, NEW k \in CallRecords, StandsBy(c, k)
        PROVE  FrameInv'
    BY <1>2, BecomesFacts DEF StandsBy, FrameInv
  <1>3. ASSUME NEW c \in Calls,
               \/ Write(c) \/ WriteFails(c) \/ Read(c) \/ ReadFails(c)
               \/ Apply(c) \/ CancelWorking(c)
        PROVE  FrameInv'
    <2>1. \A d \in Calls \ {c} : call[d].phase \notin Working /\ call'[d] = call[d]
      BY <1>3, WorkFacts, WorkingStep
    <2>2. call'[c].phase \in {"idle", "read", "apply"}
      BY <1>3, WorkFacts DEF Idle
    <2>3. QED
      BY <2>1, <2>2 DEF FrameInv, Working
  <1>4. CASE AppChanges
    BY <1>4 DEF AppChanges, FrameInv
  <1>5. CASE UNCHANGED vars
    BY <1>5 DEF vars, FrameInv
  <1>6. QED
    BY <1>1, <1>2, <1>3, <1>4, <1>5, NextCases

LEMMA Invariance == Spec => []IInv
  <1>1. Init => IInv
    <2> SUFFICES ASSUME Init PROVE IInv
      OBVIOUS
    <2>1. TypeOK
      <3>1. call \in [Calls -> CallRecords] /\ line \in Seq(Calls) /\ talking \subseteq Calls
        BY IdleType DEF Init
      <3>2. QED
        BY <3>1 DEF Init, TypeOK, CallRecords
    <2>2. \A c \in Calls : call[c].phase = "idle"
      BY IdleType DEF Init
    <2>3. QED
      BY <2>1, <2>2 DEF Init, IInv, LockInv, CacheInv, FrameInv, Current, Working
  <1>2. IInv /\ [Next]_vars => IInv'
    BY NextType, NextLock, NextCache, NextFrame DEF IInv
  <1>3. QED
    BY <1>1, <1>2, PTL DEF Spec

--------------------------------------------------------------------------------
(* The theorems.                                                             *)

\* Every variable keeps its type; the mask is read a bounded number of times.
THEOREM TypeCorrect == Spec => []TypeOK
  <1>1. IInv => TypeOK
    BY DEF IInv
  <1>2. QED
    BY <1>1, Invariance, PTL

\* However many calls overlap, the switches show the lock's mask whenever the radio
\* is free, unless nobody could have told Home Assistant otherwise.
THEOREM SwitchesFollow == Spec => []SwitchesCurrent
  <1>1. IInv => SwitchesCurrent
    BY DEF IInv, CacheInv, Current, SwitchesCurrent
  <1>2. QED
    BY <1>1, Invariance, PTL

\* A switch that was flipped with nobody else under way changes its own toggle only.
THEOREM OthersKept == Spec => UndisturbedKeepsOthers
  <1> DEFINE Kept == \A c \in Calls :
                        Writes(c) /\ call[c].alone /\ call[c].informed /\ ~unheard
                        => KeepsOthers(c)
  <1>1. IInv /\ [Next]_vars => [Kept]_vars
    <2> SUFFICES ASSUME IInv, [Next]_vars, NEW c \in Calls,
                        Writes(c), call[c].alone, call[c].informed, ~unheard
                 PROVE  KeepsOthers(c)
      OBVIOUS
    <2> USE DEF IInv
    <2>1. /\ call[c].phase = "write" /\ call'[c].phase # "write"
          /\ \A t \in Toggles \ {call[c].toggle} : t \in call[c].mask <=> t \in mask
      BY DEF Writes, FrameInv
    <2>2. mask' \in {mask, call[c].mask} => KeepsOthers(c)
      BY <2>1 DEF KeepsOthers
    <2>3. ASSUME NEW d \in Calls, NEW k \in CallRecords, TakesTurn(d, k) \/ StandsBy(d, k)
          PROVE  mask' = mask
      BY <2>3 DEF TakesTurn, StandsBy
    <2>4. ASSUME NEW d \in Calls,
                 \/ Write(d) \/ WriteFails(d) \/ Read(d) \/ ReadFails(d)
                 \/ Apply(d) \/ CancelWorking(d)
          PROVE  mask' \in {mask, call[c].mask}
      <3>1. d = c
        BY <2>1, <2>4, WorkFacts
      <3>2. QED
        BY <2>4, <3>1 DEF Write, WriteFails, Read, ReadFails, Apply, CancelWorking
    <2>5. CASE AppChanges \/ UNCHANGED vars
      BY <2>1, <2>5 DEF AppChanges, vars
    <2>6. QED
      BY <2>2, <2>3, <2>4, <2>5, NextCases
  <1>2. QED
    BY <1>1, Invariance, PTL DEF Spec, UndisturbedKeepsOthers

\* Every step of the toggles' calls is one the operation lock's promise allows: the
\* overlapping switches are served in the order in which they were flipped.
THEOREM TakesTurns == Spec => Access!Spec
  <1>1. Init => Access!Init
    BY MaskConstants DEF Init, Access!Init
  <1>2. IInv /\ [Next]_vars => [Access!Next]_Access!fvars
    <2> SUFFICES ASSUME IInv, [Next]_vars PROVE [Access!Next]_Access!fvars
      OBVIOUS
    <2>1. ASSUME NEW c \in Calls,
                 \/ Access!Join(c) \/ Access!GiveUp(c) \/ Access!Start(c)
                 \/ Access!Refused(c) \/ Access!Hear(c) \/ Access!Finish(c)
          PROVE  Access!Next
      BY <2>1 DEF Access!Next
    <2>2. ASSUME UNCHANGED <<talking, line, cached>> PROVE UNCHANGED Access!fvars
      BY <2>2 DEF Access!fvars
    <2>3. ASSUME NEW c \in Calls, NEW job, NEW toggle, NEW m, Request(c, job, toggle, m)
          PROVE  Access!Next
      BY <2>1, <2>3 DEF Request
    <2>4. ASSUME NEW c \in Calls,
                 \/ \E t \in Switchable, enabled \in BOOLEAN : SetAuxiliaryToggle(c, t, enabled)
                 \/ \E t \in Buttons : EnableButton(c, t)
                 \/ Refresh(c)
          PROVE  Access!Next
      BY <2>3, <2>4 DEF SetAuxiliaryToggle, EnableButton, Refresh
    <2>5. ASSUME NEW c \in Calls, Granted(c) \/ TurnedAway(c)
          PROVE  Access!Next
      BY <2>1, <2>5 DEF Granted, TurnedAway
    <2>6. ASSUME NEW c \in Calls, Write(c) \/ WriteFails(c) \/ Cancel(c)
          PROVE  Access!Next \/ UNCHANGED <<talking, line, cached>>
      BY <2>1, <2>6 DEF Write, WriteFails, Cancel, Leave
    <2>7. ASSUME NEW c \in Calls, Read(c) \/ ReadFails(c)
          PROVE  Access!Next \/ UNCHANGED <<talking, line, cached>>
      BY <2>1, <2>7 DEF Read, ReadFails, Leave
    <2>8. ASSUME NEW c \in Calls, Apply(c)
          PROVE  Access!Next
      BY <2>1, <2>8 DEF Apply, Leave
    <2>9. AppChanges \/ UNCHANGED vars => UNCHANGED <<talking, line, cached>>
      BY DEF AppChanges, vars
    <2>10. QED
      BY <2>2, <2>4, <2>5, <2>6, <2>7, <2>8, <2>9 DEF Next
  <1>3. QED
    BY <1>1, <1>2, Invariance, PTL DEF Spec, Access!Spec

--------------------------------------------------------------------------------
(* How far a call has got.                                                   *)

LEMMA Ranks ==
    ASSUME NEW k \in CallRecords
    PROVE  /\ ReadAttempts \in Nat /\ k.tries \in 0..(ReadAttempts - 1)
           /\ k.phase = "queued" => Remaining(k) = ReadAttempts + 3
           /\ k.phase = "write"  => Remaining(k) = ReadAttempts + 2
           /\ k.phase = "read"   => Remaining(k) = ReadAttempts + 1 - k.tries
           /\ k.phase = "apply"  => Remaining(k) = 1
           /\ k.phase = "idle"   => Remaining(k) = 0
  BY MaskConstants DEF Remaining, CallRecords

\* The ways in which a call gets on.
LEMMA Shrinks ==
    ASSUME NEW j \in CallRecords, NEW k \in CallRecords,
           \/ j.phase # "idle" /\ k.phase = "idle"
           \/ j.phase = "queued" /\ k.phase \in {"write", "read"}
           \/ j.phase = "write" /\ k.phase = "read"
           \/ j.phase = "read" /\ k.phase = "read" /\ k.tries = j.tries + 1
           \/ j.phase = "read" /\ k.phase = "apply"
    PROVE  Remaining(k) < Remaining(j)
  <1>1. /\ ReadAttempts \in Nat
        /\ j.tries \in 0..(ReadAttempts - 1) /\ k.tries \in 0..(ReadAttempts - 1)
        /\ j.phase \in Phases
    BY Ranks DEF CallRecords
  <1>2. CASE j.phase # "idle" /\ k.phase = "idle"
    <2>1. Remaining(k) = 0
      BY <1>2, Ranks
    <2>2. Remaining(j) \in {ReadAttempts + 3, ReadAttempts + 2, ReadAttempts + 1 - j.tries, 1}
      BY <1>1, <1>2, Ranks DEF Phases
    <2>3. QED
      BY <1>1, <2>1, <2>2
  <1>3. CASE j.phase = "queued" /\ k.phase \in {"write", "read"}
    <2>1. /\ Remaining(j) = ReadAttempts + 3
          /\ Remaining(k) \in {ReadAttempts + 2, ReadAttempts + 1 - k.tries}
      BY <1>3, Ranks
    <2>2. QED
      BY <1>1, <2>1
  <1>4. CASE j.phase = "write" /\ k.phase = "read"
    <2>1. Remaining(j) = ReadAttempts + 2 /\ Remaining(k) = ReadAttempts + 1 - k.tries
      BY <1>4, Ranks
    <2>2. QED
      BY <1>1, <2>1
  <1>5. CASE j.phase = "read" /\ k.phase = "read" /\ k.tries = j.tries + 1
    <2>1. /\ Remaining(j) = ReadAttempts + 1 - j.tries
          /\ Remaining(k) = ReadAttempts + 1 - (j.tries + 1)
      BY <1>5, Ranks
    <2>2. QED
      BY <1>1, <2>1
  <1>6. CASE j.phase = "read" /\ k.phase = "apply"
    <2>1. Remaining(j) = ReadAttempts + 1 - j.tries /\ Remaining(k) = 1
      BY <1>6, Ranks
    <2>2. QED
      BY <1>1, <2>1
  <1>7. QED
    BY <1>2, <1>3, <1>4, <1>5, <1>6

\* What a step of the call that holds the lock makes of its record.
LEMMA WorkAdvances ==
    ASSUME TypeOK, LockInv, NEW c \in Calls,
           Write(c) \/ WriteFails(c) \/ Read(c) \/ ReadFails(c) \/ Apply(c) \/ CancelWorking(c)
    PROVE  \/ call[c].phase # "idle" /\ call'[c].phase = "idle"
           \/ call[c].phase = "write" /\ call'[c].phase = "read"
           \/ /\ call[c].phase = "read" /\ call'[c].phase = "read"
              /\ call'[c].tries = call[c].tries + 1
           \/ call[c].phase = "read" /\ call'[c].phase = "apply"
  <1>0. call \in [Calls -> CallRecords] /\ call[c] \in CallRecords
    BY DEF TypeOK, CallRecords
  <1>1. call[c].phase # "idle"
    BY WorkFacts DEF Working
  <1>2. CASE Leave(c)
    BY <1>1, <1>2, <1>0, IdleType DEF Leave
  <1>3. CASE Write(c) /\ ~Leave(c)
    BY <1>0, <1>3, WorkFacts DEF Write
  <1>4. CASE Read(c)
    BY <1>0, <1>4, WorkFacts DEF Read
  <1>5. CASE ReadFails(c) /\ ~Leave(c)
    <2>1. call' = [call EXCEPT ![c] = Retried(call[c])] /\ call[c].phase = "read"
      BY <1>5 DEF ReadFails
    <2>2. call'[c] = Retried(call[c])
      BY <1>0, <2>1
    <2>3. QED
      BY <1>0, <2>1, <2>2 DEF Retried, CallRecords
  <1>6. WriteFails(c) \/ Apply(c) \/ CancelWorking(c) => Leave(c)
    BY DEF WriteFails, Apply, CancelWorking
  <1>7. QED
    BY <1>2, <1>3, <1>4, <1>5, <1>6

\* Every step of a call brings it closer to its return; none takes it back to its write.
THEOREM BoundedCalls == Spec => CallsAdvance
  <1> DEFINE Advances == \A c \in Calls : call[c].phase # "idle" /\ call'[c] # call[c]
                                         => Remaining(call'[c]) < Remaining(call[c])
  <1>1. IInv /\ TypeOK' /\ [Next]_vars => [Advances]_vars
    <2> SUFFICES ASSUME IInv, TypeOK', [Next]_vars, NEW c \in Calls,
                        call[c].phase # "idle", call'[c] # call[c]
                 PROVE  Remaining(call'[c]) < Remaining(call[c])
      OBVIOUS
    <2> USE DEF IInv
    <2>1. call[c] \in CallRecords /\ call'[c] \in CallRecords
      BY DEF TypeOK, CallRecords
    <2>2. ASSUME NEW d \in Calls, NEW k \in CallRecords, TakesTurn(d, k) \/ StandsBy(d, k)
          PROVE  Remaining(call'[c]) < Remaining(call[c])
      <3>1. call'[d] = k /\ c = d
        BY <2>2, BecomesFacts DEF TakesTurn, StandsBy
      <3>2. \/ call[c].phase # "idle" /\ k.phase = "idle"
            \/ call[c].phase = "queued" /\ k.phase \in {"write", "read"}
        BY <2>2, <3>1, FirstPhases DEF TakesTurn, StandsBy, CallRecords
      <3>3. QED
        BY <2>1, <3>1, <3>2, Shrinks
    <2>3. ASSUME NEW d \in Calls,
                 \/ Write(d) \/ WriteFails(d) \/ Read(d) \/ ReadFails(d)
                 \/ Apply(d) \/ CancelWorking(d)
          PROVE  Remaining(call'[c]) < Remaining(call[c])
      <3>1. c = d
        BY <2>3, WorkFacts
      <3>2. QED
        BY <2>1, <2>3, <3>1, WorkAdvances, Shrinks
    <2>4. ~AppChanges /\ ~UNCHANGED vars
      BY DEF AppChanges, vars
    <2>5. QED
      BY <2>2, <2>3, <2>4, NextCases
  <1>2. QED
    BY <1>1, Invariance, TypeCorrect, PTL DEF Spec, CallsAdvance

================================================================================
