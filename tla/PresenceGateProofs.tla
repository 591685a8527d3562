--------------------------- MODULE PresenceGateProofs --------------------------
(* Theorems about PresenceGate, for any set of calls, any table and any        *)
(* number of polls.                                                            *)
EXTENDS PresenceGate, QueueLemmas

--------------------------------------------------------------------------------
(* The inductive invariant.                                                  *)

Before  == {"queued", "check", "ask", "poll", "act"}   \* not yet carried out
Working == Phases \ {"idle", "queued"}                 \* holds the operation lock

\* One call at a time holds the operation lock, the one that works.
LockInv ==
    /\ \A c \in Calls : c \in talking <=> call[c].phase \in Working
    /\ \A c, d \in Calls : c \in talking /\ d \in talking => c = d

\* What passed the gate, and met with no mishap since, finds the keypad awake and is
\* carried out; what is driven to a report is carried out when it goes on.
GateInv ==
    \A c \in Calls :
        /\ call[c].phase \in Before => ~call[c].landed
        /\ call[c].phase \in {"check", "ask", "poll"} => call[c].kind \in Gated
        /\ call[c].phase = "act" => call[c].kind # "read"
        /\ call[c].phase = "act" /\ call[c].kind \in Gated /\ call[c].mishap = "none" => awake
        /\ call[c].phase = "reread" /\ call[c].kind \in {"enrol", "language"} => call[c].landed
        /\ call[c].phase = "reread" /\ call[c].kind \in {"add", "delete"}
           /\ call[c].mishap = "none" => call[c].landed

\* The count is right, or the call under way has changed the table and will read it.
CountInv ==
    \/ count \in {NotRead, table} \/ unheard
    \/ \E c \in talking : call[c].landed /\ call[c].kind # "language"

IInv ==
    /\ TypeOK /\ LockInv /\ NoLeftoverPrompt /\ GateInv
    /\ DrivenSuccessIsReal /\ GatedWriteIsReal /\ CountInv

--------------------------------------------------------------------------------
(* The calls' records.                                                       *)

CallRecords == [phase : Phases, kind : Kinds, polls : 0..Polls,
                landed : BOOLEAN, mishap : Mishaps, result : Results]

LEMMA TypeParts ==
    TypeOK <=> /\ talking \subseteq Calls /\ line \in Seq(Calls)
               /\ call \in [Calls -> CallRecords]
               /\ awake \in BOOLEAN /\ notified \in BOOLEAN /\ unheard \in BOOLEAN
               /\ table \in 0..MaxTable
               /\ count \in {NotRead} \union 1..MaxTable
  BY DEF TypeOK, CallRecords

\* One call becomes a record, and no other changes.
Becomes(c, k) == call' = [call EXCEPT ![c] = k]

LEMMA BecomesFacts ==
    ASSUME TypeOK, NEW c \in Calls, NEW k \in CallRecords, Becomes(c, k)
    PROVE  /\ call' \in [Calls -> CallRecords]
           /\ call'[c] = k
           /\ \A d \in Calls \ {c} : call'[d] = call[d]
  BY DEF TypeOK, CallRecords, Becomes

LEMMA IdleType == Idle \in CallRecords /\ ~Idle.landed /\ Idle.result = "none"
  <1>1. 0 \in 0..Polls
    BY GateConstants
  <1>2. QED
    BY <1>1 DEF Idle, CallRecords, Phases, Kinds, Mishaps, Results

LEMMA Ranks ==
    ASSUME NEW k \in CallRecords
    PROVE  /\ Polls \in Nat \ {0} /\ k.polls \in 0..Polls
           /\ k.phase = "queued" => Remaining(k) = Polls + 6
           /\ k.phase = "check"  => Remaining(k) = Polls + 5
           /\ k.phase = "ask"    => Remaining(k) = Polls + 4
           /\ k.phase = "poll"   => Remaining(k) = k.polls + 3
           /\ k.phase = "act"    => Remaining(k) = 2
           /\ k.phase = "reread" => Remaining(k) = 1
           /\ k.phase = "idle"   => Remaining(k) = 0
  BY GateConstants DEF Remaining, CallRecords

LEMMA FirstPhases ==
    ASSUME NEW kind \in Kinds
    PROVE  /\ FirstPhase(kind) \in {"check", "act", "reread"}
           /\ FirstPhase(kind) = "check" <=> kind \in Gated
           /\ FirstPhase(kind) = "act" <=> kind = "language"
           /\ FirstPhase(kind) = "reread" <=> kind = "read"
  BY DEF FirstPhase, Kinds, Gated

--------------------------------------------------------------------------------
(* What a step does, in a few kinds.                                         *)

\* A call begins: it takes its turn or joins the queue.
Begins(c, k) ==
    /\ call[c].phase = "idle"
    /\ Becomes(c, k) /\ line' \in Seq(Calls)
    /\ notified' \in BOOLEAN /\ (notified' => notified \/ k.kind = "language")
    /\ ~k.landed /\ k.result = "none"
    /\ \/ k.phase = "queued" /\ talking' = talking
       \/ k.phase = FirstPhase(k.kind) /\ talking = {} /\ talking' = {c}
    /\ UNCHANGED <<awake, table, count, unheard>>

\* A call goes on to k, before it was carried out: it is granted its turn, or it
\* makes its way through the gate.
GoesOn(c, k) ==
    /\ call[c].phase \in Before /\ k.phase \in Before \union {"reread"}
    /\ k.phase = "reread" => k.kind = "read"
    /\ k.kind = call[c].kind /\ k.landed = call[c].landed
    /\ Remaining(k) < Remaining(call[c])
    /\ Becomes(c, k) /\ line' \in Seq(Calls)
    /\ \/ call[c].phase \in Working /\ k.phase \in Working /\ talking' = talking
       \/ call[c].phase = "queued" /\ k.phase = FirstPhase(k.kind)
          /\ talking = {} /\ talking' = {c}
    /\ k.phase \in {"check", "ask", "poll"} => k.kind \in Gated
    /\ k.phase = "act" => k.kind # "read" /\ (k.kind \in Gated => awake)
    /\ notified' => \/ notified /\ (Prompting(c) => k.phase = "poll" \/ k.kind = "language")
                    \/ k.phase = "poll"
    /\ notified' \in BOOLEAN
    /\ UNCHANGED <<awake, table, count, unheard>>

\* The lock has answered call c, or its session is over: k.landed says what became of
\* the request.
Lands(c, k) ==
    /\ call[c].phase = "act" /\ k.phase = "reread" /\ k.kind = call[c].kind
    /\ Becomes(c, k)
    /\ k.kind \in {"enrol", "language"} => k.landed
    /\ k.mishap = "none" => call[c].mishap = "none" /\ (awake => k.landed)
    /\ k.landed => Feasible(c)
    /\ table' = IF k.landed THEN TableAfter(k.kind) ELSE table
    /\ UNCHANGED <<talking, line, awake, count, notified, unheard>>

\* A call ends: it leaves the queue, or returns the lock.  It leaves a count that is
\* right, or says that it may not be.
Ends(c, k) ==
    /\ call[c].phase # "idle" /\ k.phase = "idle"
    /\ k.kind = call[c].kind /\ k.landed = call[c].landed /\ k.mishap = call[c].mishap
    /\ Becomes(c, k) /\ line' \in Seq(Calls)
    /\ talking' = talking \ {c}
    /\ notified' \in BOOLEAN /\ (notified' => notified /\ ~Prompting(c))
    /\ k.result = "ok" => call[c].phase = "reread"
    /\ table' # table => call[c].phase = "act" /\ Feasible(c) /\ table' = TableAfter(call[c].kind)
    /\ unheard' \in BOOLEAN
    /\ \/ count' = table' /\ table' = table /\ table > 0
       \/ /\ count' = count /\ (unheard => unheard')
          /\ table' # table \/ (call[c].landed /\ call[c].kind # "language") => unheard'
    /\ UNCHANGED awake

\* The keypad wakes or falls asleep.
Dozes ==
    /\ awake' \in BOOLEAN
    /\ call' \in [Calls -> CallRecords]
    /\ \A c \in Calls :
          /\ call'[c] = [call[c] EXCEPT !.mishap = call'[c].mishap]
          /\ call'[c].mishap = "none" => call[c].mishap = "none"
          /\ call[c].phase = "act" => awake' \/ call'[c].mishap # "none"
    /\ UNCHANGED <<talking, line, table, count, notified, unheard>>

LEMMA StartFacts ==
    ASSUME TypeOK, NEW c \in Calls, Access!Start(c)
    PROVE  talking = {} /\ talking' = {c} /\ line' \in Seq(Calls) /\ count' = count
  <1>1. CASE line = <<>> /\ UNCHANGED line
    BY <1>1 DEF Access!Start, TypeOK
  <1>2. CASE line # <<>> /\ line' = Tail(line)
    BY <1>2, TailFacts DEF Access!Start, TypeOK
  <1>3. QED
    BY <1>1, <1>2 DEF Access!Start

LEMMA QueueFacts ==
    ASSUME TypeOK, NEW c \in Calls, Access!Join(c) \/ Access!Refused(c) \/ Access!GiveUp(c)
    PROVE  line' \in Seq(Calls) /\ UNCHANGED <<talking, count>>
  <1>1. CASE Access!Join(c)
    BY <1>1, AppendFacts DEF Access!Join, TypeOK
  <1>2. CASE Access!Refused(c)
    BY <1>2, TailFacts DEF Access!Refused, TypeOK
  <1>3. CASE Access!GiveUp(c)
    <2>1. PICK i \in DOMAIN line : line' = RemoveAt(line, i)
      BY <1>3 DEF Access!GiveUp, RemoveAt, Access!RemoveAt
    <2>2. QED
      BY <1>3, <2>1, RemoveAtFacts DEF Access!GiveUp, TypeOK
  <1>4. QED
    BY <1>1, <1>2, <1>3

LEMMA RequestBegins ==
    ASSUME TypeOK, NEW c \in Calls, NEW kind \in Methods, Request(c, kind)
    PROVE  \E k \in CallRecords : Begins(c, k)
  <1> DEFINE asked == [Idle EXCEPT !.kind = kind]
             taken == [asked EXCEPT !.phase = FirstPhase(kind)]
             queued == [asked EXCEPT !.phase = "queued"]
  <1>0. kind \in Kinds /\ FirstPhase(kind) \in Phases
    BY GateConstants, FirstPhases DEF Phases
  <1>1. asked \in CallRecords /\ asked.kind = kind /\ ~asked.landed /\ asked.result = "none"
    BY <1>0, IdleType DEF CallRecords
  <1> HIDE DEF asked
  <1>2. taken \in CallRecords /\ taken.phase = FirstPhase(kind) /\ taken.kind = kind
        /\ ~taken.landed /\ taken.result = "none"
    BY <1>0, <1>1 DEF CallRecords
  <1>3. queued \in CallRecords /\ queued.phase = "queued" /\ queued.kind = kind
        /\ ~queued.landed /\ queued.result = "none"
    BY <1>1 DEF CallRecords, Phases
  <1> HIDE DEF taken, queued
  <1>4. CASE Access!Start(c) /\ Becomes(c, taken)
    <2>1. Begins(c, taken)
      BY <1>2, <1>4, StartFacts DEF Begins, Request
    <2>2. QED
      BY <1>2, <2>1
  <1>5. CASE Access!Join(c) /\ Becomes(c, queued)
    <2>1. Begins(c, queued)
      BY <1>3, <1>5, QueueFacts DEF Begins, Request
    <2>2. QED
      BY <1>3, <2>1
  <1>6. QED
    BY <1>4, <1>5 DEF Request, Becomes, asked, taken, queued

LEMMA GrantedGoesOn ==
    ASSUME TypeOK, NEW c \in Calls, Granted(c)
    PROVE  \E k \in CallRecords : GoesOn(c, k)
  <1> DEFINE k == [call[c] EXCEPT !.phase = FirstPhase(call[c].kind)]
  <1>1. call[c] \in CallRecords /\ call[c].phase = "queued"
    BY TypeParts DEF Granted
  <1>2. call[c].kind \in Kinds
    BY <1>1 DEF CallRecords
  <1>3. /\ k \in CallRecords /\ k.phase = FirstPhase(k.kind) /\ k.kind = call[c].kind
        /\ k.landed = call[c].landed
    BY <1>1, <1>2, FirstPhases DEF CallRecords, Phases
  <1>4. Becomes(c, k)
    BY DEF Granted, Becomes
  <1>5. /\ talking = {} /\ talking' = {c} /\ line' \in Seq(Calls)
        /\ UNCHANGED <<awake, table, count, unheard, notified>>
    BY StartFacts DEF Granted
  <1>6. /\ k.phase \in {"check", "act", "reread"}
        /\ k.phase = "check" <=> k.kind \in Gated
        /\ k.phase = "act" <=> k.kind = "language"
        /\ k.phase = "reread" <=> k.kind = "read"
    BY <1>2, <1>3, FirstPhases
  <1>7. notified' \in BOOLEAN /\ (Prompting(c) => k.kind = "language")
    BY <1>1, <1>3, <1>5, TypeParts DEF Prompting
  <1> HIDE DEF k
  <1>8. Remaining(k) < Remaining(call[c])
    <2>1. /\ Remaining(call[c]) = Polls + 6 /\ Polls \in Nat
          /\ Remaining(k) \in {Polls + 5, 2, 1}
      BY <1>1, <1>3, <1>6, Ranks
    <2>2. QED
      BY <2>1
  <1>9. GoesOn(c, k)
    BY <1>1, <1>3, <1>4, <1>5, <1>6, <1>7, <1>8 DEF GoesOn, Before, Gated
  <1>10. QED
    BY <1>3, <1>9

LEMMA GateGoesOn ==
    ASSUME TypeOK, GateInv, NEW c \in Calls, Check(c) \/ Ask(c) \/ Poll(c)
    PROVE  \E k \in CallRecords : GoesOn(c, k)
  <1>1. call[c] \in CallRecords /\ notified \in BOOLEAN
    BY TypeParts
  <1>2. call[c].phase \in {"check", "ask", "poll"} /\ call[c].kind \in Gated
    BY DEF Check, Ask, Poll, GateInv
  <1>p. Polls \in 0..Polls /\ 0 \in 0..Polls
    BY GateConstants
  <1>s. line \in Seq(Calls) /\ "language" \notin Gated /\ "read" \notin Gated
    BY TypeParts DEF Gated
  <1>3. ASSUME NEW k \in CallRecords, Becomes(c, k), k.phase \in {"check", "ask", "poll", "act"},
               k.kind = call[c].kind, k.landed = call[c].landed,
               Remaining(k) < Remaining(call[c]),
               k.phase = "act" => awake,
               \/ notified' = notified /\ (Prompting(c) => k.phase = "poll")
               \/ notified' = TRUE /\ k.phase = "poll"
               \/ notified' = FALSE,
               UNCHANGED <<talking, line, awake, table, count, unheard>>
        PROVE  GoesOn(c, k)
    <2>1. call[c].phase \in Before /\ call[c].phase \in Working
      BY <1>2 DEF Before, Working, Phases
    <2>2. k.phase \in Before /\ k.phase \in Working /\ k.phase # "reread"
      BY <1>3 DEF Before, Working, Phases
    <2>3. k.kind \in Gated /\ k.kind # "read"
      BY <1>2, <1>3, <1>s
    <2>4. /\ notified' => \/ notified /\ (Prompting(c) => k.phase = "poll" \/ k.kind = "language")
                          \/ k.phase = "poll"
          /\ notified' \in BOOLEAN
      <3>1. CASE notified' = notified /\ (Prompting(c) => k.phase = "poll")
        BY <1>1, <3>1, Zenon
      <3>2. CASE notified' = TRUE /\ k.phase = "poll"
        BY <3>2, Zenon
      <3>3. CASE notified' = FALSE
        BY <3>3, Zenon
      <3>4. QED
        BY <1>3, <3>1, <3>2, <3>3, Zenon
    <2>5. line' \in Seq(Calls) /\ talking' = talking
      BY <1>3, <1>s
    <2>6. QED
      BY <1>3, <2>1, <2>2, <2>3, <2>4, <2>5, Zenon DEF GoesOn
  <1>4. CASE Check(c)
    <2>1. PICK answer \in FrontConnection :
              call' = [call EXCEPT ![c].phase = IF answer = "present" THEN "act" ELSE "ask"]
      BY <1>4 DEF Check
    <2> DEFINE p == IF answer = "present" THEN "act" ELSE "ask"
               k == [call[c] EXCEPT !.phase = p]
    <2>2. p \in {"act", "ask"} /\ (p = "act" => awake)
      BY TypeParts DEF FrontConnection
    <2> HIDE DEF p
    <2>3. k \in CallRecords /\ k.phase = p /\ k.kind = call[c].kind /\ k.landed = call[c].landed
      BY <1>1, <2>2 DEF CallRecords, Phases
    <2>4. Becomes(c, k) /\ UNCHANGED <<talking, line, awake, table, count, unheard, notified>>
      BY <1>4, <2>1 DEF Check, Becomes, p
    <2>5. ~Prompting(c)
      BY <1>2, <1>4, <1>s DEF Prompting, Check
    <2> HIDE DEF k
    <2>6. Remaining(k) < Remaining(call[c])
      <3>1. /\ Remaining(call[c]) = Polls + 5 /\ Polls \in Nat
            /\ Remaining(k) \in {Polls + 4, 2}
        BY <1>1, <1>4, <2>2, <2>3, Ranks DEF Check
      <3>2. QED
        BY <3>1
    <2>7. QED
      BY <1>3, <2>2, <2>3, <2>4, <2>5, <2>6
  <1>5. CASE Ask(c)
    <2> DEFINE k == [call[c] EXCEPT !.phase = "poll", !.polls = Polls]
    <2>1. k \in CallRecords /\ k.phase = "poll" /\ k.kind = call[c].kind
          /\ k.landed = call[c].landed
      BY <1>1, <1>p DEF CallRecords, Phases
    <2>2. Becomes(c, k) /\ notified' = TRUE
          /\ UNCHANGED <<talking, line, awake, table, count, unheard>>
      BY <1>5 DEF Ask, Becomes
    <2>3. k.polls = Polls /\ call[c].phase = "ask"
      BY <1>1, <1>5 DEF CallRecords, Ask
    <2> HIDE DEF k
    <2>4. Remaining(k) < Remaining(call[c])
      BY <1>1, <2>1, <2>3, Ranks
    <2>5. QED
      BY <1>3, <2>1, <2>2, <2>4
  <1>6. CASE Poll(c)
    <2>1. UNCHANGED <<talking, line, awake, table, count, unheard>>
      BY <1>6 DEF Poll
    <2>2. CASE awake /\ notified' = FALSE
               /\ Becomes(c, [call[c] EXCEPT !.phase = "act", !.polls = 0])
      <3> DEFINE k == [call[c] EXCEPT !.phase = "act", !.polls = 0]
      <3>1. k \in CallRecords /\ k.phase = "act" /\ k.kind = call[c].kind
            /\ k.landed = call[c].landed
        BY <1>1, <1>p DEF CallRecords, Phases
      <3> HIDE DEF k
      <3>2. Becomes(c, k)
        BY <2>2 DEF k
      <3>3. Remaining(k) < Remaining(call[c])
        BY <1>1, <1>6, <3>1, Ranks DEF Poll
      <3>4. QED
        BY <1>3, <2>1, <2>2, <3>1, <3>2, <3>3
    <2>3. CASE notified' = notified
               /\ Becomes(c, [call[c] EXCEPT !.polls = call[c].polls - 1])
      <3> DEFINE k == [call[c] EXCEPT !.polls = call[c].polls - 1]
      <3>1. call[c].polls - 1 \in 0..Polls /\ call[c].phase = "poll"
        BY <1>1, <1>6, GateConstants DEF CallRecords, Poll
      <3>2. k \in CallRecords /\ k.phase = "poll" /\ k.kind = call[c].kind
            /\ k.landed = call[c].landed
        BY <1>1, <3>1 DEF CallRecords
      <3>3. k.polls = call[c].polls - 1
        BY <1>1 DEF CallRecords
      <3> HIDE DEF k
      <3>4. Becomes(c, k)
        BY <2>3 DEF k
      <3>5. Remaining(k) < Remaining(call[c])
        BY <1>1, <3>1, <3>2, <3>3, Ranks
      <3>6. QED
        BY <1>3, <2>1, <2>3, <3>2, <3>4, <3>5
    <2>4. QED
      BY <1>6, <2>2, <2>3, TypeParts DEF Poll, FrontConnection, Becomes
  <1>7. QED
    BY <1>4, <1>5, <1>6

--------------------------------------------------------------------------------
(* The steps that end a call.                                                *)

EndRecord(c, result) == [call[c] EXCEPT !.phase = "idle", !.polls = 0, !.result = result]

LEMMA EndRecordFacts ==
    ASSUME TypeOK, NEW c \in Calls, NEW result \in Results
    PROVE  /\ EndRecord(c, result) \in CallRecords
           /\ EndRecord(c, result).phase = "idle"
           /\ EndRecord(c, result).result = result
           /\ EndRecord(c, result).kind = call[c].kind
           /\ EndRecord(c, result).landed = call[c].landed
           /\ EndRecord(c, result).mishap = call[c].mishap
  <1>1. call[c] \in CallRecords /\ 0 \in 0..Polls /\ "idle" \in Phases
    BY TypeParts, GateConstants DEF Phases
  <1>2. QED
    BY <1>1 DEF EndRecord, CallRecords

\* What remains to be said of a step that ends a call.
LEMMA EndedEnds ==
    ASSUME TypeOK, NEW c \in Calls, NEW result \in Results, Ended(c, result),
           call[c].phase # "idle", result = "ok" => call[c].phase = "reread",
           line' \in Seq(Calls), talking' = talking \ {c},
           table' # table => call[c].phase = "act" /\ Feasible(c)
                             /\ table' = TableAfter(call[c].kind),
           unheard' \in BOOLEAN,
           \/ count' = table' /\ table' = table /\ table > 0
           \/ /\ count' = count /\ (unheard => unheard')
              /\ table' # table \/ (call[c].landed /\ call[c].kind # "language") => unheard',
           UNCHANGED awake
    PROVE  \E k \in CallRecords : Ends(c, k)
  <1> DEFINE k == EndRecord(c, result)
  <1>1. /\ k \in CallRecords /\ k.phase = "idle" /\ k.result = result
        /\ k.kind = call[c].kind /\ k.landed = call[c].landed
        /\ k.mishap = call[c].mishap
    BY EndRecordFacts
  <1>2. Becomes(c, k)
    BY DEF Ended, Becomes, EndRecord
  <1>3. notified' \in BOOLEAN /\ (notified' => notified /\ ~Prompting(c))
    BY Zenon DEF Ended
  <1> HIDE DEF k
  <1>4. Ends(c, k)
    BY <1>1, <1>2, <1>3, Zenon DEF Ends
  <1>5. QED
    BY <1>1, <1>4

\* Nothing was carried out, or somebody notes that the count may be behind.
LEMMA BehindFacts ==
    ASSUME TypeOK, NEW c \in Calls, NEW landed \in BOOLEAN, Behind(c, landed)
    PROVE  /\ unheard' \in BOOLEAN /\ (unheard => unheard')
           /\ landed /\ call[c].kind # "language" => unheard'
  BY TypeParts, Zenon DEF Behind

LEMMA LeaveFacts ==
    ASSUME TypeOK, NEW c \in Calls, NEW result, Leave(c, result)
    PROVE  /\ Ended(c, result) /\ line' \in Seq(Calls) /\ talking' = talking \ {c}
  BY TypeParts DEF Leave, Access!Finish

LEMMA TableAfterFacts ==
    ASSUME NEW kind \in {"add", "delete", "enrol", "language"}
    PROVE  /\ kind \in {"add", "enrol"} => TableAfter(kind) = table + 1
           /\ kind = "delete" => TableAfter(kind) = table - 1
           /\ kind = "language" => TableAfter(kind) = table
  BY DEF TableAfter

LEMMA TurnedAwayEnds ==
    ASSUME TypeOK, GateInv, NEW c \in Calls, TurnedAway(c)
    PROVE  \E k \in CallRecords : Ends(c, k)
  <1>1. Ended(c, "raised") /\ call[c].phase = "queued" /\ UNCHANGED <<awake, table, unheard>>
    BY DEF TurnedAway
  <1>2. line' \in Seq(Calls) /\ UNCHANGED <<talking, count>> /\ talking = {}
    BY QueueFacts DEF TurnedAway, Access!Refused
  <1>3. ~call[c].landed /\ unheard \in BOOLEAN
    BY <1>1, TypeParts DEF GateInv, Before
  <1>4. QED
    BY <1>1, <1>2, <1>3, EndedEnds DEF Results

LEMMA WindowElapsedEnds ==
    ASSUME TypeOK, GateInv, NEW c \in Calls, WindowElapsed(c)
    PROVE  \E k \in CallRecords : Ends(c, k)
  <1>1. Leave(c, "raised") /\ call[c].phase = "poll" /\ UNCHANGED <<awake, table, count, unheard>>
    BY DEF WindowElapsed
  <1>2. Ended(c, "raised") /\ line' \in Seq(Calls) /\ talking' = talking \ {c}
    BY <1>1, LeaveFacts
  <1>3. ~call[c].landed /\ unheard \in BOOLEAN
    BY <1>1, TypeParts DEF GateInv, Before
  <1>4. QED
    BY <1>1, <1>2, <1>3, EndedEnds DEF Results

LEMMA RejectedEnds ==
    ASSUME TypeOK, NEW c \in Calls, Rejected(c)
    PROVE  \E k \in CallRecords : Ends(c, k)
  <1>1. /\ Leave(c, "raised") /\ Behind(c, call[c].landed) /\ UNCHANGED <<awake, table, count>>
        /\ call[c].phase # "idle"
    BY DEF Rejected
  <1>2. Ended(c, "raised") /\ line' \in Seq(Calls) /\ talking' = talking \ {c}
    BY <1>1, LeaveFacts
  <1>3. call[c].landed \in BOOLEAN
    BY TypeParts DEF CallRecords
  <1>4. /\ unheard' \in BOOLEAN /\ (unheard => unheard')
        /\ call[c].landed /\ call[c].kind # "language" => unheard'
    BY <1>1, <1>3, BehindFacts
  <1>5. QED
    BY <1>1, <1>2, <1>4, EndedEnds DEF Results

LEMMA RereadEnds ==
    ASSUME TypeOK, NEW c \in Calls, Reread(c)
    PROVE  \E k \in CallRecords : Ends(c, k)
  <1>1. Leave(c, "ok") /\ call[c].phase = "reread" /\ UNCHANGED <<awake, table>>
    BY DEF Reread
  <1>2. Ended(c, "ok") /\ line' \in Seq(Calls) /\ talking' = talking \ {c}
    BY <1>1, LeaveFacts
  <1>3. call[c].landed \in BOOLEAN /\ unheard \in BOOLEAN
    BY TypeParts DEF CallRecords
  <1>4. CASE table > 0 /\ count' = table /\ unheard' = FALSE
    BY <1>1, <1>2, <1>4, EndedEnds DEF Results
  <1>5. CASE Behind(c, call[c].landed) /\ UNCHANGED count
    <2>1. /\ unheard' \in BOOLEAN /\ (unheard => unheard')
          /\ call[c].landed /\ call[c].kind # "language" => unheard'
      BY <1>3, <1>5, BehindFacts
    <2>2. QED
      BY <1>1, <1>2, <1>5, <2>1, EndedEnds DEF Results
  <1>6. CASE call[c].kind = "language" /\ UNCHANGED <<count, unheard>>
    BY <1>1, <1>2, <1>3, <1>6, EndedEnds DEF Results
  <1>7. QED
    BY <1>4, <1>5, <1>6 DEF Reread

LEMMA CancelEnds ==
    ASSUME TypeOK, LockInv, GateInv, NEW c \in Calls, Cancel(c)
    PROVE  \E k \in CallRecords : Ends(c, k)
  <1>1. call[c].landed \in BOOLEAN /\ unheard \in BOOLEAN /\ awake' = awake
    BY TypeParts DEF CallRecords, Cancel
  <1>2. CASE call[c].phase = "queued" /\ Access!GiveUp(c) /\ Ended(c, "cancelled")
             /\ UNCHANGED <<table, unheard>>
    <2>1. line' \in Seq(Calls) /\ UNCHANGED <<talking, count>>
      BY <1>2, QueueFacts
    <2>2. talking' = talking \ {c} /\ ~call[c].landed
      BY <1>2, <2>1 DEF LockInv, GateInv, Working, Before
    <2>3. QED
      BY <1>1, <1>2, <2>1, <2>2, EndedEnds DEF Results
  <1>3. CASE /\ call[c].phase \in Phases \ {"idle", "queued"}
             /\ table' \in {table, IF Feasible(c) /\ call[c].phase = "act"
                                  THEN TableAfter(call[c].kind) ELSE table}
             /\ Behind(c, call[c].landed \/ table' # table)
             /\ UNCHANGED count
             /\ Leave(c, "cancelled")
    <2>1. Ended(c, "cancelled") /\ line' \in Seq(Calls) /\ talking' = talking \ {c}
      BY <1>3, LeaveFacts
    <2>2. call[c].phase # "idle"
          /\ (table' # table => call[c].phase = "act" /\ Feasible(c)
                                 /\ table' = TableAfter(call[c].kind))
      BY <1>3
    <2>3. /\ unheard' \in BOOLEAN /\ (unheard => unheard')
          /\ (call[c].landed \/ table' # table) /\ call[c].kind # "language" => unheard'
      BY <1>3, BehindFacts
    <2>4. call[c].kind = "language" => table' = table
      BY <1>3 DEF TableAfter
    <2>5. QED
      BY <1>1, <1>3, <2>1, <2>2, <2>3, <2>4, EndedEnds DEF Results
  <1>4. QED
    BY <1>2, <1>3 DEF Cancel

--------------------------------------------------------------------------------
(* The steps with which the lock carries a request out, and the keypad's own. *)

\* GoOn leaves the record the call goes on with.
LEMMA GoOnLands ==
    ASSUME TypeOK, NEW c \in Calls, NEW landed \in BOOLEAN, NEW mishap \in Mishaps,
           GoOn(c, landed, mishap),
           call[c].phase = "act",
           call[c].kind \in {"enrol", "language"} => landed,
           landed => Feasible(c),
           mishap = "none" => call[c].mishap = "none" /\ (awake => landed)
    PROVE  \E k \in CallRecords : Lands(c, k)
  <1> DEFINE k == [call[c] EXCEPT !.phase = "reread", !.landed = landed, !.mishap = mishap]
  <1>1. call[c] \in CallRecords /\ "reread" \in Phases
    BY TypeParts DEF Phases
  <1>2. /\ Becomes(c, k) /\ UNCHANGED <<talking, line, awake, count, notified, unheard>>
        /\ table' = IF landed THEN TableAfter(call[c].kind) ELSE table
    BY DEF GoOn, Becomes
  <1>3. /\ k \in CallRecords /\ k.phase = "reread" /\ k.kind = call[c].kind
        /\ k.landed = landed /\ k.mishap = mishap
    BY <1>1 DEF CallRecords
  <1> HIDE DEF k
  <1>4. Lands(c, k)
    BY <1>2, <1>3 DEF Lands
  <1>5. QED
    BY <1>3, <1>4

LEMMA SendLands ==
    ASSUME TypeOK, NEW c \in Calls, Send(c)
    PROVE  \E k \in CallRecords : Lands(c, k)
  <1>1. call[c].phase = "act" /\ call[c].kind \notin {"enrol", "language"}
    BY DEF Send
  <1>2. call[c].mishap \in Mishaps /\ awake \in BOOLEAN /\ Feasible(c) \in BOOLEAN
    BY TypeParts DEF CallRecords, Feasible
  <1>3. CASE Feasible(c) /\ GoOn(c, TRUE, call[c].mishap)
    BY <1>1, <1>2, <1>3, GoOnLands
  <1>4. CASE awake /\ GoOn(c, FALSE, "refused")
    BY <1>1, <1>4, GoOnLands DEF Mishaps
  <1>5. CASE ~awake /\ GoOn(c, FALSE, call[c].mishap)
    BY <1>1, <1>2, <1>5, GoOnLands
  <1>6. ASSUME NEW landed \in {Feasible(c), FALSE}, GoOn(c, landed, "failed")
        PROVE  \E k \in CallRecords : Lands(c, k)
    BY <1>1, <1>2, <1>6, GoOnLands DEF Mishaps
  <1>7. QED
    BY <1>3, <1>4, <1>5, <1>6 DEF Send

LEMMA DriveLandsOrEnds ==
    ASSUME TypeOK, GateInv, NEW c \in Calls, Drive(c)
    PROVE  \E k \in CallRecords : Lands(c, k) \/ Ends(c, k)
  <1>1. PICK landed \in {Feasible(c), FALSE} :
            \/ landed /\ GoOn(c, TRUE, call[c].mishap)
            \/ /\ table' = IF landed THEN TableAfter(call[c].kind) ELSE table
               /\ Behind(c, landed)
               /\ UNCHANGED <<awake, count>>
               /\ Leave(c, "raised")
    BY DEF Drive
  <1>2. call[c].phase = "act" /\ call[c].kind \in {"enrol", "language"} /\ ~call[c].landed
    BY DEF Drive, GateInv, Before
  <1>3. landed \in BOOLEAN /\ (landed => Feasible(c)) /\ call[c].mishap \in Mishaps
    BY TypeParts DEF CallRecords, Feasible
  <1>4. CASE landed /\ GoOn(c, TRUE, call[c].mishap)
    BY <1>2, <1>3, <1>4, GoOnLands
  <1>5. CASE /\ table' = IF landed THEN TableAfter(call[c].kind) ELSE table
             /\ Behind(c, landed)
             /\ UNCHANGED <<awake, count>>
             /\ Leave(c, "raised")
    <2>1. Ended(c, "raised") /\ line' \in Seq(Calls) /\ talking' = talking \ {c}
      BY <1>5, LeaveFacts
    <2>2. /\ unheard' \in BOOLEAN /\ (unheard => unheard')
          /\ landed /\ call[c].kind # "language" => unheard'
      BY <1>3, <1>5, BehindFacts
    <2>3. table' # table => landed /\ call[c].kind # "language" /\ Feasible(c)
                            /\ table' = TableAfter(call[c].kind)
      BY <1>2, <1>3, <1>5, TableAfterFacts
    <2>4. QED
      BY <1>2, <1>5, <2>1, <2>2, <2>3, EndedEnds DEF Results
  <1>6. QED
    BY <1>1, <1>4, <1>5

LEMMA KeypadDozes ==
    ASSUME TypeOK, KeypadWakes \/ KeypadSleeps
    PROVE  Dozes
  <1>1. call \in [Calls -> CallRecords]
    BY TypeParts
  <1>2. CASE KeypadWakes
    <2>1. ASSUME NEW c \in Calls
          PROVE  call[c] = [call[c] EXCEPT !.mishap = call[c].mishap]
      BY <1>1 DEF CallRecords
    <2>2. QED
      BY <1>1, <1>2, <2>1 DEF KeypadWakes, Dozes
  <1>3. CASE KeypadSleeps
    <2> DEFINE d(c) == IF call[c].phase = "act" THEN "asleep" ELSE call[c].mishap
               r(c) == [call[c] EXCEPT !.mishap = d(c)]
    <2>1. ASSUME NEW c \in Calls
          PROVE  /\ d(c) \in Mishaps /\ (d(c) = "none" => call[c].mishap = "none")
                 /\ call[c].phase = "act" => d(c) # "none"
      BY <1>1 DEF CallRecords, Mishaps
    <2>2. call' = [c \in Calls |-> r(c)] /\ awake' = FALSE
          /\ UNCHANGED <<talking, line, table, count, notified, unheard>>
      BY <1>3 DEF KeypadSleeps
    <2> HIDE DEF d
    <2>3. ASSUME NEW c \in Calls
          PROVE  /\ r(c) \in CallRecords /\ r(c).mishap = d(c)
                 /\ r(c) = [call[c] EXCEPT !.mishap = r(c).mishap]
      BY <1>1, <2>1 DEF CallRecords
    <2> HIDE DEF r
    <2>4. QED
      BY <2>1, <2>2, <2>3 DEF Dozes
  <1>4. QED
    BY <1>2, <1>3

\* Every step is of one of these kinds.
LEMMA StepKinds ==
    ASSUME TypeOK, LockInv, GateInv, [Next]_vars
    PROVE  \/ \E c \in Calls, k \in CallRecords :
                  Begins(c, k) \/ GoesOn(c, k) \/ Lands(c, k) \/ Ends(c, k)
           \/ Dozes
           \/ UNCHANGED vars
  <1>1. ASSUME NEW c \in Calls, NEW kind \in Methods, Request(c, kind)
        PROVE  \E k \in CallRecords : Begins(c, k)
    BY <1>1, RequestBegins
  <1>2. ASSUME NEW c \in Calls, Granted(c) \/ Check(c) \/ Ask(c) \/ Poll(c)
        PROVE  \E k \in CallRecords : GoesOn(c, k)
    BY <1>2, GrantedGoesOn, GateGoesOn
  <1>3. ASSUME NEW c \in Calls, Send(c) \/ Drive(c)
        PROVE  \E k \in CallRecords : Lands(c, k) \/ Ends(c, k)
    BY <1>3, SendLands, DriveLandsOrEnds
  <1>4. ASSUME NEW c \in Calls,
               TurnedAway(c) \/ WindowElapsed(c) \/ Rejected(c) \/ Reread(c) \/ Cancel(c)
        PROVE  \E k \in CallRecords : Ends(c, k)
    BY <1>4, TurnedAwayEnds, WindowElapsedEnds, RejectedEnds, RereadEnds, CancelEnds
  <1>5. QED
    BY <1>1, <1>2, <1>3, <1>4, KeypadDozes DEF Next, CallStep

--------------------------------------------------------------------------------
(* Each kind of step keeps the invariant.                                    *)

\* What the lock can do stays within the room it has.
LEMMA RoomFacts ==
    ASSUME TypeOK, NEW c \in Calls, Feasible(c),
           call[c].kind \in {"add", "delete", "enrol", "language"}
    PROVE  TableAfter(call[c].kind) \in 0..MaxTable
  BY TypeParts, GateConstants, TableAfterFacts DEF Feasible

LEMMA BeginsKeeps ==
    ASSUME IInv, NEW c \in Calls, NEW k \in CallRecords, Begins(c, k)
    PROVE  IInv'
  <1> USE DEF IInv
  <1>1. /\ call' \in [Calls -> CallRecords] /\ call'[c] = k
        /\ \A d \in Calls \ {c} : call'[d] = call[d]
    BY BecomesFacts DEF Begins
  <1>2. /\ UNCHANGED <<awake, table, count, unheard>> /\ line' \in Seq(Calls)
        /\ notified' \in BOOLEAN /\ (notified' => notified \/ k.kind = "language")
        /\ ~k.landed /\ k.result = "none" /\ call[c].phase = "idle"
        /\ \/ k.phase = "queued" /\ talking' = talking
           \/ k.phase = FirstPhase(k.kind) /\ talking = {} /\ talking' = {c}
    BY DEF Begins
  <1>3. /\ k.phase \in {"queued", "check", "act", "reread"}
        /\ k.phase = "check" => k.kind \in Gated
        /\ k.phase = "act" => k.kind = "language"
        /\ k.phase = "reread" => k.kind = "read"
    <2>1. k.kind \in Kinds
      BY DEF CallRecords
    <2>2. QED
      BY <1>2, <2>1, FirstPhases
  <1>4. TypeOK'
    BY <1>1, <1>2, TypeParts DEF CallRecords, TypeOK
  <1>n. c \notin talking
    BY <1>2 DEF LockInv, Working
  <1>5. LockInv'
    <2>1. CASE k.phase = "queued" /\ talking' = talking
      BY <1>1, <1>n, <2>1 DEF LockInv, Working
    <2>2. CASE k.phase # "queued" /\ talking = {} /\ talking' = {c}
      <3>1. k.phase \in Working
        BY <1>3, <2>2 DEF Working, Phases
      <3>2. QED
        BY <1>1, <2>2, <3>1 DEF LockInv
    <2>3. FirstPhase(k.kind) # "queued"
      BY FirstPhases DEF CallRecords
    <2>4. QED
      BY <1>2, <2>1, <2>2, <2>3
  <1>6. NoLeftoverPrompt'
    BY <1>1, <1>2, <1>3 DEF NoLeftoverPrompt, Prompting
  <1>7. GateInv'
    BY <1>1, <1>2, <1>3 DEF GateInv, Before, Gated
  <1>8. DrivenSuccessIsReal' /\ GatedWriteIsReal'
    BY <1>1, <1>2, <1>3 DEF DrivenSuccessIsReal, GatedWriteIsReal, Succeeded
  <1>9. CountInv'
    <2>1. ASSUME NEW d \in talking PROVE d \in talking' /\ call'[d] = call[d]
      BY <1>1, <1>2, <1>n, <2>1, TypeParts
    <2>2. QED
      BY <1>2, <2>1 DEF CountInv
  <1>10. QED
    BY <1>4, <1>5, <1>6, <1>7, <1>8, <1>9

LEMMA GoesOnKeeps ==
    ASSUME IInv, NEW c \in Calls, NEW k \in CallRecords, GoesOn(c, k)
    PROVE  IInv'
  <1> USE DEF IInv
  <1>1. /\ call' \in [Calls -> CallRecords] /\ call'[c] = k
        /\ \A d \in Calls \ {c} : call'[d] = call[d]
    BY BecomesFacts DEF GoesOn
  <1>2. /\ UNCHANGED <<awake, table, count, unheard>> /\ line' \in Seq(Calls)
        /\ notified' \in BOOLEAN
        /\ call[c].phase \in Before /\ k.phase \in Before \union {"reread"}
        /\ k.kind = call[c].kind /\ k.landed = call[c].landed
    BY DEF GoesOn
  <1>3. /\ k.phase \in Working /\ talking' \subseteq Calls
        /\ \/ call[c].phase \in Working /\ talking' = talking
           \/ call[c].phase = "queued" /\ talking = {} /\ talking' = {c}
    <2>1. k.kind \in Kinds
      BY DEF CallRecords
    <2>2. FirstPhase(k.kind) \in Working
      BY <2>1, FirstPhases DEF Working, Phases
    <2>3. QED
      BY <2>2, TypeParts DEF GoesOn
  <1>4. TypeOK'
    BY <1>1, <1>2, <1>3, TypeParts DEF CallRecords, TypeOK
  <1>5. LockInv'
    BY <1>1, <1>2, <1>3 DEF LockInv, Working, Phases
  <1>6. NoLeftoverPrompt'
    BY <1>1, <1>2, <1>3 DEF NoLeftoverPrompt, Prompting, GoesOn, Working, Phases
  <1>7. GateInv'
    BY <1>1, <1>2, <1>3 DEF GateInv, Before, Gated, GoesOn
  <1>8. DrivenSuccessIsReal' /\ GatedWriteIsReal'
    BY <1>1, <1>2, <1>3 DEF DrivenSuccessIsReal, GatedWriteIsReal, Succeeded, Working
  <1>9. CountInv'
    BY <1>1, <1>2, <1>3 DEF CountInv, LockInv, Working, Phases
  <1>10. QED
    BY <1>4, <1>5, <1>6, <1>7, <1>8, <1>9

LEMMA LandsKeeps ==
    ASSUME IInv, NEW c \in Calls, NEW k \in CallRecords, Lands(c, k)
    PROVE  IInv'
  <1> USE DEF IInv
  <1>1. /\ call' \in [Calls -> CallRecords] /\ call'[c] = k
        /\ \A d \in Calls \ {c} : call'[d] = call[d]
    BY BecomesFacts DEF Lands
  <1>2. /\ call[c].phase = "act" /\ k.phase = "reread" /\ k.kind = call[c].kind
        /\ k.kind \in {"enrol", "language"} => k.landed
        /\ k.mishap = "none" => call[c].mishap = "none" /\ (awake => k.landed)
        /\ k.landed => Feasible(c)
        /\ table' = IF k.landed THEN TableAfter(k.kind) ELSE table
        /\ UNCHANGED <<talking, line, awake, count, notified, unheard>>
    BY DEF Lands
  <1>3. k.kind \in Kinds \ {"read"} /\ ~call[c].landed
    BY <1>2 DEF CallRecords, GateInv, Before
  <1>4. table' \in 0..MaxTable
    <2>1. call[c].kind \in {"add", "delete", "enrol", "language"}
      BY <1>2, <1>3 DEF Kinds
    <2>2. QED
      BY <1>2, <2>1, RoomFacts, TypeParts
  <1>5. TypeOK'
    BY <1>1, <1>2, <1>4, TypeParts DEF CallRecords, TypeOK
  <1>6. LockInv'
    BY <1>1, <1>2 DEF LockInv, Working, Phases
  <1>7. NoLeftoverPrompt'
    BY <1>1, <1>2 DEF NoLeftoverPrompt, Prompting
  <1>8. GateInv'
    BY <1>1, <1>2 DEF GateInv, Before, Gated
  <1>9. DrivenSuccessIsReal' /\ GatedWriteIsReal'
    BY <1>1, <1>2 DEF DrivenSuccessIsReal, GatedWriteIsReal, Succeeded
  <1>10. CountInv'
    <2>1. c \in talking
      BY <1>2 DEF LockInv, Working, Phases
    <2>2. CASE k.landed /\ k.kind # "language"
      BY <1>1, <1>2, <2>1, <2>2 DEF CountInv
    <2>3. CASE ~k.landed \/ k.kind = "language"
      <3>1. table' = table
        BY <1>2, <2>3 DEF TableAfter
      <3>2. count \in {NotRead, table} \/ unheard
        BY <1>3, <2>1, TypeParts DEF CountInv, LockInv
      <3>3. QED
        BY <1>2, <3>1, <3>2 DEF CountInv
    <2>4. QED
      BY <2>2, <2>3
  <1>11. QED
    BY <1>5, <1>6, <1>7, <1>8, <1>9, <1>10

LEMMA EndsKeeps ==
    ASSUME IInv, NEW c \in Calls, NEW k \in CallRecords, Ends(c, k)
    PROVE  IInv'
  <1> USE DEF IInv
  <1>1. /\ call' \in [Calls -> CallRecords] /\ call'[c] = k
        /\ \A d \in Calls \ {c} : call'[d] = call[d]
    BY BecomesFacts DEF Ends
  <1>2. /\ call[c].phase # "idle" /\ k.phase = "idle" /\ talking' = talking \ {c}
        /\ k.kind = call[c].kind /\ k.landed = call[c].landed
        /\ k.mishap = call[c].mishap /\ (k.result = "ok" => call[c].phase = "reread")
        /\ notified' \in BOOLEAN /\ (notified' => notified /\ ~Prompting(c))
        /\ unheard' \in BOOLEAN /\ line' \in Seq(Calls) /\ UNCHANGED awake
    BY DEF Ends
  <1>3. table' # table => call[c].phase = "act" /\ Feasible(c) /\ table' = TableAfter(call[c].kind)
                          /\ call[c].kind \in Kinds \ {"read"}
    BY TypeParts DEF Ends, GateInv, CallRecords
  <1>4. table' \in 0..MaxTable
    <2>1. call[c].kind \in Kinds \ {"read"} => call[c].kind \in {"add", "delete", "enrol", "language"}
      BY DEF Kinds
    <2>2. QED
      BY <1>3, <2>1, RoomFacts, TypeParts
  <1>5. count' \in {NotRead} \union 1..MaxTable
    BY TypeParts DEF Ends
  <1>6. TypeOK'
    BY <1>1, <1>2, <1>4, <1>5, TypeParts DEF CallRecords, TypeOK
  <1>7. LockInv'
    BY <1>1, <1>2 DEF LockInv, Working
  <1>8. NoLeftoverPrompt'
    BY <1>1, <1>2 DEF NoLeftoverPrompt, Prompting
  <1>9. GateInv'
    BY <1>1, <1>2 DEF GateInv, Before, Gated
  <1>10. DrivenSuccessIsReal'
    BY <1>1, <1>2 DEF GateInv, DrivenSuccessIsReal, Succeeded
  <1>11. GatedWriteIsReal'
    BY <1>1, <1>2 DEF GateInv, GatedWriteIsReal, Succeeded
  <1>12. CountInv'
    <2>1. CASE count' = table'
      BY <2>1 DEF CountInv
    <2>2. CASE /\ count' = count /\ (unheard => unheard')
               /\ table' # table \/ (call[c].landed /\ call[c].kind # "language") => unheard'
      <3>1. CASE unheard' \/ (count \in {NotRead, table} /\ table' = table)
        BY <2>2, <3>1 DEF CountInv
      <3>2. CASE ~unheard' /\ table' = table /\ count \notin {NotRead, table}
        <4>1. PICK d \in talking : call[d].landed /\ call[d].kind # "language"
          BY <2>2, <3>2 DEF CountInv
        <4>2. d # c /\ d \in Calls
          BY <2>2, <3>2, <4>1, TypeParts
        <4>3. QED
          BY <1>1, <1>2, <4>1, <4>2 DEF CountInv
      <3>3. CASE unheard'
        BY <3>3, Zenon DEF CountInv
      <3>4. CASE ~unheard'
        <4>1. table' = table
          BY <2>2, <3>4
        <4>2. QED
          BY <3>1, <3>2, <3>4, <4>1
      <3>5. QED
        BY <3>3, <3>4
    <2>3. QED
      BY <2>1, <2>2 DEF Ends
  <1>13. QED
    BY <1>6, <1>7, <1>8, <1>9, <1>10, <1>11, <1>12

LEMMA DozesKeeps ==
    ASSUME IInv, Dozes
    PROVE  IInv'
  <1> USE DEF IInv
  <1>1. ASSUME NEW c \in Calls
        PROVE  /\ call[c] \in CallRecords /\ call'[c] \in CallRecords
               /\ call'[c].phase = call[c].phase /\ call'[c].kind = call[c].kind
               /\ call'[c].landed = call[c].landed /\ call'[c].result = call[c].result
               /\ call'[c].mishap = "none" => call[c].mishap = "none"
               /\ call[c].phase = "act" => awake' \/ call'[c].mishap # "none"
    BY TypeParts DEF Dozes, CallRecords
  <1>2. /\ UNCHANGED <<talking, line, table, count, notified, unheard>>
        /\ awake' \in BOOLEAN /\ call' \in [Calls -> CallRecords]
    BY DEF Dozes
  <1>3. TypeOK'
    BY <1>2, TypeParts DEF CallRecords, TypeOK
  <1>4. LockInv'
    BY <1>1, <1>2 DEF LockInv
  <1>5. NoLeftoverPrompt'
    BY <1>1, <1>2 DEF NoLeftoverPrompt, Prompting
  <1>6. GateInv'
    BY <1>1, <1>2 DEF GateInv, Before
  <1>7. DrivenSuccessIsReal' /\ GatedWriteIsReal'
    BY <1>1, <1>2 DEF DrivenSuccessIsReal, GatedWriteIsReal, Succeeded
  <1>8. CountInv'
    BY <1>1, <1>2, TypeParts DEF CountInv
  <1>9. QED
    BY <1>3, <1>4, <1>5, <1>6, <1>7, <1>8

LEMMA StutterKeeps ==
    ASSUME IInv, UNCHANGED vars
    PROVE  IInv'
  BY DEF IInv, vars, TypeOK, LockInv, NoLeftoverPrompt, Prompting, GateInv,
         DrivenSuccessIsReal, GatedWriteIsReal, Succeeded, CountInv

LEMMA Initially == Init => IInv
  <1> SUFFICES ASSUME Init PROVE IInv
    OBVIOUS
  <1>1. /\ talking = {} /\ line = <<>> /\ awake \in BOOLEAN /\ table \in 0..MaxTable
        /\ count = NotRead /\ notified = FALSE /\ unheard = FALSE
        /\ call = [c \in Calls |-> Idle]
    BY DEF Init
  <1>2. Idle \in CallRecords /\ Idle.phase = "idle" /\ Idle.result = "none" /\ ~Idle.landed
    BY IdleType DEF Idle
  <1>3. /\ call \in [Calls -> CallRecords]
        /\ \A c \in Calls : /\ call[c].phase = "idle" /\ call[c].result = "none"
                            /\ ~call[c].landed
    BY <1>1, <1>2
  <1>4. TypeOK
    <2>1. <<>> \in Seq(Calls) /\ FALSE \in BOOLEAN /\ {} \subseteq Calls
      OBVIOUS
    <2>2. talking \subseteq Calls /\ line \in Seq(Calls)
      BY <1>1, <2>1
    <2>3. notified \in BOOLEAN /\ unheard \in BOOLEAN /\ count \in {NotRead} \union 1..MaxTable
      BY <1>1
    <2>4. QED
      BY <1>1, <1>3, <2>2, <2>3, TypeParts
  <1>5. LockInv /\ NoLeftoverPrompt /\ GateInv
    BY <1>1, <1>3 DEF LockInv, Working, NoLeftoverPrompt, GateInv, Before
  <1>6. DrivenSuccessIsReal /\ GatedWriteIsReal /\ CountInv
    BY <1>1, <1>3 DEF DrivenSuccessIsReal, GatedWriteIsReal, Succeeded, CountInv
  <1>7. QED
    BY <1>4, <1>5, <1>6 DEF IInv

LEMMA Inductive == IInv /\ [Next]_vars => IInv'
  <1> SUFFICES ASSUME IInv, [Next]_vars PROVE IInv'
    OBVIOUS
  <1>1. \/ \E c \in Calls, k \in CallRecords :
              Begins(c, k) \/ GoesOn(c, k) \/ Lands(c, k) \/ Ends(c, k)
        \/ Dozes
        \/ UNCHANGED vars
    BY StepKinds DEF IInv
  <1>2. QED
    BY <1>1, BeginsKeeps, GoesOnKeeps, LandsKeeps, EndsKeeps, DozesKeeps, StutterKeeps

\* The invariant, of every state the calls, the lock and the keypad can reach.
LEMMA Invariant == Spec => []IInv
  BY Initially, Inductive, PTL DEF Spec

--------------------------------------------------------------------------------
(* The theorems.                                                             *)

\* Every variable keeps its type: the table stays within the lock's room, and the keypad
\* is polled for one window at most.
THEOREM TypeCorrect == Spec => []TypeOK
  <1>1. IInv => TypeOK
    BY DEF IInv
  <1>2. QED
    BY <1>1, Invariant, PTL

\* The prompt for a key press is shown only while a call is under way that it is for,
\* whatever failed, was rejected or cancelled on the way.
THEOREM PromptsTakenDown == Spec => []NoLeftoverPrompt
  <1>1. IInv => NoLeftoverPrompt
    BY DEF IInv
  <1>2. QED
    BY <1>1, Invariant, PTL

\* An enrolment or a language change that returns normally was carried out.
THEOREM DrivenIsReal == Spec => []DrivenSuccessIsReal
  <1>1. IInv => DrivenSuccessIsReal
    BY DEF IInv
  <1>2. QED
    BY <1>1, Invariant, PTL

\* A credential write that returns normally was carried out, unless the lock refused it,
\* its session failed, or the keypad fell asleep behind the gate.
THEOREM GatedIsReal == Spec => []GatedWriteIsReal
  <1>1. IInv => GatedWriteIsReal
    BY DEF IInv
  <1>2. QED
    BY <1>1, Invariant, PTL

\* While nobody holds the operation lock, the credentials sensor shows the lock's
\* table, or a change was followed by no answer.
THEOREM CountIsCurrent == Spec => []CountFollowsTable
  <1>1. IInv => CountFollowsTable
    BY DEF IInv, CountInv, CountFollowsTable
  <1>2. QED
    BY <1>1, Invariant, PTL

--------------------------------------------------------------------------------
(* What a step may do.                                                       *)

\* A call goes through its phases once, in a bounded number of its own steps; nobody
\* else's step, and no failure or cancellation, takes it back.
THEOREM BoundedCalls == Spec => CallsAdvance
  <1>1. IInv /\ [Next]_vars
        => [\A c \in Calls :
              call[c].phase # "idle"
              /\ (call'[c].phase # call[c].phase \/ call'[c].polls # call[c].polls)
              => Remaining(call'[c]) < Remaining(call[c])]_vars
    <2> SUFFICES ASSUME IInv, [Next]_vars, NEW d \in Calls, call[d].phase # "idle",
                        call'[d].phase # call[d].phase \/ call'[d].polls # call[d].polls
                 PROVE  Remaining(call'[d]) < Remaining(call[d])
      OBVIOUS
    <2>0. TypeOK /\ call[d] \in CallRecords
      BY TypeParts DEF IInv
    <2>1. ASSUME NEW c \in Calls, NEW k \in CallRecords,
                 Begins(c, k) \/ GoesOn(c, k) \/ Lands(c, k) \/ Ends(c, k)
          PROVE  Remaining(call'[d]) < Remaining(call[d])
      <3>1. Becomes(c, k)
        BY <2>1 DEF Begins, GoesOn, Lands, Ends
      <3>2. c = d /\ call'[d] = k
        BY <2>0, <3>1, BecomesFacts
      <3>3. CASE GoesOn(c, k)
        BY <3>2, <3>3 DEF GoesOn
      <3>4. CASE Lands(c, k)
        BY <2>0, <3>2, <3>4, Ranks DEF Lands
      <3>5. CASE Ends(c, k)
        <4>1. call[d].polls \in Nat /\ Polls \in Nat
          BY <2>0, Ranks
        <4>2. Remaining(call[d]) \in {Polls + 6, Polls + 5, Polls + 4, call[d].polls + 3, 2, 1}
          BY <2>0, Ranks DEF CallRecords, Phases
        <4>3. Remaining(call'[d]) = 0
          BY <3>2, <3>5, Ranks DEF Ends
        <4>4. QED
          BY <4>1, <4>2, <4>3
      <3>6. ~Begins(c, k)
        BY <3>2 DEF Begins
      <3>7. QED
        BY <2>1, <3>3, <3>4, <3>5, <3>6
    <2>2. ~Dozes
      BY <2>0 DEF Dozes, CallRecords
    <2>3. ~UNCHANGED vars
      BY DEF vars
    <2>4. QED
      BY <2>1, <2>2, <2>3, StepKinds DEF IInv
  <1>2. QED
    BY <1>1, Invariant, PTL DEF Spec, CallsAdvance

\* The table changes once for each call at most, and only as that call asked.
THEOREM SingleAttempt == Spec => AttemptedOnce
  <1>1. IInv /\ [Next]_vars
        => [table' # table =>
              \E c \in Calls : /\ call[c].phase = "act" /\ call'[c].phase \in {"reread", "idle"}
                               /\ table' = TableAfter(call[c].kind)]_vars
    <2> SUFFICES ASSUME IInv, [Next]_vars, table' # table
                 PROVE  \E c \in Calls : /\ call[c].phase = "act"
                                         /\ call'[c].phase \in {"reread", "idle"}
                                         /\ table' = TableAfter(call[c].kind)
      OBVIOUS
    <2>1. PICK c \in Calls, k \in CallRecords : Lands(c, k) \/ Ends(c, k)
      BY StepKinds DEF IInv, Begins, GoesOn, Dozes, vars
    <2>2. call'[c] = k
      BY <2>1, BecomesFacts DEF IInv, Lands, Ends
    <2>3. /\ call[c].phase = "act" /\ k.phase \in {"reread", "idle"}
          /\ table' = TableAfter(call[c].kind)
      BY <2>1 DEF Lands, Ends
    <2>4. QED
      BY <2>2, <2>3
  <1>2. QED
    BY <1>1, Invariant, PTL DEF Spec, AttemptedOnce

--------------------------------------------------------------------------------
(* Turns.                                                                    *)

\* The calls take turns as FairAccess allows, so that whatever FairAccessProofs shows of
\* it holds of the calls behind the gate: the sensor's count is what is shown.
THEOREM TakesTurns == Spec => Access!Spec
  <1>1. Init => Access!Init
    BY GateConstants DEF Init, Access!Init
  <1>2. IInv /\ [Next]_vars => [Access!Next]_Access!fvars
    <2> SUFFICES ASSUME IInv, [Next]_vars PROVE [Access!Next]_Access!fvars
      OBVIOUS
    <2>0. TypeOK /\ table \in 0..MaxTable
      BY TypeParts DEF IInv
    <2>1. ASSUME NEW c \in Calls,
                 \/ Access!Join(c) \/ Access!GiveUp(c) \/ Access!Start(c)
                 \/ Access!Refused(c) \/ Access!Hear(c) \/ Access!Finish(c)
          PROVE  Access!Next
      BY <2>1 DEF Access!Next
    <2>2. ASSUME UNCHANGED <<talking, line, count>> PROVE UNCHANGED Access!fvars
      BY <2>2 DEF Access!fvars
    <2>3. ASSUME NEW c \in Calls, NEW kind \in Methods, Request(c, kind)
          PROVE  Access!Next
      BY <2>1, <2>3 DEF Request
    <2>4. ASSUME NEW c \in Calls, Granted(c) \/ TurnedAway(c)
          PROVE  Access!Next
      BY <2>1, <2>4 DEF Granted, TurnedAway
    <2>5. ASSUME NEW c \in Calls, Check(c) \/ Ask(c) \/ Poll(c) \/ Send(c)
          PROVE  UNCHANGED <<talking, line, count>>
      BY <2>5 DEF Check, Ask, Poll, Send, GoOn
    <2>6. ASSUME NEW c \in Calls, WindowElapsed(c) \/ Rejected(c) \/ Reread(c)
          PROVE  Access!Next
      BY <2>1, <2>6 DEF WindowElapsed, Rejected, Reread, Leave
    <2>7. ASSUME NEW c \in Calls, Drive(c)
          PROVE  Access!Next \/ UNCHANGED <<talking, line, count>>
      BY <2>1, <2>7 DEF Drive, GoOn, Leave
    <2>8. ASSUME NEW c \in Calls, Cancel(c)
          PROVE  Access!Next
      BY <2>1, <2>8 DEF Cancel, Leave
    <2>9. KeypadWakes \/ KeypadSleeps \/ UNCHANGED vars => UNCHANGED <<talking, line, count>>
      BY DEF KeypadWakes, KeypadSleeps, vars
    <2>10. QED
      BY <2>2, <2>3, <2>4, <2>5, <2>6, <2>7, <2>8, <2>9 DEF Next, CallStep
  <1>3. QED
    BY <1>1, <1>2, Invariant, PTL DEF Spec, Access!Spec

================================================================================
