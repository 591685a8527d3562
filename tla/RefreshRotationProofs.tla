------------------------- MODULE RefreshRotationProofs -------------------------
(* Theorems about RefreshRotation, for any tasks, values and rotations.        *)
EXTENDS RefreshRotation, TLAPS

--------------------------------------------------------------------------------
(* The inductive invariant.                                                  *)

Tasks == [phase : {"idle", "gap", "read"}, pass : {1, 2}, left : SUBSET Places,
          tries : [Names -> 0..2], late : Nat]

\* The stop is noticed before a gap is begun.
LateInv ==
    \A r \in Refreshers :
        /\ refresh[r].late \in {0, 1}
        /\ refresh[r].late = 1 => stop /\ refresh[r].phase # "gap"

\* Reads so far of a task in its first and in its second pass: what is left now was
\* not asked for in this pass, and whatever else is still unknown was.
FirstPass(k) == \A i \in Places : k.tries[RefreshOrder[i]] = IF i \in k.left THEN 0 ELSE 1

SecondPass(k, names) ==
    \A i \in Places :
        /\ i \in k.left => k.tries[RefreshOrder[i]] = 1
        /\ i \notin k.left /\ RefreshOrder[i] \notin names => k.tries[RefreshOrder[i]] = 2

UnderWay(k, names) ==
    /\ k.left # {}
    /\ k.pass = 1 => FirstPass(k)
    /\ k.pass = 2 => SecondPass(k, names)

PassInv == \A r \in Refreshers : refresh[r].phase # "idle" => UnderWay(refresh[r], known)

IInv == TypeOK /\ LateInv /\ PassInv

--------------------------------------------------------------------------------
(* The order, and one task.                                                  *)

LEMMA OrderFacts ==
    /\ Places # {} /\ \A i \in Places : i \in Nat /\ RefreshOrder[i] \in Names
    /\ \A i, j \in Places : RefreshOrder[i] = RefreshOrder[j] => i = j
    /\ \A n \in Names : \E i \in Places : RefreshOrder[i] = n
  <1>1. /\ RefreshOrder \in Seq(Names) /\ RefreshOrder # <<>>
        /\ IsInjective(RefreshOrder) /\ Range(RefreshOrder) = Names
    BY RotationConstants
  <1>2. Places = 1..Len(RefreshOrder) /\ Len(RefreshOrder) \in Nat \ {0}
    BY <1>1 DEF Places
  <1>3. QED
    BY <1>1, <1>2 DEF Places, IsInjective, Range

LEMMA TypeParts ==
    TypeOK <=> /\ known \subseteq Names
               /\ refresh \in [Refreshers -> Tasks]
               /\ battery \in [phase : {"off", "delay", "read", "wait"},
                               index : 0..(Len(PollOrder) - 1), interval : {"fill", "poll"}]
               /\ stop \in BOOLEAN
               /\ misses \in 0..MaxMisses
  BY DEF TypeOK, Tasks

LEMMA FreshType ==
    /\ Fresh \in Tasks /\ Fresh.phase = "idle"
    /\ Fresh.late \in {0, 1} /\ Fresh.late # 1
  BY DEF Fresh, Tasks

LEMMA FinishedFacts ==
    ASSUME NEW k \in Tasks
    PROVE  /\ Finished(k) \in Tasks /\ Finished(k).phase = "idle"
           /\ Finished(k).late = k.late /\ Finished(k).tries = k.tries
  BY DEF Finished, Tasks

LEMMA BeginReadFacts ==
    ASSUME NEW k \in Tasks, stop \in BOOLEAN
    PROVE  /\ BeginRead(k) \in Tasks /\ BeginRead(k).phase = "read"
           /\ BeginRead(k).left = k.left /\ BeginRead(k).pass = k.pass
           /\ BeginRead(k).tries = k.tries
           /\ BeginRead(k).late = IF stop THEN k.late + 1 ELSE 0
  <1> DEFINE late == IF stop THEN k.late + 1 ELSE 0
  <1>1. late \in Nat
    BY DEF Tasks
  <1> HIDE DEF late
  <1>2. BeginRead(k) = [k EXCEPT !.phase = "read", !.late = late]
    BY DEF BeginRead, late
  <1>3. /\ BeginRead(k) \in Tasks /\ BeginRead(k).phase = "read"
        /\ BeginRead(k).left = k.left /\ BeginRead(k).pass = k.pass
        /\ BeginRead(k).tries = k.tries /\ BeginRead(k).late = late
    BY <1>1, <1>2 DEF Tasks
  <1>4. QED
    BY <1>3 DEF late

\* A value is asked for: it has one more try, the others have as many.
LEMMA AskedFacts ==
    ASSUME NEW k \in Tasks, NEW place \in k.left, NEW names, UnderWay(k, names)
    PROVE  /\ Asked(k, place) \in Tasks
           /\ Asked(k, place).left = k.left \ {place}
           /\ Asked(k, place).late = k.late /\ Asked(k, place).pass = k.pass
           /\ \A i \in Places :
                 Asked(k, place).tries[RefreshOrder[i]] =
                     IF i = place THEN k.tries[RefreshOrder[i]] + 1
                                  ELSE k.tries[RefreshOrder[i]]
  <1> DEFINE n == RefreshOrder[place]
  <1>1. place \in Places /\ n \in Names
    BY OrderFacts DEF Tasks
  <1>2. k.tries[n] \in {0, 1}
    BY <1>1 DEF UnderWay, FirstPass, SecondPass, Tasks
  <1> DEFINE tries == [k.tries EXCEPT ![n] = k.tries[n] + 1]
  <1>3. tries \in [Names -> 0..2]
    BY <1>1, <1>2 DEF Tasks
  <1>4. \A i \in Places : tries[RefreshOrder[i]] = IF i = place THEN k.tries[RefreshOrder[i]] + 1
                                                            ELSE k.tries[RefreshOrder[i]]
    BY <1>1, OrderFacts DEF Tasks
  <1>5. Asked(k, place) = [k EXCEPT !.left = k.left \ {place}, !.tries = tries]
    BY DEF Asked, Tasks
  <1> HIDE DEF tries
  <1>6. k.left \ {place} \in SUBSET Places
    BY DEF Tasks
  <1>7. /\ Asked(k, place).left = k.left \ {place} /\ Asked(k, place).tries = tries
        /\ Asked(k, place).late = k.late /\ Asked(k, place).pass = k.pass
    BY <1>5 DEF Tasks
  <1>8. Asked(k, place) \in Tasks
    BY <1>3, <1>5, <1>6 DEF Tasks
  <1>9. QED
    BY <1>4, <1>7, <1>8

\* What becomes of a task that has asked for a value.
LEMMA ProceedFacts ==
    ASSUME NEW k \in Tasks, NEW place \in k.left, NEW names, NEW more,
           UnderWay(k, names), names \subseteq more, stop \in BOOLEAN
    PROVE  LET p == Proceed(Asked(k, place), more) IN
           /\ p \in Tasks /\ p.late = k.late
           /\ \/ p.phase = "idle"
              \/ p.phase = "gap" /\ ~stop /\ UnderWay(p, more)
           /\ p.phase = "idle" /\ ~stop
              => \A i \in Places : RefreshOrder[i] \notin more => p.tries[RefreshOrder[i]] = 2
  <1> DEFINE a == Asked(k, place)
             p == Proceed(a, more)
  <1>1. /\ a \in Tasks /\ a.left = k.left \ {place} /\ a.late = k.late /\ a.pass = k.pass
        /\ \A i \in Places :
              a.tries[RefreshOrder[i]] = IF i = place THEN k.tries[RefreshOrder[i]] + 1
                                                      ELSE k.tries[RefreshOrder[i]]
    BY AskedFacts
  <1>p. place \in Places /\ a.pass \in {1, 2}
    BY <1>1 DEF Tasks
  <1> HIDE DEF a
  <1>2. a.pass = 1 => FirstPass(a)
    BY <1>1, <1>p DEF UnderWay, FirstPass
  <1>3. a.pass = 2 => SecondPass(a, more)
    BY <1>1, <1>p DEF UnderWay, SecondPass
  <1>4. CASE stop
    BY <1>1, <1>4, FinishedFacts DEF Proceed, a
  <1>5. CASE ~stop /\ a.left # {}
    <2>1. p = [a EXCEPT !.phase = "gap"]
      BY <1>5 DEF Proceed
    <2>2. /\ p \in Tasks /\ p.phase = "gap" /\ p.late = a.late
          /\ p.left = a.left /\ p.pass = a.pass /\ p.tries = a.tries
      BY <1>1, <2>1 DEF Tasks
    <2>3. UnderWay(p, more)
      BY <1>2, <1>3, <1>5, <2>2 DEF UnderWay, FirstPass, SecondPass
    <2>4. QED
      BY <1>1, <1>5, <2>2, <2>3 DEF a
  <1>6. CASE ~stop /\ a.left = {} /\ a.pass = 1 /\ Unread(more) # {}
    <2>1. p = [a EXCEPT !.phase = "gap", !.pass = 2, !.left = Unread(more)]
      BY <1>6 DEF Proceed
    <2>2. Unread(more) \subseteq Places
      BY DEF Unread
    <2>3. /\ p \in Tasks /\ p.phase = "gap" /\ p.late = a.late
          /\ p.left = Unread(more) /\ p.pass = 2 /\ p.tries = a.tries
      BY <1>1, <2>1, <2>2 DEF Tasks
    <2>4. SecondPass(p, more)
      BY <1>2, <1>6, <2>3 DEF FirstPass, SecondPass, Unread
    <2>5. QED
      BY <1>1, <1>6, <2>3, <2>4 DEF a, UnderWay
  <1>7. CASE ~stop /\ a.left = {} /\ (a.pass = 2 \/ Unread(more) = {})
    <2>1. p = Finished(a)
      BY <1>7, <1>p DEF Proceed
    <2>2. p \in Tasks /\ p.phase = "idle" /\ p.late = a.late /\ p.tries = a.tries
      BY <1>1, <2>1, FinishedFacts
    <2>3. \A i \in Places : RefreshOrder[i] \notin more => a.tries[RefreshOrder[i]] = 2
      BY <1>3, <1>7 DEF SecondPass, Unread
    <2>4. QED
      BY <1>1, <2>2, <2>3 DEF a
  <1>8. QED
    BY <1>4, <1>5, <1>6, <1>7, <1>p DEF a

--------------------------------------------------------------------------------
(* Each step preserves the invariant.                                        *)

LEMMA ReadBringsFacts ==
    ASSUME TypeOK, NEW name \in Names, NEW got \in BOOLEAN, ReadBrings(name, got)
    PROVE  known' \subseteq Names /\ known \subseteq known' /\ misses' \in 0..MaxMisses
  BY RotationConstants DEF ReadBrings, TypeOK

\* What has been read stays so, and the tasks' counts stay right.
LEMMA UnderWayStays ==
    ASSUME NEW k, NEW names, NEW more, UnderWay(k, names), names \subseteq more
    PROVE  UnderWay(k, more)
  BY DEF UnderWay, SecondPass

\* One task changes; the others may only see more values known.
LEMMA TaskChanges ==
    ASSUME IInv, NEW r \in Refreshers, NEW p \in Tasks,
           refresh' = [refresh EXCEPT ![r] = p],
           known \subseteq known', known' \subseteq Names, misses' \in 0..MaxMisses,
           UNCHANGED <<battery, stop>>,
           p.late \in {0, 1}, p.late = 1 => stop /\ p.phase # "gap",
           p.phase # "idle" => UnderWay(p, known')
    PROVE  IInv'
  <1> USE DEF IInv
  <1>0. refresh \in [Refreshers -> Tasks]
    BY TypeParts
  <1>1. refresh' \in [Refreshers -> Tasks] /\ refresh'[r] = p
        /\ \A s \in Refreshers \ {r} : refresh'[s] = refresh[s]
    BY <1>0
  <1>2. TypeOK'
    BY <1>1, TypeParts DEF TypeOK, Tasks
  <1>3. LateInv'
    BY <1>1 DEF LateInv
  <1>4. PassInv'
    BY <1>1, UnderWayStays DEF PassInv
  <1>5. QED
    BY <1>2, <1>3, <1>4

LEMMA RefreshStep ==
    ASSUME IInv, NEW r \in Refreshers,
           StartRefresh(r) \/ GapOver(r) \/ RefreshRead(r) \/ CancelRefresh(r)
    PROVE  IInv'
  <1> USE DEF IInv
  <1> DEFINE k == refresh[r]
  <1>0. k \in Tasks /\ stop \in BOOLEAN /\ known \subseteq Names /\ misses \in 0..MaxMisses
    BY TypeParts
  <1>l. k.late \in {0, 1} /\ (k.late = 1 => stop /\ k.phase # "gap")
    BY DEF LateInv
  <1>p. k.phase # "idle" => UnderWay(k, known)
    BY DEF PassInv
  <1> HIDE DEF k
  <1>1. CASE StartRefresh(r) /\ stop
    <2>1. /\ refresh' = [refresh EXCEPT ![r] = Fresh]
          /\ UNCHANGED <<known, battery, stop, misses>>
      BY <1>1 DEF StartRefresh
    <2>2. known \subseteq known' /\ known' \subseteq Names /\ misses' \in 0..MaxMisses
      BY <1>0, <2>1
    <2>3. QED
      BY <2>1, <2>2, FreshType, TaskChanges
  <1>2. CASE StartRefresh(r) /\ ~stop
    <2> DEFINE f == [Fresh EXCEPT !.left = Places]
    <2>1. f \in Tasks /\ f.left = Places /\ f.pass = 1 /\ f.tries = [n \in Names |-> 0]
      BY FreshType DEF Fresh, Tasks
    <2> HIDE DEF f
    <2> DEFINE p == BeginRead(f)
    <2>2. /\ p \in Tasks /\ p.phase = "read" /\ p.left = Places /\ p.pass = 1
          /\ p.tries = [n \in Names |-> 0] /\ p.late \in {0, 1} /\ p.late # 1
      BY <1>0, <1>2, <2>1, BeginReadFacts
    <2> HIDE DEF p
    <2>3. UnderWay(p, known)
      BY <2>2, OrderFacts DEF UnderWay, FirstPass
    <2>4. /\ refresh' = [refresh EXCEPT ![r] = p]
          /\ UNCHANGED <<known, battery, stop, misses>>
      BY <1>2 DEF StartRefresh, p, f
    <2>5. known \subseteq known' /\ known' \subseteq Names /\ misses' \in 0..MaxMisses
      BY <1>0, <2>4
    <2>6. UnderWay(p, known')
      BY <2>3, <2>4
    <2>7. QED
      BY <2>2, <2>4, <2>5, <2>6, TaskChanges
  <1>3. CASE GapOver(r)
    <2> DEFINE p == BeginRead(k)
    <2>1. /\ refresh' = [refresh EXCEPT ![r] = p] /\ k.phase = "gap"
          /\ UNCHANGED <<known, battery, stop, misses>>
      BY <1>3 DEF GapOver, k
    <2>2. /\ p \in Tasks /\ p.phase = "read" /\ p.left = k.left /\ p.pass = k.pass
          /\ p.tries = k.tries /\ p.late = IF stop THEN k.late + 1 ELSE 0
      BY <1>0, BeginReadFacts
    <2> HIDE DEF p
    <2>3. p.late \in {0, 1} /\ (p.late = 1 => stop)
      BY <1>l, <2>1, <2>2
    <2>4. UnderWay(p, known)
      BY <1>p, <2>1, <2>2 DEF UnderWay, FirstPass, SecondPass
    <2>5. QED
      BY <1>0, <2>1, <2>2, <2>3, <2>4, TaskChanges
  <1>4. CASE RefreshRead(r)
    <2>1. PICK place \in k.left, got \in BOOLEAN :
              /\ k.phase = "read"
              /\ ReadBrings(RefreshOrder[place], got)
              /\ refresh' = [refresh EXCEPT ![r] = Proceed(Asked(k, place), known')]
              /\ UNCHANGED <<battery, stop>>
      BY <1>4 DEF RefreshRead, k
    <2> DEFINE p == Proceed(Asked(k, place), known')
    <2>2. place \in Places /\ RefreshOrder[place] \in Names
      BY <1>0, OrderFacts DEF Tasks
    <2>3. known' \subseteq Names /\ known \subseteq known' /\ misses' \in 0..MaxMisses
      BY <2>1, <2>2, ReadBringsFacts
    <2>4. UnderWay(k, known)
      BY <1>p, <2>1
    <2>5. /\ p \in Tasks /\ p.late = k.late
          /\ \/ p.phase = "idle"
             \/ p.phase = "gap" /\ ~stop /\ UnderWay(p, known')
      BY <1>0, <2>3, <2>4, ProceedFacts
    <2>6. refresh' = [refresh EXCEPT ![r] = p]
      BY <2>1
    <2> HIDE DEF p
    <2>7. QED
      BY <1>l, <2>1, <2>3, <2>5, <2>6, TaskChanges
  <1>5. CASE CancelRefresh(r)
    <2>1. /\ refresh' = [refresh EXCEPT ![r] = Finished(k)] /\ stop
          /\ UNCHANGED <<known, battery, stop, misses>>
      BY <1>5 DEF CancelRefresh, k
    <2>2. QED
      BY <1>0, <1>l, <2>1, FinishedFacts, TaskChanges
  <1>6. QED
    BY <1>0, <1>1, <1>2, <1>3, <1>4, <1>5

LEMMA NextIndexType ==
    ASSUME NEW i \in 0..(Len(PollOrder) - 1)
    PROVE  /\ NextIndex(i) \in 0..(Len(PollOrder) - 1)
           /\ PollOrder[i + 1] \in Names
  <1>1. Len(PollOrder) \in Nat \ {0} /\ PollOrder \in Seq(Names)
    BY RotationConstants
  <1>2. QED
    BY <1>1 DEF NextIndex

LEMMA BatteryStep ==
    ASSUME IInv, BatteryWakes \/ BatteryRead \/ StopBattery
    PROVE  IInv'
  <1> USE DEF IInv
  <1>0. /\ refresh \in [Refreshers -> Tasks]
        /\ battery \in [phase : {"off", "delay", "read", "wait"},
                        index : 0..(Len(PollOrder) - 1), interval : {"fill", "poll"}]
    BY TypeParts
  <1>1. UNCHANGED refresh /\ (stop => stop')
    BY DEF BatteryWakes, BatteryRead, StopBattery, TypeOK
  <1>2. LateInv'
    BY <1>1 DEF LateInv
  <1>3. CASE BatteryWakes
    <2>1. TypeOK'
      BY <1>0, <1>1, <1>3 DEF BatteryWakes, TypeOK
    <2>2. QED
      BY <1>1, <1>2, <1>3, <2>1 DEF BatteryWakes, PassInv
  <1>4. CASE BatteryRead
    <2>1. PICK got \in BOOLEAN : ReadBrings(PollOrder[battery.index + 1], got)
      BY <1>4 DEF BatteryRead
    <2>2. known' \subseteq Names /\ known \subseteq known' /\ misses' \in 0..MaxMisses
      BY <1>0, <2>1, NextIndexType, ReadBringsFacts
    <2>3. battery' \in [phase : {"off", "delay", "read", "wait"},
                       index : 0..(Len(PollOrder) - 1), interval : {"fill", "poll"}]
      BY <1>0, <1>4, NextIndexType DEF BatteryRead
    <2>4. TypeOK'
      BY <1>1, <1>4, <2>2, <2>3 DEF BatteryRead, TypeOK
    <2>5. PassInv'
      BY <1>1, <2>2, UnderWayStays DEF PassInv
    <2>6. QED
      BY <1>2, <2>4, <2>5
  <1>5. CASE StopBattery
    <2>1. TypeOK'
      BY <1>0, <1>1, <1>5 DEF StopBattery, TypeOK
    <2>2. QED
      BY <1>1, <1>2, <1>5, <2>1 DEF StopBattery, PassInv
  <1>6. QED
    BY <1>3, <1>4, <1>5

LEMMA Invariance == Spec => []IInv
  <1>1. Init => IInv
    <2> SUFFICES ASSUME Init PROVE IInv
      OBVIOUS
    <2>1. Len(PollOrder) \in Nat \ {0}
      BY RotationConstants
    <2>2. /\ refresh \in [Refreshers -> Tasks] /\ misses \in 0..MaxMisses
          /\ known \subseteq Names /\ stop \in BOOLEAN
      <3>1. MaxMisses \in Nat
        BY RotationConstants
      <3>2. /\ refresh = [r \in Refreshers |-> Fresh] /\ misses = 0
            /\ known = {} /\ stop = FALSE
        BY DEF Init
      <3>3. refresh \in [Refreshers -> Tasks]
        BY <3>2, FreshType
      <3>4. misses \in 0..MaxMisses
        BY <3>1, <3>2
      <3>5. QED
        BY <3>2, <3>3, <3>4
    <2>3. battery \in [phase : {"off", "delay", "read", "wait"},
                      index : 0..(Len(PollOrder) - 1), interval : {"fill", "poll"}]
      BY <2>1 DEF Init
    <2>4. TypeOK
      BY <2>2, <2>3, TypeParts
    <2>5. QED
      BY <2>4, FreshType DEF Init, IInv, LateInv, PassInv
  <1>2. IInv /\ [Next]_vars => IInv'
    <2>1. ASSUME IInv, UNCHANGED vars PROVE IInv'
      BY <2>1 DEF vars, IInv, TypeOK, LateInv, PassInv
    <2>2. QED
      BY <2>1, RefreshStep, BatteryStep DEF Next
  <1>3. QED
    BY <1>1, <1>2, PTL DEF Spec

--------------------------------------------------------------------------------
(* The theorems.                                                             *)

\* Every variable keeps its type: no value is tried more than twice by one refresh,
\* and the rotation never leaves its order.
THEOREM TypeCorrect == Spec => []TypeOK
  <1>1. IInv => TypeOK
    BY DEF IInv
  <1>2. QED
    BY <1>1, Invariance, PTL

\* After the stop a refresh begins one more read at most.
THEOREM Stopping == Spec => []OneReadAfterStop
  <1>1. IInv => OneReadAfterStop
    BY DEF IInv, LateInv, OneReadAfterStop
  <1>2. QED
    BY <1>1, Invariance, PTL

\* A refresh that runs to its end has tried twice whatever it gives up on, however
\* other refreshes and the battery loop interleave with it.
THEOREM Persistence == Spec => GivesUpAfterTwo
  <1> DEFINE GivesUp == \A r \in Refreshers :
                           refresh[r].phase = "read" /\ refresh'[r].phase = "idle" /\ ~stop
                           => \A n \in Names \ known' : refresh'[r].tries[n] = 2
  <1>1. IInv /\ [Next]_vars => [GivesUp]_vars
    <2> SUFFICES ASSUME IInv, [Next]_vars, NEW r \in Refreshers,
                        refresh[r].phase = "read", refresh'[r].phase = "idle", ~stop,
                        NEW n \in Names \ known'
                 PROVE  refresh'[r].tries[n] = 2
      OBVIOUS
    <2> USE DEF IInv
    <2>0. refresh \in [Refreshers -> Tasks] /\ refresh[r] \in Tasks /\ stop \in BOOLEAN
      BY TypeParts
    <2>1. ~UNCHANGED refresh
      OBVIOUS
    <2>2. \A s \in Refreshers : ~StartRefresh(s) \/ s # r
      BY DEF StartRefresh
    <2>3. RefreshRead(r)
      <3>1. PICK s \in Refreshers : StartRefresh(s) \/ GapOver(s) \/ RefreshRead(s)
        BY <2>1 DEF Next, vars, CancelRefresh, BatteryWakes, BatteryRead, StopBattery
      <3>2. s # r => refresh'[r] = refresh[r]
        BY <2>0, <3>1 DEF StartRefresh, GapOver, RefreshRead
      <3>3. QED
        BY <2>2, <3>1, <3>2 DEF GapOver
    <2>4. PICK place \in refresh[r].left, got \in BOOLEAN :
              /\ ReadBrings(RefreshOrder[place], got)
              /\ refresh' = [refresh EXCEPT ![r] = Proceed(Asked(refresh[r], place), known')]
      BY <2>3 DEF RefreshRead
    <2> DEFINE p == Proceed(Asked(refresh[r], place), known')
    <2>5. refresh'[r] = p
      BY <2>0, <2>4
    <2>6. known \subseteq known'
      BY <2>4 DEF ReadBrings
    <2>7. UnderWay(refresh[r], known)
      BY DEF PassInv
    <2>8. p.phase = "idle" /\ ~stop
          => \A i \in Places : RefreshOrder[i] \notin known' => p.tries[RefreshOrder[i]] = 2
      BY <2>0, <2>6, <2>7, ProceedFacts
    <2> HIDE DEF p
    <2>9. PICK i \in Places : RefreshOrder[i] = n
      BY OrderFacts
    <2>10. QED
      BY <2>5, <2>8, <2>9
  <1>2. QED
    BY <1>1, Invariance, PTL DEF Spec, GivesUpAfterTwo

--------------------------------------------------------------------------------
(* The rotation gets on.                                                     *)

\* The rotation moves on to the next place, and from the last one to the first.
LEMMA NextOrFirst ==
    ASSUME NEW n \in Nat \ {0}, NEW i \in 0..(n - 1)
    PROVE  (i + 1) % n = IF i + 1 = n THEN 0 ELSE i + 1
  OBVIOUS

LEMMA NextIndexFacts ==
    ASSUME NEW i \in 0..(Len(PollOrder) - 1)
    PROVE  /\ Len(PollOrder) \in Nat \ {0} /\ DOMAIN PollOrder = 1..Len(PollOrder)
           /\ NextIndex(i) = IF i + 1 = Len(PollOrder) THEN 0 ELSE i + 1
  <1>1. Len(PollOrder) \in Nat \ {0} /\ DOMAIN PollOrder = 1..Len(PollOrder)
    BY RotationConstants
  <1>2. QED
    BY <1>1, NextOrFirst DEF NextIndex

\* One read fewer that may still fail is worth a whole round.
LEMMA Rounds ==
    ASSUME NEW round \in Nat, NEW failures \in Nat
    PROVE  failures * round \in Nat /\ (failures - 1) * round = failures * round - round
  OBVIOUS

\* A read that brings nothing costs a round's worth, and other steps cost nothing.
LEMMA MissesFacts ==
    ASSUME NEW round \in Nat, NEW most \in Nat, NEW m \in 0..most, NEW n \in {m, m + 1}
    PROVE  /\ (most - m) * round \in Nat
           /\ (most - n) * round = (most - m) * round - IF n = m THEN 0 ELSE round
  <1> DEFINE f == most - m
  <1>1. f \in Nat
    OBVIOUS
  <1>2. most - n = IF n = m THEN f ELSE f - 1
    OBVIOUS
  <1> HIDE DEF f
  <1>3. f * round \in Nat /\ (f - 1) * round = f * round - round
    BY <1>1, Rounds
  <1>4. (most - n) * round = f * round - IF n = m THEN 0 ELSE round
    <2>1. CASE n = m
      BY <1>2, <1>3, <2>1
    <2>2. CASE n # m
      BY <1>2, <1>3, <2>2
    <2>3. QED
      BY <2>1, <2>2
  <1>5. QED
    BY <1>3, <1>4 DEF f

\* The battery loop moves one place on in the steps that read, and in those only.
LEMMA IndexMoves ==
    ASSUME IInv, [Next]_vars
    PROVE  /\ misses' \in {misses, misses + 1} /\ misses' \in 0..MaxMisses
           /\ \/ ~BatteryReads /\ battery'.index = battery.index
              \/ /\ battery'.index = NextIndex(battery.index)
                 /\ \/ PollOrder[battery.index + 1] \in known' \union Unreadable
                    \/ misses' = misses + 1
  <1>0. TypeOK /\ refresh \in [Refreshers -> Tasks] /\ misses \in 0..MaxMisses
        /\ MaxMisses \in Nat
        /\ battery \in [phase : {"off", "delay", "read", "wait"},
                        index : 0..(Len(PollOrder) - 1), interval : {"fill", "poll"}]
    BY TypeParts, RotationConstants DEF IInv
  <1>m. ASSUME NEW name, NEW got \in BOOLEAN, ReadBrings(name, got)
        PROVE  /\ misses' \in {misses, misses + 1} /\ misses' \in 0..MaxMisses
               /\ name \in known' \union Unreadable \/ misses' = misses + 1
    BY <1>0, <1>m DEF ReadBrings
  <1>1. ASSUME NEW r \in Refreshers, RefreshRead(r)
        PROVE  misses' \in {misses, misses + 1} /\ misses' \in 0..MaxMisses
               /\ UNCHANGED battery
    <2>1. PICK place \in refresh[r].left, got \in BOOLEAN : ReadBrings(RefreshOrder[place], got)
      BY <1>1 DEF RefreshRead
    <2>2. QED
      BY <1>1, <1>m, <2>1 DEF RefreshRead
  <1>2. ASSUME NEW r \in Refreshers, StartRefresh(r) \/ GapOver(r) \/ CancelRefresh(r)
        PROVE  UNCHANGED <<battery, misses>>
    BY <1>2 DEF StartRefresh, GapOver, CancelRefresh
  <1>3. ASSUME BatteryRead
        PROVE  /\ misses' \in {misses, misses + 1} /\ misses' \in 0..MaxMisses
               /\ battery'.index = NextIndex(battery.index)
               /\ \/ PollOrder[battery.index + 1] \in known' \union Unreadable
                  \/ misses' = misses + 1
    BY <1>3, <1>m DEF BatteryRead
  <1>4. ASSUME BatteryWakes \/ StopBattery
        PROVE  UNCHANGED misses /\ battery'.index = battery.index /\ ~BatteryReads
    BY <1>0, <1>4 DEF BatteryWakes, StopBattery, BatteryReads
  <1>5. UNCHANGED battery => ~BatteryReads /\ battery'.index = battery.index
    BY DEF BatteryReads
  <1>6. QED
    BY <1>0, <1>1, <1>2, <1>3, <1>4, <1>5 DEF Next, vars

\* Every read of the battery loop brings each value that is still missing closer to
\* being read, however refreshes and failures interleave with it.
THEOREM Rotation == Spec => RotationGetsOn
  <1> DEFINE GetsOn == \A place \in DOMAIN PollOrder :
                          PollOrder[place] \notin known' \union Unreadable
                          => /\ ReadsLeft(place)' <= ReadsLeft(place)
                             /\ BatteryReads => ReadsLeft(place)' < ReadsLeft(place)
  <1>1. IInv /\ [Next]_vars => [GetsOn]_vars
    <2> SUFFICES ASSUME IInv, [Next]_vars, NEW place \in DOMAIN PollOrder,
                        PollOrder[place] \notin known' \union Unreadable
                 PROVE  /\ ReadsLeft(place)' <= ReadsLeft(place)
                        /\ BatteryReads => ReadsLeft(place)' < ReadsLeft(place)
      OBVIOUS
    <2> DEFINE round == Len(PollOrder)
               index == battery.index
               failing == (MaxMisses - misses) * round
    <2>1. index \in 0..(round - 1)
      BY TypeParts DEF IInv
    <2>2. /\ round \in Nat \ {0} /\ place \in 1..round
          /\ NextIndex(index) = IF index + 1 = round THEN 0 ELSE index + 1
      BY <2>1, NextIndexFacts
    <2>3. failing \in Nat /\ failing' = failing - IF misses' = misses THEN 0 ELSE round
      <3>1. /\ MaxMisses \in Nat /\ misses \in 0..MaxMisses
            /\ misses' \in {misses, misses + 1}
        BY TypeParts, IndexMoves, RotationConstants DEF IInv
      <3>2. failing' = (MaxMisses - misses') * round
        OBVIOUS
      <3>3. round \in Nat
        BY <2>2
      <3> HIDE DEF round
      <3>4. QED
        BY <3>1, <3>2, <3>3, MissesFacts
    <2>4. /\ ReadsLeft(place) = failing + (place - 1 - index
                                           + IF place > index THEN 0 ELSE round)
          /\ ReadsLeft(place)' = failing' + (place - 1 - index'
                                             + IF place > index' THEN 0 ELSE round)
      BY DEF ReadsLeft, Distance
    <2>5. misses \in Nat /\ misses' \in {misses, misses + 1}
      BY TypeParts, IndexMoves, RotationConstants DEF IInv
    <2>6. \/ ~BatteryReads /\ index' = index
          \/ index' = NextIndex(index) /\ (place = index + 1 => misses' = misses + 1)
      BY IndexMoves
    <2> HIDE DEF round, index, failing
    <2>7. CASE ~BatteryReads /\ index' = index
      BY <2>1, <2>2, <2>3, <2>4, <2>7
    <2>8. CASE index' = NextIndex(index) /\ (place = index + 1 => misses' = misses + 1)
      <3>1. misses' # misses => failing' = failing - round
        BY <2>3
      <3>2. misses' = misses => failing' = failing /\ place # index + 1
        BY <2>3, <2>5, <2>8
      <3>3. failing' \in {failing, failing - round}
            /\ (place = index + 1 => failing' = failing - round)
        BY <3>1, <3>2
      <3>4. ReadsLeft(place)' < ReadsLeft(place)
        BY <2>1, <2>2, <2>3, <2>4, <2>8, <3>3
      <3>5. QED
        BY <2>1, <2>2, <2>3, <2>4, <2>8, <3>3, <3>4
    <2>9. QED
      BY <2>6, <2>7, <2>8
  <1>2. QED
    BY <1>1, Invariance, PTL DEF Spec, RotationGetsOn

================================================================================
