---------------------------- MODULE FairAccessProofs ---------------------------
(* What follows from FairAccess, for any set of tasks and of values; and so    *)
(* what every module that implements it may count on.                          *)
EXTENDS FairAccess, QueueLemmas

--------------------------------------------------------------------------------
(* Exclusion.                                                                *)

\* One task at a time talks, each task is in line at most once, and nobody is in line
\* while it talks.
Exclusive ==
    /\ \A s, t \in talking : s = t
    /\ IsInjective(line)
    /\ Range(line) \intersect talking = {}

IInv ==
    /\ talking \subseteq Tasks
    /\ line \in Seq(Tasks)
    /\ Exclusive

LEMMA Served ==
    ASSUME IInv, NEW t \in Tasks, line # <<>>, t = Head(line), line' = Tail(line)
    PROVE  /\ line' \in Seq(Tasks) /\ IsInjective(line')
           /\ Range(line') = Range(line) \ {t} /\ t \in Range(line)
  <1>1. line' \in Seq(Tasks) /\ t = line[1] /\ 1 \in DOMAIN line
    BY TailFacts DEF IInv
  <1>2. IsInjective(line') /\ Range(line') = Range(line) \ {t}
    BY TailKeepsInjective DEF IInv, Exclusive
  <1>3. QED
    BY <1>1, <1>2 DEF Range

LEMMA Inductive == IInv /\ [Next]_fvars => IInv'
  <1> SUFFICES ASSUME IInv, [Next]_fvars PROVE IInv'
    OBVIOUS
  <1>1. ASSUME NEW t \in Tasks, Join(t) PROVE IInv'
    <2>1. line' \in Seq(Tasks) /\ IsInjective(line') /\ Range(line') = Range(line) \union {t}
      BY <1>1, AppendFacts, AppendKeepsInjective DEF Join, IInv, Exclusive
    <2>2. QED
      BY <1>1, <2>1 DEF Join, IInv, Exclusive
  <1>2. ASSUME NEW t \in Tasks, GiveUp(t) PROVE IInv'
    <2>1. PICK i \in DOMAIN line : line' = RemoveAt(line, i)
      BY <1>2 DEF GiveUp
    <2>2. line' \in Seq(Tasks) /\ IsInjective(line') /\ Range(line') = Range(line) \ {line[i]}
      BY <2>1, RemoveAtFacts, RemoveAtKeepsInjective DEF IInv, Exclusive
    <2>3. QED
      BY <1>2, <2>2 DEF GiveUp, IInv, Exclusive
  <1>3. ASSUME NEW t \in Tasks, Start(t) PROVE IInv'
    <2>1. CASE line = <<>>
      <3>1. UNCHANGED line /\ talking' = {t} /\ Range(line) = {}
        BY <1>3, <2>1 DEF Start, Range
      <3>2. QED
        BY <3>1 DEF IInv, Exclusive
    <2>2. CASE line # <<>>
      <3>1. t = Head(line) /\ line' = Tail(line) /\ talking' = {t}
        BY <1>3, <2>2 DEF Start
      <3>2. QED
        BY <3>1, <2>2, Served DEF IInv, Exclusive
    <2>3. QED
      BY <2>1, <2>2
  <1>4. ASSUME NEW t \in Tasks, Refused(t) PROVE IInv'
    BY <1>4, Served DEF Refused, IInv, Exclusive
  <1>5. ASSUME NEW t \in Tasks, Hear(t) PROVE IInv'
    BY <1>5 DEF Hear, IInv, Exclusive
  <1>6. ASSUME NEW t \in Tasks, Finish(t) PROVE IInv'
    BY <1>6 DEF Finish, IInv, Exclusive
  <1>7. CASE UNCHANGED fvars
    BY <1>7 DEF fvars, IInv, Exclusive
  <1>8. QED
    BY <1>1, <1>2, <1>3, <1>4, <1>5, <1>6, <1>7 DEF Next

LEMMA Invariant == Spec => []IInv
  <1>1. Init => IInv
    BY DEF Init, IInv, Exclusive, IsInjective, Range
  <1>2. QED
    BY <1>1, Inductive, PTL DEF Spec

\* The connection is exclusive: what OneTalker and LockMatchesTasks say of the
\* coordinator holds of whatever implements FairAccess.
THEOREM Exclusion == Spec => []Exclusive
  <1>1. IInv => Exclusive
    BY DEF IInv
  <1>2. QED
    BY Invariant, <1>1, PTL

--------------------------------------------------------------------------------
(* Order.                                                                    *)

\* Whoever leaves the line changes the order of no others.
LEMMA ShorterLine ==
    ASSUME IInv, NEW i \in DOMAIN line,
           \/ line' = RemoveAt(line, i)
           \/ line # <<>> /\ i = 1 /\ line' = Tail(line),
           NEW s, NEW t, Ahead(t, s)'
    PROVE  Ahead(t, s)
  <1>1. line \in Seq(Tasks) /\ Len(line) \in Nat /\ DOMAIN line = 1..Len(line)
    BY DEF IInv
  <1>2. /\ DOMAIN line' = 1..(Len(line) - 1)
        /\ \A j \in 1..(Len(line) - 1) : line'[j] = IF j < i THEN line[j] ELSE line[j + 1]
    <2>1. CASE line' = RemoveAt(line, i)
      BY <2>1, <1>1, RemoveAtFacts
    <2>2. CASE line # <<>> /\ i = 1 /\ line' = Tail(line)
      BY <2>2, <1>1, TailFacts
    <2>3. QED
      BY <2>1, <2>2
  <1>3. PICK a, b \in DOMAIN line' : a < b /\ line'[a] = t /\ line'[b] = s
    BY DEF Ahead
  <1> DEFINE Old(j) == IF j < i THEN j ELSE j + 1
  <1>4. Old(a) \in DOMAIN line /\ Old(b) \in DOMAIN line /\ Old(a) < Old(b)
    BY <1>1, <1>2, <1>3
  <1>5. line[Old(a)] = t /\ line[Old(b)] = s
    BY <1>1, <1>2, <1>3
  <1> HIDE DEF Old
  <1>6. QED
    BY <1>4, <1>5 DEF Ahead

LEMMA LongerLine ==
    ASSUME IInv, NEW u \in Tasks, u \notin Range(line), line' = Append(line, u),
           NEW s \in Range(line), NEW t, Ahead(t, s)'
    PROVE  Ahead(t, s)
  <1>1. line \in Seq(Tasks) /\ Len(line) \in Nat /\ DOMAIN line = 1..Len(line)
    BY DEF IInv
  <1>2. /\ DOMAIN line' = 1..(Len(line) + 1)
        /\ \A j \in 1..(Len(line) + 1) : line'[j] = IF j = Len(line) + 1 THEN u ELSE line[j]
    BY <1>1, AppendFacts
  <1>3. PICK a, b \in DOMAIN line' : a < b /\ line'[a] = t /\ line'[b] = s
    BY DEF Ahead
  <1>4. b # Len(line) + 1
    BY <1>2, <1>3
  <1>5. a \in DOMAIN line /\ b \in DOMAIN line /\ line[a] = t /\ line[b] = s
    BY <1>1, <1>2, <1>3, <1>4
  <1>6. QED
    BY <1>3, <1>5 DEF Ahead

\* The head of the line is ahead of everybody else in it.
LEMMA HeadIsAhead ==
    ASSUME IInv, line # <<>>, NEW s \in Range(line), s # Head(line)
    PROVE  Ahead(Head(line), s)
  <1>1. PICK j \in DOMAIN line : line[j] = s
    BY DEF Range
  <1>2. 1 \in DOMAIN line /\ Head(line) = line[1] /\ DOMAIN line = 1..Len(line)
    BY TailFacts DEF IInv
  <1>3. 1 < j
    BY <1>1, <1>2
  <1>4. QED
    BY <1>1, <1>2, <1>3 DEF Ahead

LEMMA KeepsOrder ==
    ASSUME IInv, [Next]_fvars, NEW s \in Range(line), NEW t \in Tasks, s # t,
           ~Ahead(t, s), t \notin talking
    PROVE  t \notin talking' /\ ~Ahead(t, s)'
  <1>0. line # <<>> /\ line \in Seq(Tasks)
    BY DEF IInv, Range
  <1>1. ASSUME NEW u \in Tasks, Join(u) PROVE t \notin talking' /\ ~Ahead(t, s)'
    BY <1>1, LongerLine DEF Join
  <1>2. ASSUME NEW u \in Tasks, GiveUp(u) PROVE t \notin talking' /\ ~Ahead(t, s)'
    BY <1>2, ShorterLine DEF GiveUp
  <1>3. ASSUME NEW u \in Tasks, Start(u) PROVE t \notin talking' /\ ~Ahead(t, s)'
    <2>1. u = Head(line) /\ line' = Tail(line) /\ talking' = {u}
      BY <1>0, <1>3 DEF Start
    <2>2. t # u
      BY <1>0, <2>1, HeadIsAhead
    <2>3. ~Ahead(t, s)'
      BY <1>0, <2>1, TailFacts, ShorterLine
    <2>4. QED
      BY <2>1, <2>2, <2>3
  <1>4. ASSUME NEW u \in Tasks, Refused(u) PROVE t \notin talking' /\ ~Ahead(t, s)'
    BY <1>0, <1>4, TailFacts, ShorterLine DEF Refused
  <1>5. ASSUME NEW u \in Tasks, Hear(u) PROVE t \notin talking' /\ ~Ahead(t, s)'
    BY <1>5 DEF Hear, Ahead
  <1>6. ASSUME NEW u \in Tasks, Finish(u) PROVE t \notin talking' /\ ~Ahead(t, s)'
    BY <1>6 DEF Finish, Ahead
  <1>7. CASE UNCHANGED fvars
    BY <1>7 DEF fvars, Ahead
  <1>8. QED
    BY <1>1, <1>2, <1>3, <1>4, <1>5, <1>6, <1>7 DEF Next

\* Nobody in line is overtaken, neither by one behind it nor by a newcomer.
THEOREM FirstComeFirstServed == Spec => NobodyOvertakes
  <1>1. IInv /\ [Next]_fvars =>
            [\A s, t \in Tasks : s \in Range(line) /\ s # t /\ ~Ahead(t, s) /\ t \notin talking
                                 => t \notin talking' /\ ~Ahead(t, s)']_fvars
    BY KeepsOrder
  <1>2. QED
    BY Invariant, <1>1, PTL DEF Spec, NobodyOvertakes

================================================================================
