------------------------------ MODULE QueueLemmas ------------------------------
(* What the queue of an operation lock keeps when a task joins it, is served   *)
(* or gives up.  Sequences in general; no definition of the models is used.    *)
EXTENDS Integers, SequencesExt, TLAPS

LEMMA RemoveAtFacts ==
    ASSUME NEW S, NEW s \in Seq(S), NEW i \in DOMAIN s
    PROVE  /\ RemoveAt(s, i) \in Seq(S)
           /\ DOMAIN RemoveAt(s, i) = 1..(Len(s) - 1)
           /\ \A j \in 1..(Len(s) - 1) :
                  RemoveAt(s, i)[j] = IF j < i THEN s[j] ELSE s[j + 1]
  <1> DEFINE a == SubSeq(s, 1, i - 1)
             b == SubSeq(s, i + 1, Len(s))
  <1>1. i \in 1..Len(s) /\ Len(s) \in Nat
    OBVIOUS
  <1>2. a \in Seq(S) /\ Len(a) = i - 1 /\ \A j \in 1..(i - 1) : a[j] = s[j]
    BY <1>1
  <1>3. b \in Seq(S) /\ Len(b) = Len(s) - i /\ \A j \in 1..(Len(s) - i) : b[j] = s[i + j]
    BY <1>1
  <1> HIDE DEF a, b
  <1>4. a \o b \in Seq(S) /\ Len(a \o b) = Len(s) - 1
    BY <1>1, <1>2, <1>3
  <1>5. \A j \in 1..(Len(s) - 1) : (a \o b)[j] = IF j < i THEN s[j] ELSE s[j + 1]
    BY <1>1, <1>2, <1>3
  <1>6. RemoveAt(s, i) = a \o b
    BY DEF RemoveAt, a, b
  <1>7. QED
    BY <1>4, <1>5, <1>6

LEMMA TailFacts ==
    ASSUME NEW S, NEW s \in Seq(S), s # <<>>
    PROVE  /\ Head(s) \in S /\ Head(s) = s[1] /\ 1 \in DOMAIN s
           /\ Tail(s) \in Seq(S)
           /\ DOMAIN Tail(s) = 1..(Len(s) - 1)
           /\ \A j \in 1..(Len(s) - 1) : Tail(s)[j] = s[j + 1]
  OBVIOUS

LEMMA AppendFacts ==
    ASSUME NEW S, NEW s \in Seq(S), NEW x \in S
    PROVE  /\ Append(s, x) \in Seq(S)
           /\ DOMAIN Append(s, x) = 1..(Len(s) + 1)
           /\ \A j \in 1..(Len(s) + 1) :
                  Append(s, x)[j] = IF j = Len(s) + 1 THEN x ELSE s[j]
  OBVIOUS

LEMMA RemoveAtKeepsInjective ==
    ASSUME NEW S, NEW s \in Seq(S), IsInjective(s), NEW i \in DOMAIN s
    PROVE  /\ IsInjective(RemoveAt(s, i))
           /\ Range(RemoveAt(s, i)) = Range(s) \ {s[i]}
  <1>1. /\ DOMAIN s = 1..Len(s) /\ Len(s) \in Nat /\ i \in 1..Len(s)
        /\ \A a, b \in 1..Len(s) : s[a] = s[b] => a = b
    BY DEF IsInjective
  <1> DEFINE r == RemoveAt(s, i)
  <1>2. /\ DOMAIN r = 1..(Len(s) - 1)
        /\ \A j \in 1..(Len(s) - 1) : r[j] = IF j < i THEN s[j] ELSE s[j + 1]
    BY RemoveAtFacts
  <1> HIDE DEF r
  <1>3. IsInjective(r)
    BY <1>1, <1>2 DEF IsInjective
  <1>4. \A j \in DOMAIN r : r[j] \in Range(s) /\ r[j] # s[i]
    BY <1>1, <1>2 DEF Range
  <1>5. ASSUME NEW k \in DOMAIN s, k # i PROVE s[k] \in Range(r)
    <2>1. CASE k < i
      BY <2>1, <1>1, <1>2, k \in DOMAIN r, r[k] = s[k] DEF Range
    <2>2. CASE k > i
      BY <2>2, <1>1, <1>2, k - 1 \in DOMAIN r, r[k - 1] = s[k] DEF Range
    <2>3. QED
      BY <1>1, <1>5, <2>1, <2>2
  <1>6. QED
    BY <1>3, <1>4, <1>5 DEF Range, r

LEMMA TailKeepsInjective ==
    ASSUME NEW S, NEW s \in Seq(S), s # <<>>, IsInjective(s)
    PROVE  IsInjective(Tail(s)) /\ Range(Tail(s)) = Range(s) \ {Head(s)}
  <1>1. /\ DOMAIN s = 1..Len(s) /\ Len(s) \in Nat \ {0}
        /\ \A a, b \in 1..Len(s) : s[a] = s[b] => a = b
    BY DEF IsInjective
  <1> DEFINE r == Tail(s)
  <1>2. /\ DOMAIN r = 1..(Len(s) - 1) /\ Head(s) = s[1]
        /\ \A j \in 1..(Len(s) - 1) : r[j] = s[j + 1]
    BY TailFacts
  <1> HIDE DEF r
  <1>3. IsInjective(r)
    BY <1>1, <1>2 DEF IsInjective
  <1>4. \A j \in DOMAIN r : r[j] \in Range(s) /\ r[j] # Head(s)
    BY <1>1, <1>2 DEF Range
  <1>5. ASSUME NEW k \in DOMAIN s, k # 1 PROVE s[k] \in Range(r)
    BY <1>1, <1>2, <1>5, k - 1 \in DOMAIN r, r[k - 1] = s[k] DEF Range
  <1>6. QED
    BY <1>1, <1>2, <1>3, <1>4, <1>5 DEF Range, r

LEMMA AppendKeepsInjective ==
    ASSUME NEW S, NEW s \in Seq(S), NEW x \in S, IsInjective(s), x \notin Range(s)
    PROVE  IsInjective(Append(s, x)) /\ Range(Append(s, x)) = Range(s) \union {x}
  <1>1. /\ DOMAIN s = 1..Len(s) /\ Len(s) \in Nat
        /\ \A a, b \in 1..Len(s) : s[a] = s[b] => a = b
    BY DEF IsInjective
  <1>0. \A a \in 1..Len(s) : s[a] \in Range(s) /\ s[a] # x
    BY <1>1 DEF Range
  <1> DEFINE r == Append(s, x)
  <1>2. /\ DOMAIN r = 1..(Len(s) + 1)
        /\ \A j \in 1..(Len(s) + 1) : r[j] = IF j = Len(s) + 1 THEN x ELSE s[j]
    BY AppendFacts
  <1> HIDE DEF r
  <1>3. IsInjective(r)
    BY <1>0, <1>1, <1>2 DEF IsInjective
  <1>4. \A j \in DOMAIN r : r[j] \in Range(s) \union {x}
    BY <1>0, <1>1, <1>2
  <1>5. \A k \in DOMAIN s : s[k] \in Range(r)
    BY <1>1, <1>2 DEF Range
  <1>6. x \in Range(r)
    BY <1>1, <1>2, Len(s) + 1 \in DOMAIN r, r[Len(s) + 1] = x DEF Range
  <1>7. Range(r) = Range(s) \union {x}
    <2>1. Range(r) \subseteq Range(s) \union {x}
      BY <1>4 DEF Range
    <2>2. Range(s) \subseteq Range(r)
      BY <1>5 DEF Range
    <2>3. QED
      BY <2>1, <2>2, <1>6
  <1>8. IsInjective(Append(s, x))
    BY <1>3 DEF r
  <1>9. Range(Append(s, x)) = Range(s) \union {x}
    BY <1>7 DEF r
  <1>10. QED
    BY <1>8, <1>9

================================================================================
