----------------------------- MODULE TimersProofs -----------------------------
(***************************************************************************)
(* Proofs about Timers for every set of timers and delays, every width of  *)
(* the clock and every depth of calls: the list of timers, which the code  *)
(* links through the timers themselves, never has a timer twice (it would  *)
(* be a cycle), nor one whose callback is being called; and a timer is     *)
(* called in time: at most MaxLag after it expires while the list is in    *)
(* order, by a delay or by the calls around it once it is not.             *)
(***************************************************************************)
EXTENDS Timers, TLAPS, SequenceTheorems, FiniteSetTheorems

\* Whose callbacks are being called.
Called(s) == {s[i].timer : i \in DOMAIN s}

Apart(s) ==
  \A i, j \in DOMAIN s :
    s[i].timer = s[j].timer /\ s[i].timer \notin SelfSetters => i = j

\* Calls are of different timers, none of which is in the list: all but those of
\* the timers that may be set while they are called.
CallsApart == Apart(stack) /\ (Called(stack) \ SelfSetters) \cap ToSet(timers) = {}

\* The list is one: no timer is in it twice.
ListProper == TypeOK /\ (ring => SelfSetters # {})

\* Only the last callback has not acted yet, and until then none that is called
\* is in the list.
CallAt(s, i) == (i > 1 => s[i].acted) /\ (s[i].caller = "DoTimer" => i = Len(s))
StackOK(s) ==
  /\ s \in Seq(Frames) /\ Len(s) <= MaxNested /\ Apart(s)
  /\ \A i \in DOMAIN s : CallAt(s, i)
ListOK(list) == list \in Seq(OsTimers) /\ IsInjective(list)
Sound(s, list) ==
  /\ StackOK(s) /\ ListOK(list)
  /\ (Called(s) \ SelfSetters) \cap ToSet(list) = {}
  /\ s = <<>> \/ Head(s).acted \/ Called(s) \cap ToSet(list) = {}

Inv == ListProper /\ Sound(stack, timers)

LEMMA TimeType ==
  ASSUME NEW t \in Int
  PROVE  t % W \in Times
BY WidthAssumption DEF Times

\* A stretch of a sequence.
LEMMA Stretch ==
  ASSUME NEW S, NEW s \in Seq(S), NEW m \in 1 .. Len(s) + 1, NEW n \in 0 .. Len(s),
         m <= n + 1
  PROVE  /\ SubSeq(s, m, n) \in Seq(S)
         /\ Len(SubSeq(s, m, n)) = n + 1 - m
         /\ \A k \in 1 .. n + 1 - m : SubSeq(s, m, n)[k] = s[m + k - 1]
<1>1. \A i \in m .. n : s[i] \in S
  BY ElementOfSeq
<1> QED
  BY <1>1, SubSeqProperties

\* The list without x, place by place; ...
LEMMA UnlinkIs ==
  ASSUME timers \in Seq(OsTimers), NEW x \in ToSet(timers)
  PROVE  \E i \in 1 .. Len(timers) :
           /\ timers[i] = x
           /\ Unlink(x) \in Seq(OsTimers) /\ Len(Unlink(x)) = Len(timers) - 1
           /\ \A k \in 1 .. Len(timers) - 1 :
                Unlink(x)[k] = IF k < i THEN timers[k] ELSE timers[k + 1]
<1> DEFINE i == CHOOSE i \in DOMAIN timers : timers[i] = x
<1> DEFINE list == RemoveAt(timers, i)
<1>1. i \in 1 .. Len(timers) /\ timers[i] = x
  BY DEF ToSet
<1> HIDE DEF i
<1>2. /\ list \in Seq(OsTimers) /\ Len(list) = Len(timers) - 1
      /\ \A k \in 1 .. Len(timers) - 1 :
           list[k] = IF k < i THEN timers[k] ELSE timers[k + 1]
  <2> DEFINE front == SubSeq(timers, 1, i - 1)
  <2> DEFINE rest == SubSeq(timers, i + 1, Len(timers))
  <2>1. /\ front \in Seq(OsTimers) /\ Len(front) = i - 1
        /\ \A k \in 1 .. i - 1 : front[k] = timers[k]
    BY <1>1, Stretch
  <2>2. /\ rest \in Seq(OsTimers) /\ Len(rest) = Len(timers) - i
        /\ \A k \in 1 .. Len(timers) - i : rest[k] = timers[i + k]
    BY <1>1, Stretch
  <2> HIDE DEF front, rest
  <2>3. list = front \o rest
    BY DEF RemoveAt, front, rest
  <2> HIDE DEF list
  <2> DEFINE m == i - 1
  <2> DEFINE l == Len(timers) - i
  <2>4. /\ m \in Nat /\ l \in Nat /\ m + l = Len(timers) - 1 /\ m + 1 = i
        /\ Len(front) = m /\ Len(rest) = l
    BY <1>1, <2>1, <2>2
  <2> HIDE DEF m, l
  <2>5. /\ list \in Seq(OsTimers) /\ Len(list) = m + l
        /\ \A k \in 1 .. m + l : list[k] = IF k <= m THEN front[k] ELSE rest[k - m]
    <3>1. /\ front \in Seq(OsTimers) /\ rest \in Seq(OsTimers) /\ list = front \o rest
          /\ m \in Nat /\ l \in Nat /\ Len(front) = m /\ Len(rest) = l
      BY <2>1, <2>2, <2>3, <2>4
    <3>2. /\ front \o rest \in Seq(OsTimers) /\ Len(front \o rest) = Len(front) + Len(rest)
          /\ \A k \in 1 .. Len(front) + Len(rest) :
               (front \o rest)[k] = IF k <= Len(front) THEN front[k] ELSE rest[k - Len(front)]
      BY <3>1, ConcatProperties
    <3>3. /\ list \in Seq(OsTimers) /\ Len(list) = Len(front) + Len(rest)
          /\ \A k \in 1 .. Len(front) + Len(rest) :
               list[k] = IF k <= Len(front) THEN front[k] ELSE rest[k - Len(front)]
      BY <3>1, <3>2, Zenon
    <3>4. m \in Nat /\ l \in Nat /\ Len(front) = m /\ Len(rest) = l
      BY <3>1
    <3> QED
      BY <3>3, <3>4
  <2>6. \A k \in i .. Len(timers) - 1 :
          /\ k \in 1 .. m + l /\ ~(k <= m)
          /\ k - m \in 1 .. Len(timers) - i /\ i + (k - m) = k + 1
    BY <1>1, <2>4
  <2>7. \A k \in i .. Len(timers) - 1 : list[k] = timers[k + 1]
    <3>1. \A k \in i .. Len(timers) - 1 : list[k] = rest[k - m]
      BY <2>5, <2>6
    <3> QED
      BY <2>2, <2>6, <3>1
  <2> QED
    BY <1>1, <2>1, <2>4, <2>5, <2>7
<1> HIDE DEF list
<1>3. Unlink(x) = list
  BY DEF Unlink, list, i
<1> QED
  BY <1>1, <1>2, <1>3

\* ... as a list.
LEMMA UnlinkType ==
  ASSUME timers \in Seq(OsTimers), IsInjective(timers), NEW x
  PROVE  /\ Unlink(x) \in Seq(OsTimers) /\ IsInjective(Unlink(x))
         /\ ToSet(Unlink(x)) = ToSet(timers) \ {x}
<1>1. CASE x \notin ToSet(timers)
  BY <1>1 DEF Unlink
<1>2. CASE x \in ToSet(timers)
  <2> DEFINE list == Unlink(x)
  <2>0. PICK i \in 1 .. Len(timers) :
          /\ timers[i] = x
          /\ list \in Seq(OsTimers) /\ Len(list) = Len(timers) - 1
          /\ \A k \in 1 .. Len(timers) - 1 :
               list[k] = IF k < i THEN timers[k] ELSE timers[k + 1]
    BY <1>2, UnlinkIs
  <2> HIDE DEF list
  <2>1. i \in 1 .. Len(timers) /\ timers[i] = x
    BY <2>0
  <2>2. /\ list \in Seq(OsTimers) /\ Len(list) = Len(timers) - 1
        /\ \A k \in 1 .. Len(timers) - 1 :
             list[k] = IF k < i THEN timers[k] ELSE timers[k + 1]
    BY <2>0
  <2>3. IsInjective(list)
    <3>1. \A j, k \in 1 .. Len(timers) : timers[j] = timers[k] => j = k
      BY <2>1 DEF IsInjective
    <3>2. \A j, k \in 1 .. Len(list) : list[j] = list[k] => j = k
      BY <2>1, <2>2, <3>1
    <3>3. DOMAIN list = 1 .. Len(list)
      BY <2>2
    <3> QED BY <3>2, <3>3 DEF IsInjective
  <2>4. \A k \in 1 .. Len(timers) : timers[k] = x => k = i
    BY <2>1 DEF IsInjective
  <2>5. ToSet(list) \subseteq ToSet(timers) \ {x}
    <3>1. ToSet(list) = {list[k] : k \in 1 .. Len(list)}
      BY <2>2 DEF ToSet
    <3>2. \A k \in 1 .. Len(timers) : timers[k] \in ToSet(timers)
      BY DEF ToSet
    <3>3. ASSUME NEW k \in 1 .. Len(list)
          PROVE  list[k] \in ToSet(timers) \ {x}
      <4>1. CASE k < i
        BY <2>1, <2>2, <2>4, <3>2, <4>1
      <4>2. CASE k >= i
        <5>1. k + 1 \in 1 .. Len(timers) /\ k + 1 # i /\ list[k] = timers[k + 1]
          BY <2>1, <2>2, <4>2
        <5> QED BY <2>4, <3>2, <5>1
      <4> QED BY <2>1, <4>1, <4>2
    <3> QED BY <3>1, <3>3
  <2>6. ASSUME NEW k \in 1 .. Len(timers), k # i
        PROVE  timers[k] \in ToSet(list)
    <3>1. CASE k < i
      BY <2>1, <2>2, <3>1 DEF ToSet
    <3>2. CASE k > i
      <4>1. k - 1 \in 1 .. Len(list) /\ list[k - 1] = timers[k]
        BY <2>1, <2>2, <3>2
      <4> QED
        BY <2>2, <4>1 DEF ToSet
    <3> QED
      BY <2>1, <2>6, <3>1, <3>2
  <2>7. ToSet(timers) \ {x} \subseteq ToSet(list)
    BY <2>1, <2>6 DEF ToSet
  <2> QED
    BY <2>2, <2>3, <2>5, <2>7 DEF list
<1> QED
  BY <1>1, <1>2

\* The list with x, wherever it is put, place by place; ...
Inserted(new, list, n, x) ==
  /\ new \in Seq(OsTimers) /\ Len(new) = Len(list) + 1
  /\ \A k \in 1 .. Len(list) + 1 :
       new[k] = IF k <= n THEN list[k] ELSE IF k = n + 1 THEN x ELSE list[k - 1]

LEMMA InsertedIs ==
  ASSUME NEW list \in Seq(OsTimers), NEW n \in 0 .. Len(list),
         NEW x \in OsTimers \ ToSet(list), NEW new, new = InsertAt(list, n + 1, x)
  PROVE  Inserted(new, list, n, x)
<1> DEFINE front == SubSeq(list, 1, n)
<1> DEFINE rest == SubSeq(list, n + 1, Len(list))
<1>1. /\ front \in Seq(OsTimers) /\ Len(front) = n
      /\ \A k \in 1 .. n : front[k] = list[k]
  BY Stretch
<1>2. /\ rest \in Seq(OsTimers) /\ Len(rest) = Len(list) - n
      /\ \A k \in 1 .. Len(list) - n : rest[k] = list[n + k]
  BY Stretch
<1> HIDE DEF front, rest
<1>3. new = (front \o <<x>>) \o rest
  <2>1. (n + 1) - 1 = n
    OBVIOUS
  <2>2. SubSeq(list, 1, (n + 1) - 1) = front
    BY <2>1, Zenon DEF front
  <2>3. new = (SubSeq(list, 1, (n + 1) - 1) \o <<x>>) \o rest
    BY Zenon DEF InsertAt, rest
  <2> QED
    BY <2>2, <2>3, Zenon
<1>4. /\ <<x>> \in Seq(OsTimers) /\ Len(<<x>>) = 1 /\ <<x>>[1] = x
  OBVIOUS
<1> DEFINE one == <<x>>
<1> DEFINE head == front \o one
<1> HIDE DEF one
<1>5. /\ head \in Seq(OsTimers) /\ Len(head) = n + 1
      /\ \A k \in 1 .. n : head[k] = list[k]
      /\ head[n + 1] = x
  <2>1. one \in Seq(OsTimers) /\ Len(one) = 1 /\ one[1] = x
    BY <1>4 DEF one
  <2>2. /\ head \in Seq(OsTimers) /\ Len(head) = n + 1
        /\ \A k \in 1 .. n + 1 : head[k] = IF k <= n THEN front[k] ELSE one[k - n]
    <3>1. /\ front \in Seq(OsTimers) /\ one \in Seq(OsTimers) /\ head = front \o one
          /\ n \in Nat /\ 1 \in Nat /\ Len(front) = n /\ Len(one) = 1
      BY <1>1, <2>1
    <3> HIDE DEF head
    <3>2. /\ front \o one \in Seq(OsTimers) /\ Len(front \o one) = Len(front) + Len(one)
          /\ \A k \in 1 .. Len(front) + Len(one) :
               (front \o one)[k] = IF k <= Len(front) THEN front[k] ELSE one[k - Len(front)]
      BY <3>1, ConcatProperties
    <3>3. /\ head \in Seq(OsTimers) /\ Len(head) = Len(front) + Len(one)
          /\ \A k \in 1 .. Len(front) + Len(one) :
               head[k] = IF k <= Len(front) THEN front[k] ELSE one[k - Len(front)]
      BY <3>1, <3>2, Zenon
    <3>4. n \in Nat /\ 1 \in Nat /\ Len(front) = n /\ Len(one) = 1
      BY <3>1
    <3> QED
      BY <3>3, <3>4
  <2>3. head[n + 1] = one[1]
    <3>1. n + 1 \in 1 .. n + 1 /\ (n + 1) - n = 1 /\ ~(n + 1 <= n)
      OBVIOUS
    <3> QED
      BY <2>2, <3>1
  <2> QED
    BY <1>1, <2>1, <2>2, <2>3
<1>6. new = head \o rest
  BY <1>3 DEF one
<1> HIDE DEF head
<1>7. /\ new \in Seq(OsTimers) /\ Len(new) = Len(list) + 1
      /\ \A k \in 1 .. n + 1 : new[k] = head[k]
      /\ \A k \in n + 2 .. Len(list) + 1 : new[k] = rest[k - (n + 1)]
  <2> DEFINE m == n + 1
  <2> DEFINE l == Len(list) - n
  <2>1. /\ m \in Nat /\ l \in Nat /\ m + l = Len(list) + 1 /\ m + 1 = n + 2
        /\ Len(head) = m /\ Len(rest) = l
    BY <1>2, <1>5
  <2>2. m = n + 1
    OBVIOUS
  <2> HIDE DEF m, l
  <2>3. /\ new \in Seq(OsTimers) /\ Len(new) = m + l
        /\ \A k \in 1 .. m + l : new[k] = IF k <= m THEN head[k] ELSE rest[k - m]
    <3>1. /\ head \in Seq(OsTimers) /\ rest \in Seq(OsTimers) /\ new = head \o rest
          /\ m \in Nat /\ l \in Nat /\ Len(head) = m /\ Len(rest) = l
      BY <1>2, <1>5, <1>6, <2>1
    <3>2. /\ head \o rest \in Seq(OsTimers) /\ Len(head \o rest) = Len(head) + Len(rest)
          /\ \A k \in 1 .. Len(head) + Len(rest) :
               (head \o rest)[k] = IF k <= Len(head) THEN head[k] ELSE rest[k - Len(head)]
      BY <3>1, ConcatProperties
    <3>3. /\ new \in Seq(OsTimers) /\ Len(new) = Len(head) + Len(rest)
          /\ \A k \in 1 .. Len(head) + Len(rest) :
               new[k] = IF k <= Len(head) THEN head[k] ELSE rest[k - Len(head)]
      BY <3>1, <3>2, Zenon
    <3>4. m \in Nat /\ l \in Nat /\ Len(head) = m /\ Len(rest) = l
      BY <3>1
    <3> QED
      BY <3>3, <3>4
  <2> QED
    BY <2>1, <2>2, <2>3
<1>8. \A k \in n + 2 .. Len(list) + 1 : new[k] = list[k - 1]
  <2>1. \A k \in n + 2 .. Len(list) + 1 :
          k - (n + 1) \in 1 .. Len(list) - n /\ n + (k - (n + 1)) = k - 1
    OBVIOUS
  <2> QED
    BY <1>2, <1>7, <2>1
<1> QED
  BY <1>5, <1>7, <1>8 DEF Inserted

\* ... as a list.
LEMMA InsertedType ==
  ASSUME NEW list \in Seq(OsTimers), IsInjective(list), NEW n \in 0 .. Len(list),
         NEW x \in OsTimers \ ToSet(list), NEW new, new = InsertAt(list, n + 1, x)
  PROVE  /\ new \in Seq(OsTimers) /\ IsInjective(new)
         /\ ToSet(new) = ToSet(list) \cup {x}
<1>1. /\ new \in Seq(OsTimers) /\ Len(new) = Len(list) + 1
      /\ \A k \in 1 .. Len(list) + 1 :
           new[k] = IF k <= n THEN list[k] ELSE IF k = n + 1 THEN x ELSE list[k - 1]
  BY InsertedIs DEF Inserted
<1>2. \A k \in 1 .. Len(list) : list[k] # x
  BY DEF ToSet
<1>3. IsInjective(new)
  <2>1. DOMAIN list = 1 .. Len(list) /\ DOMAIN new = 1 .. Len(list) + 1
    BY <1>1
  <2>2. \A j, k \in 1 .. Len(list) : list[j] = list[k] => j = k
    BY <2>1 DEF IsInjective
  <2>3. SUFFICES ASSUME NEW j \in 1 .. Len(list) + 1, NEW k \in 1 .. Len(list) + 1,
                        new[j] = new[k], j < k
                 PROVE  FALSE
    BY <2>1 DEF IsInjective
  <2>4. CASE k <= n
    <3>1. j \in 1 .. Len(list) /\ k \in 1 .. Len(list) /\ j <= n
      BY <2>3, <2>4
    <3>2. new[j] = list[j] /\ new[k] = list[k]
      BY <1>1, <2>4, <3>1
    <3> QED BY <2>2, <2>3, <3>1, <3>2
  <2>5. CASE k = n + 1
    <3>1. j \in 1 .. Len(list) /\ j <= n /\ ~(k <= n)
      BY <2>3, <2>5
    <3>2. new[j] = list[j] /\ new[k] = x
      BY <1>1, <2>5, <3>1
    <3> QED BY <1>2, <2>3, <3>1, <3>2
  <2>6. CASE k > n + 1 /\ j <= n
    <3>1. j \in 1 .. Len(list) /\ k - 1 \in 1 .. Len(list) /\ j # k - 1
      BY <2>6
    <3>2. ~(k <= n) /\ k # n + 1
      BY <2>6
    <3>3. new[j] = list[j] /\ new[k] = list[k - 1]
      BY <1>1, <2>6, <3>2
    <3> QED BY <2>2, <2>3, <3>1, <3>3
  <2>7. CASE k > n + 1 /\ j = n + 1
    <3>1. k - 1 \in 1 .. Len(list) /\ ~(k <= n) /\ k # n + 1 /\ ~(j <= n)
      BY <2>7
    <3>2. new[j] = x /\ new[k] = list[k - 1]
      BY <1>1, <2>7, <3>1
    <3> QED BY <1>2, <2>3, <3>1, <3>2
  <2>8. CASE k > n + 1 /\ j > n + 1
    <3>1. /\ j - 1 \in 1 .. Len(list) /\ k - 1 \in 1 .. Len(list) /\ j - 1 # k - 1
          /\ ~(k <= n) /\ k # n + 1 /\ ~(j <= n) /\ j # n + 1
      BY <2>3, <2>8
    <3>2. new[j] = list[j - 1] /\ new[k] = list[k - 1]
      BY <1>1, <3>1
    <3> QED BY <2>2, <2>3, <3>1, <3>2
  <2>9. \/ k <= n \/ k = n + 1
        \/ k > n + 1 /\ (j <= n \/ j = n + 1 \/ j > n + 1)
    <3>1. j \in Int /\ k \in Int /\ n \in Int
      OBVIOUS
    <3> QED BY <3>1
  <2> QED
    BY <2>4, <2>5, <2>6, <2>7, <2>8, <2>9
<1>4. ToSet(new) \subseteq ToSet(list) \cup {x}
  <2>1. ToSet(new) = {new[k] : k \in 1 .. Len(list) + 1}
    BY <1>1 DEF ToSet
  <2>2. \A k \in 1 .. Len(list) : list[k] \in ToSet(list)
    BY DEF ToSet
  <2>3. ASSUME NEW k \in 1 .. Len(list) + 1
        PROVE  new[k] \in ToSet(list) \cup {x}
    <3>1. CASE k <= n
      BY <1>1, <2>2, <3>1
    <3>2. CASE k = n + 1
      BY <1>1, <3>2
    <3>3. CASE k >= n + 2
      <4>1. k \in n + 2 .. Len(list) + 1 /\ k - 1 \in 1 .. Len(list)
        BY <3>3
      <4> QED BY <1>1, <2>2, <4>1
    <3> QED BY <3>1, <3>2, <3>3
  <2> QED BY <2>1, <2>3
<1>5. ASSUME NEW k \in 1 .. Len(list)
      PROVE  list[k] \in ToSet(new)
  <2>1. CASE k <= n
    BY <1>1, <2>1 DEF ToSet
  <2>2. CASE k > n
    <3>1. k + 1 \in 1 .. Len(new) /\ new[k + 1] = list[k]
      BY <1>1, <2>2
    <3> QED
      BY <1>1, <3>1 DEF ToSet
  <2> QED
    BY <2>1, <2>2
<1>6. x \in ToSet(new)
  <2>1. n + 1 \in 1 .. Len(new) /\ new[n + 1] = x
    BY <1>1
  <2> QED
    BY <1>1, <2>1 DEF ToSet
<1>7. ToSet(list) \subseteq ToSet(new)
  BY <1>5 DEF ToSet
<1> QED
  BY <1>1, <1>3, <1>4, <1>6, <1>7

LEMMA InsertType ==
  ASSUME NEW list \in Seq(OsTimers), IsInjective(list),
         NEW x \in OsTimers \ ToSet(list), NEW millis, Insert(list, x, millis)
  PROVE  /\ timers' \in Seq(OsTimers) /\ IsInjective(timers')
         /\ ToSet(timers') = ToSet(list) \cup {x}
BY InsertedType DEF Insert

-----------------------------------------------------------------------------
\* The calls: one returns, ...
LEMMA TailOK ==
  ASSUME NEW s, StackOK(s), s # <<>>
  PROVE  /\ StackOK(Tail(s)) /\ Head(s).timer \in OsTimers
         /\ Head(s).timer \in Called(s) /\ Called(Tail(s)) \subseteq Called(s)
         /\ Head(s).timer \in SelfSetters \/ Head(s).timer \notin Called(Tail(s))
         /\ Tail(s) = <<>> \/ Head(Tail(s)).acted
<1> DEFINE tail == Tail(s)
<1>1. /\ s \in Seq(Frames) /\ Len(s) \in 1 .. MaxNested /\ Head(s) = s[1]
      /\ tail \in Seq(Frames) /\ Len(tail) = Len(s) - 1
      /\ \A i \in 1 .. Len(s) - 1 : tail[i] = s[i + 1]
  BY HeadTailProperties, BoundsAssumption DEF StackOK
<1> HIDE DEF tail
<1>2. \A i \in 1 .. Len(s) : s[i] \in Frames
  BY <1>1
<1>3. \A i, j \in 1 .. Len(s) :
        s[i].timer = s[j].timer /\ s[i].timer \notin SelfSetters => i = j
  BY <1>1 DEF StackOK, Apart
<1>4. Apart(tail)
  <2>1. SUFFICES ASSUME NEW i \in 1 .. Len(s) - 1, NEW j \in 1 .. Len(s) - 1,
                        tail[i].timer = tail[j].timer, tail[i].timer \notin SelfSetters
                 PROVE  i = j
    BY <1>1 DEF Apart
  <2>2. i + 1 \in 1 .. Len(s) /\ j + 1 \in 1 .. Len(s) /\ s[i + 1].timer = s[j + 1].timer
        /\ s[i + 1].timer \notin SelfSetters
    BY <1>1, <2>1
  <2>3. i + 1 = j + 1
    BY <1>3, <2>2
  <2> QED
    BY <2>3
<1>5. ASSUME NEW i \in 1 .. Len(s) - 1
      PROVE  /\ tail[i].timer \in Called(s)
             /\ tail[i].timer = Head(s).timer => Head(s).timer \in SelfSetters
  <2>1. i + 1 \in 1 .. Len(s) /\ i + 1 # 1 /\ tail[i].timer = s[i + 1].timer
        /\ 1 \in 1 .. Len(s)
    BY <1>1
  <2> QED BY <1>1, <1>3, <2>1 DEF Called
<1>6. Called(tail) = {tail[i].timer : i \in 1 .. Len(s) - 1}
  <2>1. DOMAIN tail = 1 .. Len(s) - 1
    BY <1>1
  <2> QED
    BY <2>1 DEF Called
<1>7. Head(s).timer \in OsTimers /\ Head(s).timer \in Called(s)
  <2>1. 1 \in 1 .. Len(s) /\ s[1] \in Frames
    BY <1>1, <1>2
  <2> QED
    BY <1>1, <2>1 DEF Called, Frames
<1>8. ASSUME NEW i \in 1 .. Len(tail)
      PROVE  tail[i].acted /\ (tail[i].caller = "DoTimer" => i = Len(tail))
  <2>1. i + 1 \in DOMAIN s /\ i + 1 > 1 /\ tail[i] = s[i + 1]
    BY <1>1
  <2>2. CallAt(s, i + 1)
    BY <2>1 DEF StackOK
  <2>3. s[i + 1].acted /\ (s[i + 1].caller = "DoTimer" => i + 1 = Len(s))
    BY <2>1, <2>2 DEF CallAt
  <2> QED
    BY <1>1, <2>1, <2>3
<1>9. StackOK(tail)
  <2>1. \A i \in DOMAIN tail : CallAt(tail, i)
    BY <1>1, <1>8 DEF CallAt
  <2> QED
    BY <1>1, <1>4, <2>1, BoundsAssumption DEF StackOK
<1>10. tail = <<>> \/ Head(tail).acted
  <2>1. SUFFICES ASSUME tail # <<>> PROVE Head(tail).acted
    OBVIOUS
  <2>2. 1 \in 1 .. Len(tail) /\ Head(tail) = tail[1]
    BY <1>1, <2>1
  <2> QED
    BY <1>8, <2>2
<1> QED
  BY <1>5, <1>6, <1>7, <1>9, <1>10 DEF tail

\* ... and another is made.
LEMMA PushedIs ==
  ASSUME NEW under \in Seq(Frames), NEW f \in Frames, NEW s, s = <<f>> \o under
  PROVE  /\ s \in Seq(Frames) /\ Len(s) = Len(under) + 1
         /\ \A i \in 1 .. Len(under) + 1 : s[i] = IF i = 1 THEN f ELSE under[i - 1]
<1> DEFINE one == <<f>>
<1>1. one \in Seq(Frames) /\ Len(one) = 1 /\ one[1] = f
  OBVIOUS
<1>2. under \in Seq(Frames)
  OBVIOUS
<1>3. s = one \o under
  OBVIOUS
<1> HIDE DEF one
<1>4. /\ one \o under \in Seq(Frames) /\ Len(one \o under) = Len(one) + Len(under)
      /\ \A i \in 1 .. Len(one) + Len(under) :
           (one \o under)[i] = IF i <= Len(one) THEN one[i] ELSE under[i - Len(one)]
  BY <1>1, <1>2, ConcatProperties
<1>5. /\ s \in Seq(Frames) /\ Len(s) = Len(one) + Len(under)
      /\ \A i \in 1 .. Len(one) + Len(under) :
           s[i] = IF i <= Len(one) THEN one[i] ELSE under[i - Len(one)]
  BY <1>3, <1>4, Zenon
<1> QED
  BY <1>1, <1>2, <1>5

LEMMA PushedOK ==
  ASSUME NEW under, StackOK(under), Len(under) < MaxNested,
         under = <<>> \/ Head(under).acted,
         NEW f \in Frames, f.timer \in SelfSetters \/ f.timer \notin Called(under),
         f.caller = "DoTimer" => under = <<>>, NEW s, s = <<f>> \o under
  PROVE  StackOK(s) /\ Called(s) = Called(under) \cup {f.timer} /\ s # <<>> /\ Head(s) = f
<1>1. /\ s \in Seq(Frames) /\ Len(s) = Len(under) + 1
      /\ \A i \in 1 .. Len(under) + 1 : s[i] = IF i = 1 THEN f ELSE under[i - 1]
  BY PushedIs DEF StackOK
<1>2. under \in Seq(Frames) /\ Len(under) \in Nat
  BY DEF StackOK
<1>3. f.timer \in SelfSetters \/ \A i \in 1 .. Len(under) : under[i].timer # f.timer
  BY <1>2 DEF Called
<1>4. \A i, j \in 1 .. Len(under) :
        under[i].timer = under[j].timer /\ under[i].timer \notin SelfSetters => i = j
  BY <1>2 DEF StackOK, Apart
<1>5. Apart(s)
  <2>1. SUFFICES ASSUME NEW i \in 1 .. Len(s), NEW j \in 1 .. Len(s),
                        s[i].timer = s[j].timer, s[i].timer \notin SelfSetters, i < j
                 PROVE  FALSE
    BY <1>1, <1>2 DEF Apart
  <2>2. j - 1 \in 1 .. Len(under) /\ s[j] = under[j - 1]
    BY <1>1, <1>2, <2>1
  <2>3. CASE i = 1
    <3>1. s[1] = f
      BY <1>1, <1>2
    <3> QED
      BY <1>3, <2>1, <2>2, <2>3, <3>1
  <2>4. CASE i # 1
    <3>1. i - 1 \in 1 .. Len(under) /\ s[i] = under[i - 1]
      BY <1>1, <1>2, <2>1, <2>4
    <3>2. i - 1 = j - 1
      BY <1>4, <2>1, <2>2, <3>1
    <3> QED
      BY <2>1, <3>2
  <2> QED
    BY <2>3, <2>4
<1>6. Called(s) \subseteq Called(under) \cup {f.timer}
  <2>1. SUFFICES ASSUME NEW i \in 1 .. Len(s), i # 1
                 PROVE  s[i].timer \in Called(under)
    BY <1>1, <1>2 DEF Called
  <2>2. i - 1 \in 1 .. Len(under) /\ s[i] = under[i - 1]
    BY <1>1, <1>2, <2>1
  <2> QED
    BY <1>2, <2>2 DEF Called
<1>7. Called(under) \subseteq Called(s)
  <2>1. SUFFICES ASSUME NEW x \in Called(under)
                 PROVE  x \in Called(s)
    OBVIOUS
  <2>2. PICK i \in 1 .. Len(under) : x = under[i].timer
    BY <1>2 DEF Called
  <2> DEFINE k == i + 1
  <2>3. k \in 1 .. Len(s) /\ k # 1 /\ k - 1 = i
    BY <1>1, <1>2
  <2> HIDE DEF k
  <2>4. k \in DOMAIN s /\ s[k].timer = x
    BY <1>1, <1>2, <2>2, <2>3
  <2> QED
    BY <2>4 DEF Called
<1>8. f.timer \in Called(s) /\ s # <<>> /\ Head(s) = f
  <2>1. 1 \in 1 .. Len(s) /\ s[1] = f
    BY <1>1, <1>2
  <2> QED
    BY <1>1, <2>1 DEF Called
<1>9. ASSUME NEW i \in 1 .. Len(s)
      PROVE  (i > 1 => s[i].acted) /\ (s[i].caller = "DoTimer" => i = Len(s))
  <2>1. CASE i = 1
    <3>1. s[1] = f
      BY <1>1, <1>2
    <3>2. f.caller = "DoTimer" => Len(s) = 1
      BY <1>1
    <3> QED
      BY <2>1, <3>1, <3>2
  <2>2. CASE i # 1
    <3>1. i - 1 \in DOMAIN under /\ s[i] = under[i - 1] /\ i > 1
          /\ (i - 1 = 1 \/ i - 1 > 1)
      BY <1>1, <1>2, <2>2
    <3>2. CallAt(under, i - 1)
      BY <3>1 DEF StackOK
    <3>3. i - 1 = 1 => under[i - 1].acted
      <4>1. under # <<>> => Head(under) = under[1]
        BY <1>2
      <4>2. under # <<>>
        BY <3>1
      <4> QED
        BY <4>1, <4>2
    <3> QED
      BY <1>1, <1>2, <3>1, <3>2, <3>3 DEF CallAt
  <2> QED
    BY <2>1, <2>2
<1>10. StackOK(s)
  <2>1. \A i \in DOMAIN s : CallAt(s, i)
    BY <1>1, <1>9 DEF CallAt
  <2> QED
    BY <1>1, <1>2, <1>5, <2>1, BoundsAssumption DEF StackOK
<1> QED
  BY <1>6, <1>7, <1>8, <1>10

LEMMA CallOK ==
  ASSUME NEW x \in OsTimers, NEW caller \in {"DoTimer", "TimerSet"}, NEW under,
         StackOK(under), under = <<>> \/ Head(under).acted,
         x \in SelfSetters \/ x \notin Called(under),
         caller = "DoTimer" => under = <<>>, Call(x, caller, under)
  PROVE  StackOK(stack') /\ Called(stack') = Called(under) \cup {x}
<1> DEFINE f == [timer |-> x, caller |-> caller, acted |-> FALSE, late |-> FALSE]
<1>1. f \in Frames /\ f.timer = x /\ f.caller = caller
  BY DEF Frames
<1>2. Len(under) < MaxNested /\ stack' = <<f>> \o under
  BY DEF Call
<1> HIDE DEF f
<1> QED
  BY <1>1, <1>2, PushedOK

LEMMA ActedOK ==
  ASSUME StackOK(stack), stack # <<>>
  PROVE  /\ StackOK(Acted) /\ Called(Acted) = Called(stack)
         /\ Acted # <<>> /\ Head(Acted).acted
<1> DEFINE tail == Tail(stack)
<1> DEFINE f == [Head(stack) EXCEPT !.acted = TRUE]
<1>1. /\ StackOK(tail) /\ Head(stack).timer \in Called(stack)
      /\ Head(stack).timer \in SelfSetters \/ Head(stack).timer \notin Called(tail)
      /\ tail = <<>> \/ Head(tail).acted
  BY TailOK
<1>2. /\ stack \in Seq(Frames) /\ Len(stack) \in 1 .. MaxNested /\ Head(stack) = stack[1]
      /\ tail \in Seq(Frames) /\ Len(tail) = Len(stack) - 1 /\ Head(stack) \in Frames
      /\ \A i \in 1 .. Len(tail) : tail[i] = stack[i + 1]
  BY HeadTailProperties, BoundsAssumption DEF StackOK
<1>3. f \in Frames /\ f.timer = Head(stack).timer /\ f.caller = Head(stack).caller /\ f.acted
  BY <1>2 DEF Frames
<1>4. Acted = <<f>> \o tail
  BY DEF Acted
<1>5. Head(stack).caller = "DoTimer" => tail = <<>>
  <2>1. 1 \in DOMAIN stack
    BY <1>2
  <2>2. CallAt(stack, 1)
    BY <2>1 DEF StackOK
  <2> QED
    BY <1>2, <2>2, EmptySeq DEF CallAt
<1>6. Called(stack) = Called(tail) \cup {Head(stack).timer}
  <2>1. DOMAIN stack = 1 .. Len(stack) /\ DOMAIN tail = 1 .. Len(stack) - 1
    BY <1>2
  <2>2. ASSUME NEW i \in 1 .. Len(stack), i # 1
        PROVE  stack[i].timer \in Called(tail)
    <3>1. i - 1 \in DOMAIN tail /\ (i - 1) + 1 = i /\ i - 1 \in 1 .. Len(tail)
      BY <1>2, <2>1, <2>2
    <3>2. tail[i - 1] = stack[i]
      BY <1>2, <3>1
    <3> QED
      BY <3>1, <3>2 DEF Called
  <2>3. Called(stack) \subseteq Called(tail) \cup {Head(stack).timer}
    BY <1>2, <2>1, <2>2 DEF Called
  <2>4. Called(tail) \subseteq Called(stack)
    BY TailOK
  <2> QED
    BY <1>1, <2>3, <2>4
<1> HIDE DEF tail, f
<1>7. Len(tail) < MaxNested
  BY <1>2, BoundsAssumption
<1> DEFINE acted == Acted
<1>8. acted = <<f>> \o tail
  BY <1>4
<1> HIDE DEF acted
<1>9. f.timer \in SelfSetters \/ f.timer \notin Called(tail)
  BY <1>1, <1>3
<1>10. f.caller = "DoTimer" => tail = <<>>
  BY <1>3, <1>5
<1>11. StackOK(acted) /\ Called(acted) = Called(tail) \cup {f.timer} /\ acted # <<>>
       /\ Head(acted) = f
  BY <1>1, <1>3, <1>7, <1>8, <1>9, <1>10, PushedOK
<1> QED
  BY <1>3, <1>6, <1>11 DEF acted

\* What is left of an expiry time that is forgotten.
LEMMA ForgetIs ==
  ASSUME expires \in [OsTimers -> Times], NEW x \in OsTimers, Forget(x)
  PROVE  /\ expires' \in [OsTimers -> Times]
         /\ \A y \in OsTimers : y # x => expires'[y] = expires[y]
         /\ x \in ToSet(timers') => expires' = expires
         /\ (\E i \in DOMAIN stack' : stack'[i].timer = x /\ stack'[i].caller = "TimerSet")
              => expires' = expires
<1>1. 0 \in Times
  BY WidthAssumption DEF Times
<1> QED
  BY <1>1 DEF Forget

\* TimerSet, called while the callbacks "under" are: x is one of theirs only if
\* it may be.
LEMMA TimerSetOK ==
  ASSUME TypeOK, NEW x \in OsTimers, NEW delay \in Delays, NEW under,
         StackOK(under), under = <<>> \/ Head(under).acted,
         x \in SelfSetters \/ x \notin Called(under),
         Called(under) \cap ToSet(timers) = {},
         TimerSet(x, delay, under)
  PROVE  Sound(stack', timers') /\ expires' \in [OsTimers -> Times]
<1> DEFINE millis == (clock + delay) % W
<1> DEFINE list == Unlink(x)
<1>1. millis \in Times
  <2>1. clock + delay \in Int
    BY DelaysAssumption, WidthAssumption DEF TypeOK, Times
  <2> QED
    BY <2>1, TimeType
<1>2. /\ list \in Seq(OsTimers) /\ IsInjective(list)
      /\ ToSet(list) = ToSet(timers) \ {x}
  BY UnlinkType DEF TypeOK
<1>3. expires' = [expires EXCEPT ![x] = millis]
  BY DEF TimerSet
<1>4. \/ timers' = list /\ Call(x, "TimerSet", under)
      \/ Insert(list, x, millis) /\ stack' = under
  BY DEF TimerSet
<1> HIDE DEF millis, list
<1>5. expires' \in [OsTimers -> Times]
  BY <1>1, <1>3 DEF TypeOK
<1>6. CASE timers' = list /\ Call(x, "TimerSet", under)
  <2>1. StackOK(stack') /\ Called(stack') = Called(under) \cup {x}
    BY <1>6, CallOK
  <2> QED
    BY <1>2, <1>5, <1>6, <2>1 DEF ListOK, Sound
<1>7. CASE Insert(list, x, millis) /\ stack' = under
  <2>1. /\ timers' \in Seq(OsTimers) /\ IsInjective(timers')
        /\ ToSet(timers') = ToSet(list) \cup {x}
    BY <1>2, <1>7, InsertType
  <2>2. Called(stack') = Called(under) /\ StackOK(stack')
    BY <1>7
  <2>3. stack' = <<>> \/ Head(stack').acted
    BY <1>7
  <2> QED
    BY <1>2, <1>5, <2>1, <2>2, <2>3 DEF ListOK, Sound
<1> QED
  BY <1>4, <1>6, <1>7

\* A callback that is called by DoTimer.
LEMMA DoTimerOK ==
  ASSUME Inv, NEW x \in ToSet(timers), stack = <<>>, DoTimer(x)
  PROVE  Sound(stack', timers') /\ expires' \in [OsTimers -> Times]
<1>1. /\ Unlink(x) \in Seq(OsTimers) /\ IsInjective(Unlink(x))
      /\ ToSet(Unlink(x)) = ToSet(timers) \ {x}
  BY UnlinkType DEF Inv, ListProper, TypeOK
<1>2. DOMAIN stack = {}
  OBVIOUS
<1>3. x \in OsTimers /\ Called(stack) = {} /\ StackOK(stack)
  BY <1>2 DEF Inv, ListProper, TypeOK, Sound, ToSet, Called
<1>4. StackOK(stack') /\ Called(stack') = {x}
  BY <1>3, CallOK DEF DoTimer
<1>5. timers' = Unlink(x) /\ Forget(x)
  BY DEF DoTimer
<1>6. expires' \in [OsTimers -> Times]
  BY <1>3, <1>5, ForgetIs DEF Inv, ListProper, TypeOK
<1> QED
  BY <1>1, <1>4, <1>5, <1>6 DEF ListOK, Sound

LEMMA TimerCancelOK ==
  ASSUME Inv, NEW x \in OsTimers, NEW calls, TimerCancel(x, calls)
  PROVE  /\ ListOK(timers') /\ expires' \in [OsTimers -> Times]
         /\ ToSet(timers') \subseteq ToSet(timers)
<1>1. /\ Unlink(x) \in Seq(OsTimers) /\ IsInjective(Unlink(x))
      /\ ToSet(Unlink(x)) = ToSet(timers) \ {x}
  BY UnlinkType DEF Inv, ListProper, TypeOK
<1>2. CASE timers' = Unlink(x) /\ Forget(x)
  <2>1. expires' \in [OsTimers -> Times]
    BY <1>2, ForgetIs DEF Inv, ListProper, TypeOK
  <2> QED
    BY <1>1, <1>2, <2>1 DEF ListOK
<1>3. CASE timers' = timers /\ expires' = expires
  BY <1>3 DEF ListOK, Inv, ListProper, TypeOK
<1> QED
  BY <1>2, <1>3 DEF TimerCancel

-----------------------------------------------------------------------------
LEMMA InitInv == Init => Inv
<1> SUFFICES ASSUME Init PROVE Inv
  OBVIOUS
<1>1. 0 \in Times
  BY WidthAssumption DEF Times
<1>2. /\ <<>> \in Seq(OsTimers) /\ <<>> \in Seq(Frames) /\ Len(<<>>) = 0
      /\ DOMAIN <<>> = {}
  OBVIOUS
<1>3. TypeOK
  <2>1. clock \in Times /\ expires \in [OsTimers -> Times] /\ disordered \in BOOLEAN
        /\ ring = FALSE
    BY <1>1 DEF Init
  <2>2. loop \in [on : BOOLEAN, now : Times]
    BY <1>1 DEF Init, Off
  <2>3. timers \in Seq(OsTimers) /\ IsInjective(timers)
    BY <1>2 DEF Init, IsInjective
  <2>4. stack \in Seq(Frames) /\ Len(stack) <= MaxNested
    BY <1>2, BoundsAssumption DEF Init
  <2> QED
    BY <2>1, <2>2, <2>3, <2>4 DEF TypeOK
<1>4. Sound(stack, timers)
  BY <1>2, BoundsAssumption DEF Init, Sound, StackOK, ListOK, IsInjective, Apart, Called
<1>5. ListProper
  BY <1>3 DEF ListProper, Init
<1> QED
  BY <1>4, <1>5 DEF Inv

LEMMA NextInv == Inv /\ [Next]_vars => Inv'
<1> SUFFICES ASSUME Inv, [Next]_vars PROVE Inv'
  OBVIOUS
<1> DEFINE Kept ==
      /\ clock' \in Times /\ loop' \in [on : BOOLEAN, now : Times] /\ disordered' \in BOOLEAN
      /\ ring' \in BOOLEAN /\ (ring' => SelfSetters # {})
      /\ expires' \in [OsTimers -> Times] /\ Sound(stack', timers')
<1>1. SUFFICES Kept
  <2>1. Kept => Sound(stack, timers)'
    BY DEF Sound, StackOK, CallAt, ListOK, Apart, Called, ToSet, IsInjective
  <2>2. Kept => TypeOK'
    BY DEF Sound, StackOK, ListOK, TypeOK, IsInjective
  <2>3. Kept => Inv'
    BY <2>1, <2>2 DEF Inv, ListProper
  <2> QED
    BY <2>3
<1>2. /\ clock \in Times /\ loop \in [on : BOOLEAN, now : Times] /\ disordered \in BOOLEAN
      /\ ring \in BOOLEAN /\ (ring => SelfSetters # {})
      /\ expires \in [OsTimers -> Times] /\ Sound(stack, timers)
      /\ ListOK(timers) /\ StackOK(stack) /\ TypeOK
      /\ (Called(stack) \ SelfSetters) \cap ToSet(timers) = {}
  BY DEF Inv, ListProper, TypeOK, Sound
<1>3. 0 \in Times
  BY WidthAssumption DEF Times
<1>4. Off \in [on : BOOLEAN, now : Times]
  BY <1>3 DEF Off
<1>5. ASSUME stack # <<>>
      PROVE  LET x == Head(stack).timer
                 under == Tail(stack)
             IN  /\ x \in OsTimers /\ x \in Called(stack)
                 /\ StackOK(under) /\ Called(under) \subseteq Called(stack)
                 /\ x \in SelfSetters \/ x \notin Called(under)
                 /\ under = <<>> \/ Head(under).acted
                 /\ Head(stack).caller = "DoTimer" => under = <<>>
  <2>1. 1 \in DOMAIN stack /\ Head(stack) = stack[1] /\ stack \in Seq(Frames)
        /\ Len(stack) \in Nat
    BY <1>2, <1>5 DEF StackOK
  <2>2. CallAt(stack, 1)
    BY <1>2, <2>1 DEF StackOK
  <2>3. Len(stack) = 1 => Tail(stack) = <<>>
    <3> DEFINE tail == Tail(stack)
    <3>1. tail \in Seq(Frames) /\ Len(tail) = Len(stack) - 1
      BY <1>5, <2>1, HeadTailProperties
    <3> HIDE DEF tail
    <3>2. Len(stack) = 1 => tail = <<>>
      BY <2>1, <3>1, EmptySeq
    <3> QED
      BY <3>2 DEF tail
  <2> QED
    BY <1>2, <1>5, <2>1, <2>2, <2>3, TailOK DEF CallAt
<1>6. CASE Tick
  <2>1. clock' \in Times
    <3>1. clock + 1 \in Int
      BY <1>2, WidthAssumption DEF Times
    <3> QED
      BY <1>6, <3>1, TimeType DEF Tick
  <2>2. CASE stack' = stack
    <3>1. timers' = timers
      BY <1>6 DEF Tick
    <3>2. Sound(stack', timers')
      BY <1>2, <2>2, <3>1
    <3> QED
      BY <1>2, <1>6, <2>1, <3>2 DEF Tick
  <2>3. CASE stack # <<>> /\ stack' = [stack EXCEPT ![1].late = TRUE]
    <3>1. stack \in Seq(Frames) /\ Len(stack) <= MaxNested /\ 1 \in DOMAIN stack
      BY <1>2, <2>3 DEF StackOK
    <3>2. [stack[1] EXCEPT !.late = TRUE] \in Frames
      <4>1. stack[1] \in Frames
        BY <3>1
      <4> QED
        BY <4>1 DEF Frames
    <3>3. /\ stack' \in Seq(Frames) /\ Len(stack') = Len(stack)
          /\ DOMAIN stack' = DOMAIN stack
          /\ \A i \in DOMAIN stack : /\ stack'[i].timer = stack[i].timer
                                     /\ stack'[i].caller = stack[i].caller
                                     /\ stack'[i].acted = stack[i].acted
      BY <2>3, <3>1, <3>2 DEF Frames
    <3>4. Apart(stack') /\ Called(stack') = Called(stack)
      <4>1. Apart(stack)
        BY <1>2 DEF StackOK
      <4>2. Called(stack') = Called(stack)
        BY <3>3, Zenon DEF Called
      <4> QED
        BY <3>3, <4>1, <4>2 DEF Apart
    <3>5. \A i \in DOMAIN stack' : CallAt(stack', i)
      BY <1>2, <3>3 DEF StackOK, CallAt
    <3>6. Head(stack').acted = Head(stack).acted
      BY <3>1, <3>3
    <3>7. timers' = timers
      BY <1>6 DEF Tick
    <3>8. stack' # <<>>
      BY <3>1, <3>3
    <3>9. StackOK(stack')
      BY <3>1, <3>3, <3>4, <3>5 DEF StackOK
    <3>10. Sound(stack', timers')
      BY <1>2, <2>3, <3>4, <3>6, <3>7, <3>8, <3>9 DEF Sound
    <3> QED
      BY <1>2, <1>6, <2>1, <3>10 DEF Tick
  <2> QED
    BY <1>6, <2>2, <2>3 DEF Tick
<1>7. CASE StartLoop
  <2>1. timers' = timers /\ stack' = stack
    BY <1>7 DEF StartLoop
  <2>2. Sound(stack', timers')
    BY <1>2, <2>1
  <2> QED
    BY <1>2, <1>7, <2>2 DEF StartLoop
<1>8. CASE Loop
  <2>1. CASE timers # <<>> /\ DoTimer(Head(timers)) /\ UNCHANGED loop
    <3>1. Head(timers) \in ToSet(timers)
      <4>1. timers \in Seq(OsTimers) /\ 1 \in DOMAIN timers /\ Head(timers) = timers[1]
        BY <1>2, <2>1 DEF ListOK
      <4> QED
        BY <4>1 DEF ToSet
    <3>2. Sound(stack', timers') /\ expires' \in [OsTimers -> Times]
      BY <1>8, <2>1, <3>1, DoTimerOK DEF Loop
    <3> QED
      BY <1>2, <1>8, <2>1, <3>2 DEF Loop
  <2>2. CASE loop' = Off /\ UNCHANGED <<timers, expires, stack>>
    <3>1. Sound(stack', timers')
      BY <1>2, <2>2
    <3> QED
      BY <1>2, <1>4, <1>8, <2>2, <3>1 DEF Loop
  <2> QED
    BY <1>8, <2>1, <2>2 DEF Loop
<1>9. CASE Done
  <2>1. stack # <<>> /\ stack' = Tail(stack) /\ Forget(Head(stack).timer)
        /\ UNCHANGED <<clock, timers, loop, disordered, ring>>
    BY <1>9 DEF Done
  <2>2. expires' \in [OsTimers -> Times]
    BY <1>2, <1>5, <2>1, ForgetIs
  <2>3. Sound(stack', timers')
    BY <1>2, <1>5, <2>1 DEF Sound
  <2> QED
    BY <1>2, <2>1, <2>2, <2>3
<1>10. ASSUME NEW d \in Delays, AgainAfter(d)
       PROVE  Kept
  <2> DEFINE x == Head(stack).timer
  <2> DEFINE under == Tail(stack)
  <2>1. /\ stack # <<>> /\ UNCHANGED <<clock, loop>>
        /\ \/ /\ Head(stack).caller = "DoTimer"
              /\ TimerSet(x, d, under) /\ UNCHANGED <<disordered, ring>>
           \/ /\ x \notin ToSet(timers) /\ Insert(timers, x, d) /\ stack' = under
              /\ disordered' = TRUE /\ UNCHANGED <<expires, ring>>
           \/ /\ x \in ToSet(timers) /\ ring' = TRUE
              /\ UNCHANGED <<timers, expires, stack, disordered>>
    BY <1>10 DEF AgainAfter
  <2>2. /\ x \in OsTimers /\ x \in Called(stack)
        /\ StackOK(under) /\ Called(under) \subseteq Called(stack)
        /\ x \in SelfSetters \/ x \notin Called(under)
        /\ under = <<>> \/ Head(under).acted
        /\ Head(stack).caller = "DoTimer" => under = <<>>
    BY <1>5, <2>1
  <2> HIDE DEF x, under
  <2>3. CASE /\ Head(stack).caller = "DoTimer"
             /\ TimerSet(x, d, under) /\ UNCHANGED <<disordered, ring>>
    <3>1. Called(under) \cap ToSet(timers) = {}
      <4>1. under = <<>> /\ DOMAIN <<>> = {}
        BY <2>2, <2>3
      <4> QED
        BY <4>1 DEF Called
    <3>2. Sound(stack', timers') /\ expires' \in [OsTimers -> Times]
      BY <1>2, <2>2, <2>3, <3>1, TimerSetOK
    <3> QED
      BY <1>2, <2>1, <2>3, <3>2
  <2>4. CASE /\ x \notin ToSet(timers) /\ Insert(timers, x, d) /\ stack' = under
             /\ disordered' = TRUE /\ UNCHANGED <<expires, ring>>
    <3>1. timers \in Seq(OsTimers) /\ IsInjective(timers) /\ x \in OsTimers \ ToSet(timers)
      BY <1>2, <2>2, <2>4 DEF ListOK
    <3>2. /\ timers' \in Seq(OsTimers) /\ IsInjective(timers')
          /\ ToSet(timers') = ToSet(timers) \cup {x}
      BY <2>4, <3>1, InsertType
    <3>3. Called(stack') = Called(under) /\ StackOK(stack')
          /\ (stack' = <<>> \/ Head(stack').acted)
      BY <2>2, <2>4
    <3>4. Sound(stack', timers')
      BY <1>2, <2>2, <3>2, <3>3 DEF Sound, ListOK
    <3> QED
      BY <1>2, <2>1, <2>4, <3>4
  <2>5. CASE /\ x \in ToSet(timers) /\ ring' = TRUE
             /\ UNCHANGED <<timers, expires, stack, disordered>>
    <3>1. Sound(stack', timers')
      BY <1>2, <2>5
    <3>2. SelfSetters # {}
      BY <1>2, <2>2, <2>5
    <3> QED
      BY <1>2, <2>1, <2>5, <3>1, <3>2
  <2> QED
    BY <2>1, <2>3, <2>4, <2>5
<1>11. Order => disordered' \in BOOLEAN
  BY DEF Order
<1>12. CASE TimerInit
  <2>1. /\ timers' = <<>> /\ expires' = [x \in OsTimers |-> 0]
        /\ UNCHANGED <<clock, loop, stack, ring>> /\ disordered' \in BOOLEAN /\ stack = <<>>
    BY <1>11, <1>12 DEF TimerInit, Idle
  <2>2. <<>> \in Seq(OsTimers) /\ DOMAIN <<>> = {}
    OBVIOUS
  <2>3. ListOK(timers') /\ ToSet(timers') = {}
    BY <2>1, <2>2 DEF ListOK, IsInjective, ToSet
  <2>4. Sound(stack', timers')
    BY <1>2, <2>1, <2>3 DEF Sound
  <2> QED
    BY <1>2, <1>3, <2>1, <2>4
<1>13. ASSUME NEW x \in OsTimers, CallbackCancels(x)
       PROVE  Kept
  <2>1. TimerCancel(x, Acted) /\ stack' = Acted /\ stack # <<>>
        /\ UNCHANGED <<clock, loop, disordered, ring>>
    BY <1>13 DEF CallbackCancels, Running, TimerCancel
  <2>2. StackOK(stack') /\ Called(stack') = Called(stack) /\ Head(stack').acted
    BY <1>2, <2>1, ActedOK
  <2>3. /\ ListOK(timers') /\ expires' \in [OsTimers -> Times]
        /\ ToSet(timers') \subseteq ToSet(timers)
    BY <2>1, TimerCancelOK
  <2>4. Sound(stack', timers')
    BY <1>2, <2>2, <2>3 DEF Sound
  <2> QED
    BY <1>2, <2>1, <2>3, <2>4
<1>14. ASSUME NEW x \in OsTimers, RequestCancels(x)
       PROVE  Kept
  <2>1. TimerCancel(x, <<>>) /\ UNCHANGED <<clock, loop, stack, ring>>
        /\ stack = <<>> /\ disordered' \in BOOLEAN
    BY <1>11, <1>14 DEF RequestCancels, Idle, TimerCancel
  <2>2. /\ ListOK(timers') /\ expires' \in [OsTimers -> Times]
        /\ ToSet(timers') \subseteq ToSet(timers)
    BY <2>1, TimerCancelOK
  <2>3. Sound(stack', timers')
    BY <1>2, <2>1, <2>2 DEF Sound
  <2> QED
    BY <1>2, <2>1, <2>2, <2>3
<1>15. ASSUME NEW x \in OsTimers, TimerForce(x)
       PROVE  Kept
  <2>1. /\ x \in ToSet(timers) /\ DoTimer(x) /\ UNCHANGED <<clock, loop, ring>>
        /\ disordered' \in BOOLEAN /\ stack = <<>>
    BY <1>11, <1>15 DEF TimerForce, Idle
  <2>2. Sound(stack', timers') /\ expires' \in [OsTimers -> Times]
    BY <2>1, DoTimerOK
  <2> QED
    BY <1>2, <2>1, <2>2
<1>16. ASSUME NEW x \in OsTimers, NEW d \in Delays, CallbackSets(x, d)
       PROVE  Kept
  <2> DEFINE under == Acted
  <2>1. /\ TimerSet(x, d, under) /\ stack # <<>> /\ ~Head(stack).acted
        /\ UNCHANGED <<clock, loop, disordered, ring>>
        /\ x \in SelfSetters \/ \A i \in DOMAIN stack : stack[i].timer # x
    BY <1>16 DEF CallbackSets, Running
  <2>2. StackOK(under) /\ Called(under) = Called(stack) /\ Head(under).acted
    BY <1>2, <2>1, ActedOK
  <2>3. x \in SelfSetters \/ x \notin Called(under)
    BY <2>1, <2>2 DEF Called
  <2>5. Called(under) \cap ToSet(timers) = {}
    BY <1>2, <2>1, <2>2 DEF Sound
  <2> HIDE DEF under
  <2>4. Sound(stack', timers') /\ expires' \in [OsTimers -> Times]
    BY <2>5, <1>2, <2>1, <2>2, <2>3, TimerSetOK
  <2> QED
    BY <1>2, <2>1, <2>4
<1>17. ASSUME NEW x \in OsTimers, NEW d \in Delays, RequestSets(x, d)
       PROVE  Kept
  <2> DEFINE under == <<>>
  <2>1. /\ TimerSet(x, d, under) /\ UNCHANGED <<clock, loop, ring>> /\ disordered' \in BOOLEAN
    BY <1>11, <1>17 DEF RequestSets
  <2>2. under \in Seq(Frames) /\ Len(under) = 0 /\ DOMAIN under = {}
    OBVIOUS
  <2>5. under = <<>>
    OBVIOUS
  <2> HIDE DEF under
  <2>3. StackOK(under) /\ Called(under) = {}
    BY <2>2, BoundsAssumption DEF StackOK, Apart, Called
  <2>4. Sound(stack', timers') /\ expires' \in [OsTimers -> Times]
    BY <2>5, <1>2, <2>1, <2>3, TimerSetOK
  <2> QED
    BY <1>2, <2>1, <2>4
<1>18. CASE UNCHANGED vars
  <2>1. timers' = timers /\ stack' = stack
    BY <1>18 DEF vars
  <2>2. Sound(stack', timers')
    BY <1>2, <2>1
  <2> QED
    BY <1>2, <1>18, <2>2 DEF vars
<1> QED
  BY <1>6, <1>7, <1>8, <1>9, <1>10, <1>12, <1>13, <1>14, <1>15, <1>16, <1>17, <1>18
     DEF Next, Serve

\* However callbacks set and cancel timers while they are being called, from
\* within each other, and the list is walked: no timer is ever in it twice, and
\* it becomes a ring only if some timer may be set while its callback runs; ...
THEOREM ListIsProper == Spec => []ListProper
<1>1. Inv => ListProper
  BY DEF Inv
<1> QED
  BY <1>1, InitInv, NextInv, PTL DEF Spec

\* ... and each other timer, whose callback has not returned, is not in the list,
\* and is not called a second time from within, even by those that set themselves.
THEOREM CalledOnceAtATime == Spec => []CallsApart
<1>1. Inv => CallsApart
  BY DEF Inv, CallsApart, Sound, StackOK
<1> QED
  BY <1>1, InitInv, NextInv, PTL DEF Spec

-----------------------------------------------------------------------------
(* What the times are worth.  They wrap, and so the order of the list is that   *)
(* of the differences, which is one only as long as all are less than half the  *)
(* range apart.                                                                 *)

\* A time t at which a timer in the list expires, seen at the time c; ...
InWindow(c, t, dis) ==
  /\ \E d \in Delays : Signed(c - t) >= -d
  /\ \/ Signed(c - t) <= MaxLag
     \/ dis /\ \E d \in Delays :
          t < d /\ (Signed(c - t) < MaxNested \/ Signed(c - t) <= MaxLag + d)

\* ... and another, u, behind it.
Before(t, u, dis) ==
  \/ Signed(t - u) <= 0
  \/ dis /\ u < t /\ \E d \in Delays : t <= d

\* The time v of a timer that TimerSet called: the clock had wrapped.
Waits(c, v) ==
  \E d \in Delays : v < d /\ Signed(c - v) >= -d /\ v + Signed(c - v) < MaxNested

LEMMA SignedIs ==
  ASSUME NEW a \in Times, NEW b \in Times
  PROVE  /\ Signed(a - b) \in Int /\ -W <= 2 * Signed(a - b) /\ 2 * Signed(a - b) < W
         /\ \/ Signed(a - b) = a - b \/ Signed(a - b) = a - b + W
            \/ Signed(a - b) = a - b - W
<1> DEFINE r == (a - b) % W
<1> DEFINE h == W \div 2
<1>1. W \in Nat /\ W > 1 /\ a \in 0 .. W - 1 /\ b \in 0 .. W - 1
  BY WidthAssumption DEF Times
<1>2. r = IF a >= b THEN a - b ELSE a - b + W
  BY <1>1
<1>3. h \in Nat /\ 2 * h = W
  BY WidthAssumption
<1>4. Signed(a - b) = IF r < h THEN r ELSE r - W
  BY DEF Signed
<1> HIDE DEF r, h
<1> QED
  BY <1>1, <1>2, <1>3, <1>4

SomeTimer == OsTimers # {}

LEMMA DelayIs ==
  ASSUME SomeTimer, NEW d \in Delays
  PROVE  /\ d \in Times /\ d > 0 /\ MaxLag \in Nat /\ MaxNested \in Nat /\ MaxNested > 0
         /\ 2 * (2 * d + MaxLag) < W /\ 2 * (d + MaxLag + MaxNested + 1) < W
<1> DEFINE n == Cardinality(OsTimers)
<1>1. n \in Nat /\ n > 0
  BY BoundsAssumption, FS_CardinalityType, FS_EmptySet DEF SomeTimer
<1>2. d \in Nat \ {0} /\ 2 * (d + MaxLag + n * (MaxNested + 1)) < W /\ 2 * (2 * d + MaxLag) < W
  BY DelaysAssumption
<1> HIDE DEF n
<1>3. MaxLag \in Nat /\ MaxNested \in Nat /\ MaxNested > 0 /\ W \in Nat
  BY BoundsAssumption, WidthAssumption
<1>4. n * (MaxNested + 1) >= MaxNested + 1
  <2>1. \A i, j \in Nat : i > 0 => i * j >= j
    OBVIOUS
  <2> QED
    BY <1>1, <1>3, <2>1
<1>5. n * (MaxNested + 1) \in Nat
  BY <1>1, <1>3
<1> DEFINE p == n * (MaxNested + 1)
<1> HIDE DEF p
<1>6. p >= MaxNested + 1 /\ p \in Nat /\ 2 * (d + MaxLag + p) < W
  BY <1>2, <1>4, <1>5 DEF p
<1> QED
  BY <1>2, <1>3, <1>6 DEF Times


\* It is set: what expires later is behind it.
LEMMA SetBehind ==
  ASSUME SomeTimer, NEW c \in Times, NEW d \in Delays, NEW dis \in BOOLEAN,
         NEW m \in Times, m = c + d,
         NEW t \in Times, NEW u \in Times, InWindow(c, t, dis), InWindow(c, u, dis),
         Signed(t - m) > 0, Before(t, u, dis)
  PROVE  Before(m, t, dis) /\ Before(m, u, dis)
<1>1. PICK d1 \in Delays : Signed(c - t) >= -d1
  BY DEF InWindow
<1>2. PICK d2 \in Delays : Signed(c - u) >= -d2
  BY DEF InWindow
<1> DEFINE ct == Signed(c - t)
<1> DEFINE cu == Signed(c - u)
<1> DEFINE tm == Signed(t - m)
<1> DEFINE mt == Signed(m - t)
<1> DEFINE mu == Signed(m - u)
<1> DEFINE tu == Signed(t - u)
<1>3. PICK e1 \in Delays : ct <= MaxLag \/ (t < e1 /\ (ct < MaxNested \/ ct <= MaxLag + e1))
  BY DEF InWindow
<1>4. PICK e2 \in Delays : cu <= MaxLag \/ (u < e2 /\ (cu < MaxNested \/ cu <= MaxLag + e2))
  BY DEF InWindow
<1>5. /\ d \in Int /\ d > 0 /\ 2 * (2 * d + MaxLag) < W /\ 2 * (d + MaxLag + MaxNested + 1) < W
      /\ d1 \in Int /\ d1 > 0 /\ 2 * (2 * d1 + MaxLag) < W /\ 2 * (d1 + MaxLag + MaxNested + 1) < W
      /\ d2 \in Int /\ d2 > 0 /\ 2 * (2 * d2 + MaxLag) < W /\ 2 * (d2 + MaxLag + MaxNested + 1) < W
      /\ e1 \in Int /\ e1 > 0 /\ 2 * (2 * e1 + MaxLag) < W /\ 2 * (e1 + MaxLag + MaxNested + 1) < W
      /\ e2 \in Int /\ e2 > 0 /\ 2 * (2 * e2 + MaxLag) < W /\ 2 * (e2 + MaxLag + MaxNested + 1) < W
      /\ MaxLag \in Nat /\ MaxNested \in Nat /\ MaxNested > 0
  BY DelayIs DEF Times
<1>6. \/ tu <= 0
      \/ dis /\ u < t /\ \E e \in Delays : t <= e
  BY DEF Before
<1>7. /\ W \in Int /\ c \in Int /\ t \in Int /\ u \in Int /\ m \in Int
      /\ 0 <= c /\ c < W /\ 0 <= t /\ t < W /\ 0 <= u /\ u < W /\ 0 <= m /\ m < W
  BY WidthAssumption DEF Times
<1>8. /\ ct \in Int /\ -W <= 2 * ct /\ 2 * ct < W
      /\ (ct = c - t \/ ct = c - t + W \/ ct = c - t - W)
  BY SignedIs
<1>9. /\ cu \in Int /\ -W <= 2 * cu /\ 2 * cu < W
      /\ (cu = c - u \/ cu = c - u + W \/ cu = c - u - W)
  BY SignedIs
<1>10. /\ tm \in Int /\ -W <= 2 * tm /\ 2 * tm < W
      /\ (tm = t - m \/ tm = t - m + W \/ tm = t - m - W)
  BY SignedIs
<1>11. /\ mt \in Int /\ -W <= 2 * mt /\ 2 * mt < W
      /\ (mt = m - t \/ mt = m - t + W \/ mt = m - t - W)
  BY SignedIs
<1>12. /\ mu \in Int /\ -W <= 2 * mu /\ 2 * mu < W
      /\ (mu = m - u \/ mu = m - u + W \/ mu = m - u - W)
  BY SignedIs
<1>13. /\ tu \in Int /\ -W <= 2 * tu /\ 2 * tu < W
      /\ (tu = t - u \/ tu = t - u + W \/ tu = t - u - W)
  BY SignedIs
<1>14. tm > 0 /\ ct >= -d1 /\ cu >= -d2 /\ m = c + d
  BY <1>1, <1>2
<1> HIDE DEF ct, cu, tm, mt, mu, tu
<1>15. mt <= 0
  BY <1>7, <1>10, <1>11, <1>14
<1>16. ct < -d
  <2>1. ct <= MaxLag \/ ct < MaxNested \/ ct <= MaxLag + e1
    BY <1>3
  <2>2. -W <= 2 * (-ct - d) /\ 2 * (-ct - d) < W
    BY <2>1, <1>5, <1>7, <1>8, <1>14
  <2>3. tm = -ct - d
    BY <2>2, <1>5, <1>7, <1>8, <1>10, <1>14
  <2> QED BY <2>3, <1>5, <1>8, <1>14
<1>17. mu <= 0 \/ (dis /\ u < m /\ \E e \in Delays : m <= e)
  <2>0. cu <= MaxLag \/ cu < MaxNested \/ cu <= MaxLag + e2
    BY <1>4
  <2>01. -W <= 2 * (cu + d) /\ 2 * (cu + d) < W
    BY <2>0, <1>5, <1>7, <1>9, <1>14
  <2>02. mu = cu + d
    BY <2>01, <1>5, <1>7, <1>9, <1>12, <1>14
  <2>03. -W <= 2 * (cu - ct) /\ 2 * (cu - ct) < W
    BY <2>0, <1>5, <1>7, <1>8, <1>9, <1>14, <1>16
  <2>04. tu = cu - ct
    BY <2>03, <1>7, <1>8, <1>9, <1>13
  <2>1. CASE tu <= 0
    BY <1>5, <1>8, <1>9, <1>16, <2>1, <2>02, <2>04
  <2>2. CASE dis /\ u < t /\ \E e \in Delays : t <= e
    <3>1. PICK e \in Delays : t <= e
      BY <2>2
    <3>2. mu <= 0 \/ (u < m /\ m <= t)
      BY <1>5, <1>7, <1>8, <1>9, <1>12, <1>14, <1>16, <2>2, <3>1, <2>02
    <3>3. t \in Int /\ m \in Int /\ e \in Int
      BY <1>7, DelayIs DEF Times
    <3> QED BY <2>2, <3>1, <3>2, <3>3
  <2> QED BY <1>6, <2>1, <2>2
<1> QED
  BY <1>15, <1>17 DEF Before, mt, mu

\* A time that is no later than a delay is put before what expires later than
\* that: the timer that TimerSet called, that expires at v.  What is in front, ...
LEMMA MisplacedBehind ==
  ASSUME SomeTimer, NEW c \in Times, NEW delay \in Delays, NEW dis \in BOOLEAN,
         NEW v \in Times, Waits(c, v),
         NEW p \in Times, InWindow(c, p, dis), Signed(p - delay) <= 0
  PROVE  Before(p, v, TRUE)
<1>0. PICK dv \in Delays : v < dv /\ Signed(c - v) >= -dv /\ v + Signed(c - v) < MaxNested
  BY DEF Waits
<1>1. PICK d1 \in Delays : Signed(c - p) >= -d1
  BY DEF InWindow
<1> DEFINE cp == Signed(c - p)
<1> DEFINE cv == Signed(c - v)
<1> DEFINE pd == Signed(p - delay)
<1> DEFINE pv == Signed(p - v)
<1>2. PICK e1 \in Delays : cp <= MaxLag \/ (p < e1 /\ (cp < MaxNested \/ cp <= MaxLag + e1))
  BY DEF InWindow
<1>3. /\ delay \in Int /\ delay > 0 /\ 2 * (2 * delay + MaxLag) < W
      /\ 2 * (delay + MaxLag + MaxNested + 1) < W
      /\ d1 \in Int /\ d1 > 0 /\ 2 * (2 * d1 + MaxLag) < W /\ 2 * (d1 + MaxLag + MaxNested + 1) < W
      /\ dv \in Int /\ dv > 0 /\ 2 * (2 * dv + MaxLag) < W /\ 2 * (dv + MaxLag + MaxNested + 1) < W
      /\ e1 \in Int /\ e1 > 0 /\ 2 * (2 * e1 + MaxLag) < W /\ 2 * (e1 + MaxLag + MaxNested + 1) < W
      /\ MaxLag \in Nat /\ MaxNested \in Nat /\ MaxNested > 0
  BY DelayIs DEF Times
<1>4. /\ W \in Int /\ c \in Int /\ p \in Int /\ v \in Int
      /\ 0 <= c /\ c < W /\ 0 <= p /\ p < W /\ 0 <= v /\ v < W
  BY WidthAssumption DEF Times
<1>5. /\ cp \in Int /\ -W <= 2 * cp /\ 2 * cp < W
      /\ (cp = c - p \/ cp = c - p + W \/ cp = c - p - W)
  BY SignedIs
<1>6. /\ cv \in Int /\ -W <= 2 * cv /\ 2 * cv < W
      /\ (cv = c - v \/ cv = c - v + W \/ cv = c - v - W)
  BY SignedIs
<1>7. /\ pd \in Int /\ -W <= 2 * pd /\ 2 * pd < W
      /\ (pd = p - delay \/ pd = p - delay + W \/ pd = p - delay - W)
  BY SignedIs, DelayIs
<1>8. /\ pv \in Int /\ -W <= 2 * pv /\ 2 * pv < W
      /\ (pv = p - v \/ pv = p - v + W \/ pv = p - v - W)
  BY SignedIs
<1>9. cp >= -d1 /\ cv >= -dv /\ v + cv < MaxNested /\ pd <= 0 /\ v < dv
  BY <1>0, <1>1
<1> HIDE DEF cp, cv, pd, pv
<1>10. pv <= 0 \/ (v < p /\ p <= delay)
  <2>1. CASE p < e1
    <3>1. -W <= 2 * (p - delay) /\ 2 * (p - delay) < W
      BY <1>3, <1>4, <2>1
    <3>2. pd = p - delay
      BY <3>1, <1>3, <1>4, <1>7
    <3>3. -W <= 2 * (p - v) /\ 2 * (p - v) < W
      BY <1>3, <1>4, <1>9, <2>1
    <3>4. pv = p - v
      BY <3>3, <1>4, <1>8
    <3> QED BY <3>2, <3>4, <1>3, <1>4, <1>9
  <2>2. CASE cp <= MaxLag
    <3>1. -W <= 2 * (cv - cp) /\ 2 * (cv - cp) < W
      BY <2>2, <1>3, <1>4, <1>5, <1>6, <1>9
    <3>2. pv = cv - cp
      BY <3>1, <1>4, <1>5, <1>6, <1>8
    <3> QED
      BY <2>2, <3>2, <1>3, <1>4, <1>5, <1>6, <1>7, <1>8, <1>9
  <2> QED BY <1>2, <2>1, <2>2
<1> QED
  BY <1>10 DEF Before, pv

\* ... and what is behind it.
LEMMA MisplacedBefore ==
  ASSUME SomeTimer, NEW c \in Times, NEW delay \in Delays, NEW dis \in BOOLEAN,
         NEW v \in Times, Waits(c, v),
         NEW t \in Times, NEW u \in Times, InWindow(c, t, dis), InWindow(c, u, dis),
         Signed(t - delay) > 0, Before(t, u, dis)
  PROVE  Before(v, t, TRUE) /\ Before(v, u, TRUE)
<1>0. PICK dv \in Delays : v < dv /\ Signed(c - v) >= -dv /\ v + Signed(c - v) < MaxNested
  BY DEF Waits
<1>1. PICK d1 \in Delays : Signed(c - t) >= -d1
  BY DEF InWindow
<1>2. PICK d2 \in Delays : Signed(c - u) >= -d2
  BY DEF InWindow
<1> DEFINE ct == Signed(c - t)
<1> DEFINE cu == Signed(c - u)
<1> DEFINE cv == Signed(c - v)
<1> DEFINE td == Signed(t - delay)
<1> DEFINE vt == Signed(v - t)
<1> DEFINE vu == Signed(v - u)
<1> DEFINE tu == Signed(t - u)
<1>3. PICK e1 \in Delays : ct <= MaxLag \/ (t < e1 /\ (ct < MaxNested \/ ct <= MaxLag + e1))
  BY DEF InWindow
<1>4. PICK e2 \in Delays : cu <= MaxLag \/ (u < e2 /\ (cu < MaxNested \/ cu <= MaxLag + e2))
  BY DEF InWindow
<1>5. PICK e3 \in Delays : tu <= 0 \/ (u < t /\ t <= e3)
  BY DEF Before
<1>6. /\ delay \in Int /\ delay > 0 /\ 2 * (2 * delay + MaxLag) < W
      /\ 2 * (delay + MaxLag + MaxNested + 1) < W
      /\ dv \in Int /\ dv > 0 /\ 2 * (2 * dv + MaxLag) < W /\ 2 * (dv + MaxLag + MaxNested + 1) < W
      /\ d1 \in Int /\ d1 > 0 /\ 2 * (2 * d1 + MaxLag) < W /\ 2 * (d1 + MaxLag + MaxNested + 1) < W
      /\ d2 \in Int /\ d2 > 0 /\ 2 * (2 * d2 + MaxLag) < W /\ 2 * (d2 + MaxLag + MaxNested + 1) < W
      /\ e1 \in Int /\ e1 > 0 /\ 2 * (2 * e1 + MaxLag) < W /\ 2 * (e1 + MaxLag + MaxNested + 1) < W
      /\ e2 \in Int /\ e2 > 0 /\ 2 * (2 * e2 + MaxLag) < W /\ 2 * (e2 + MaxLag + MaxNested + 1) < W
      /\ e3 \in Int /\ e3 > 0 /\ 2 * (2 * e3 + MaxLag) < W /\ 2 * (e3 + MaxLag + MaxNested + 1) < W
      /\ MaxLag \in Nat /\ MaxNested \in Nat /\ MaxNested > 0
  BY DelayIs DEF Times
<1>7. /\ W \in Int /\ c \in Int /\ t \in Int /\ u \in Int /\ v \in Int
      /\ 0 <= c /\ c < W /\ 0 <= t /\ t < W /\ 0 <= u /\ u < W /\ 0 <= v /\ v < W
  BY WidthAssumption DEF Times
<1>8. /\ ct \in Int /\ -W <= 2 * ct /\ 2 * ct < W
      /\ (ct = c - t \/ ct = c - t + W \/ ct = c - t - W)
  BY SignedIs
<1>9. /\ cu \in Int /\ -W <= 2 * cu /\ 2 * cu < W
      /\ (cu = c - u \/ cu = c - u + W \/ cu = c - u - W)
  BY SignedIs
<1>10. /\ cv \in Int /\ -W <= 2 * cv /\ 2 * cv < W
       /\ (cv = c - v \/ cv = c - v + W \/ cv = c - v - W)
  BY SignedIs
<1>11. /\ td \in Int /\ -W <= 2 * td /\ 2 * td < W
       /\ (td = t - delay \/ td = t - delay + W \/ td = t - delay - W)
  BY SignedIs, DelayIs
<1>12. /\ vt \in Int /\ -W <= 2 * vt /\ 2 * vt < W
       /\ (vt = v - t \/ vt = v - t + W \/ vt = v - t - W)
  BY SignedIs
<1>13. /\ vu \in Int /\ -W <= 2 * vu /\ 2 * vu < W
       /\ (vu = v - u \/ vu = v - u + W \/ vu = v - u - W)
  BY SignedIs
<1>14. /\ tu \in Int /\ -W <= 2 * tu /\ 2 * tu < W
       /\ (tu = t - u \/ tu = t - u + W \/ tu = t - u - W)
  BY SignedIs
<1>15. td > 0 /\ ct >= -d1 /\ cu >= -d2 /\ cv >= -dv /\ v + cv < MaxNested /\ v < dv
  BY <1>0, <1>1, <1>2
<1> HIDE DEF ct, cu, cv, td, vt, vu, tu
<1>16. vt <= 0 \/ (t < v /\ v <= dv)
  <2>1. CASE t < e1
    <3>1. -W <= 2 * (v - t) /\ 2 * (v - t) < W
      BY <1>6, <1>7, <1>15, <2>1
    <3>2. vt = v - t
      BY <3>1, <1>7, <1>12
    <3> QED BY <3>2, <1>6, <1>7, <1>15
  <2>2. CASE ct <= MaxLag
    <3>1. -W <= 2 * (ct - cv) /\ 2 * (ct - cv) < W
      BY <2>2, <1>6, <1>7, <1>8, <1>10, <1>15
    <3>2. vt = ct - cv
      BY <3>1, <1>7, <1>8, <1>10, <1>12
    <3> QED
      BY <2>2, <3>2, <1>6, <1>7, <1>8, <1>10, <1>11, <1>12, <1>15
  <2> QED BY <1>3, <2>1, <2>2
<1>17. vu <= 0 \/ (u < v /\ v <= dv)
  <2>1. CASE u < e2 \/ u < e3
    <3>1. -W <= 2 * (v - u) /\ 2 * (v - u) < W
      BY <1>6, <1>7, <1>15, <2>1
    <3>2. vu = v - u
      BY <3>1, <1>7, <1>13
    <3> QED BY <3>2, <1>6, <1>7, <1>15
  <2>2. CASE cu <= MaxLag /\ tu <= 0
    <3>1. -W <= 2 * (cu - cv) /\ 2 * (cu - cv) < W
      BY <2>2, <1>6, <1>7, <1>9, <1>10, <1>15
    <3>2. vu = cu - cv
      BY <3>1, <1>7, <1>9, <1>10, <1>13
    <3>3. ct <= MaxLag \/ ct < MaxNested \/ ct <= MaxLag + e1
      BY <1>3
    <3>4. -W <= 2 * (cu - ct) /\ 2 * (cu - ct) < W
      BY <2>2, <3>3, <1>6, <1>7, <1>8, <1>9, <1>15
    <3>5. tu = cu - ct
      BY <3>4, <1>7, <1>8, <1>9, <1>14
    <3>6. CASE t < e1
      <4>1. -W <= 2 * (t - delay) /\ 2 * (t - delay) < W
        BY <1>6, <1>7, <3>6
      <4>2. td = t - delay
        BY <4>1, <1>6, <1>7, <1>11
      <4> QED
        BY <2>2, <3>2, <3>5, <3>6, <4>2, <1>6, <1>7, <1>8, <1>9, <1>10, <1>13, <1>15
    <3>7. CASE ct <= MaxLag
      <4>1. -W <= 2 * (ct - cv) /\ 2 * (ct - cv) < W
        BY <3>7, <1>6, <1>7, <1>8, <1>10, <1>15
      <4>2. vt = ct - cv
        BY <4>1, <1>7, <1>8, <1>10, <1>12
      <4> QED
        BY <2>2, <3>2, <3>5, <3>7, <4>2, <1>6, <1>7, <1>8, <1>9, <1>10, <1>11,
           <1>12, <1>13, <1>15, <1>16
    <3> QED BY <1>3, <3>6, <3>7
  <2> QED
    <3>1. u < e3 \/ tu <= 0
      BY <1>5, <1>6, <1>7
    <3> QED BY <1>4, <3>1, <2>1, <2>2
<1> QED
  BY <1>16, <1>17 DEF Before, vt, vu
\* It has just been set, ...
LEMMA SetInWindow ==
  ASSUME SomeTimer, NEW c \in Times, NEW d \in Delays, NEW dis \in BOOLEAN,
         NEW m \in Times, m = c + d
  PROVE  InWindow(c, m, dis)
<1> DEFINE cm == Signed(c - m)
<1>1. /\ d \in Int /\ d > 0 /\ 2 * (2 * d + MaxLag) < W /\ MaxLag \in Nat
  BY DelayIs DEF Times
<1>2. /\ W \in Int /\ c \in Int /\ m \in Int /\ m = c + d
      /\ 0 <= c /\ c < W /\ 0 <= m /\ m < W
  BY WidthAssumption DEF Times
<1>3. /\ cm \in Int /\ -W <= 2 * cm /\ 2 * cm < W
      /\ (cm = c - m \/ cm = c - m + W \/ cm = c - m - W)
  BY SignedIs
<1> HIDE DEF cm
<1>4. cm = -d
  BY <1>1, <1>2, <1>3
<1>5. cm >= -d /\ cm <= MaxLag
  BY <1>1, <1>4
<1> QED
  BY <1>5 DEF InWindow, cm

\* ... or the sum has wrapped, ...
LEMMA CalledInWindow ==
  ASSUME SomeTimer, NEW c \in Times, NEW d \in Delays,
         NEW m, m = (c + d) % W, m <= c
  PROVE  m \in Times /\ m < d /\ Signed(c - m) >= -d /\ m + Signed(c - m) < 0
<1> DEFINE cm == Signed(c - m)
<1>1. /\ d \in Int /\ d > 0 /\ 2 * (2 * d + MaxLag) < W /\ MaxLag \in Nat
  BY DelayIs DEF Times
<1>2. /\ W \in Int /\ c \in Int /\ 0 <= c /\ c < W /\ W > 0
  BY WidthAssumption DEF Times
<1>3. m = IF c + d < W THEN c + d ELSE c + d - W
  BY <1>1, <1>2
<1>4. m \in Int /\ m = c + d - W
  BY <1>1, <1>2, <1>3
<1>5. m \in Times
  BY <1>1, <1>2, <1>4 DEF Times
<1>6. /\ cm \in Int /\ -W <= 2 * cm /\ 2 * cm < W
      /\ (cm = c - m \/ cm = c - m + W \/ cm = c - m - W)
  BY <1>5, SignedIs
<1> HIDE DEF cm
<1>7. cm = -d
  BY <1>1, <1>2, <1>4, <1>6
<1>8. m < d /\ cm >= -d /\ m + cm < 0
  BY <1>1, <1>2, <1>4, <1>7
<1> QED
  BY <1>5, <1>8 DEF cm

\* ... or it has not.
LEMMA NotWrapped ==
  ASSUME SomeTimer, NEW c \in Times, NEW d \in Delays,
         NEW m, m = (c + d) % W, ~(m <= c)
  PROVE  m \in Times /\ m = c + d
<1>1. /\ d \in Int /\ d > 0 /\ 2 * (2 * d + MaxLag) < W /\ MaxLag \in Nat
  BY DelayIs DEF Times
<1>2. /\ W \in Int /\ c \in Int /\ 0 <= c /\ c < W /\ W > 0
  BY WidthAssumption DEF Times
<1>3. m = IF c + d < W THEN c + d ELSE c + d - W
  BY <1>1, <1>2
<1> QED
  BY <1>1, <1>2, <1>3, WidthAssumption DEF Times

\* A timer that TimerSet called, when it is put into the list.
LEMMA MisplacedInWindow ==
  ASSUME SomeTimer, NEW c \in Times, NEW v \in Times, Waits(c, v)
  PROVE  InWindow(c, v, TRUE)
<1>0. PICK dv \in Delays : v < dv /\ Signed(c - v) >= -dv /\ v + Signed(c - v) < MaxNested
  BY DEF Waits
<1> DEFINE cv == Signed(c - v)
<1>1. cv \in Int /\ MaxNested \in Nat
  BY SignedIs, DelayIs
<1>2. cv >= -dv /\ v < dv /\ v + cv < MaxNested
  BY <1>0
<1>3. v \in Int /\ v >= 0
  BY WidthAssumption DEF Times
<1> HIDE DEF cv
<1>4. cv < MaxNested
  BY <1>1, <1>2, <1>3
<1> QED
  BY <1>2, <1>4 DEF InWindow, cv

\* The clock goes on.
LEMMA ClockGoes ==
  ASSUME NEW c \in Times
  PROVE  /\ (c + 1) % W \in Times
         /\ (c + 1) % W = c + 1 \/ (c + 1) % W = c + 1 - W
<1> DEFINE m == (c + 1) % W
<1>1. /\ W \in Int /\ c \in Int /\ 0 <= c /\ c < W /\ W > 1
  BY WidthAssumption DEF Times
<1>2. m = IF c + 1 < W THEN c + 1 ELSE c + 1 - W
  BY <1>1
<1> HIDE DEF m
<1>3. m \in Int /\ 0 <= m /\ m < W /\ (m = c + 1 \/ m = c + 1 - W)
  BY <1>1, <1>2
<1>4. m \in Times
  BY <1>3, WidthAssumption DEF Times
<1> QED
  BY <1>3, <1>4 DEF m

\* The head, which expires at h, is not late: no timer behind it is.
LEMMA TickInWindow ==
  ASSUME SomeTimer, NEW c \in Times, NEW dis \in BOOLEAN, NEW h \in Times,
         InWindow(c, h, dis), Signed(c - h) < MaxLag,
         NEW t \in Times, InWindow(c, t, dis), t = h \/ Before(h, t, dis)
  PROVE  InWindow((c + 1) % W, t, dis)
<1> DEFINE n == (c + 1) % W
<1> DEFINE ch == Signed(c - h)
<1> DEFINE ct == Signed(c - t)
<1> DEFINE nt == Signed(n - t)
<1> DEFINE ht == Signed(h - t)
<1>1. PICK d1 \in Delays : ch >= -d1
  BY DEF InWindow
<1>2. PICK d2 \in Delays : ct >= -d2
  BY DEF InWindow
<1>3. PICK e2 \in Delays : ct <= MaxLag \/ (t < e2 /\ (ct < MaxNested \/ ct <= MaxLag + e2))
  BY DEF InWindow
<1>4. PICK e3 \in Delays : t = h \/ ht <= 0 \/ (dis /\ t < h /\ h <= e3)
  BY DEF Before
<1>5. /\ d1 \in Int /\ d1 > 0 /\ 2 * (2 * d1 + MaxLag) < W /\ 2 * (d1 + MaxLag + MaxNested + 1) < W
      /\ d2 \in Int /\ d2 > 0 /\ 2 * (2 * d2 + MaxLag) < W /\ 2 * (d2 + MaxLag + MaxNested + 1) < W
      /\ e2 \in Int /\ e2 > 0 /\ 2 * (2 * e2 + MaxLag) < W /\ 2 * (e2 + MaxLag + MaxNested + 1) < W
      /\ e3 \in Int /\ e3 > 0 /\ 2 * (2 * e3 + MaxLag) < W /\ 2 * (e3 + MaxLag + MaxNested + 1) < W
      /\ MaxLag \in Nat /\ MaxNested \in Nat /\ MaxNested > 0
  BY DelayIs DEF Times
<1>6. /\ n \in Times /\ (n = c + 1 \/ n = c + 1 - W)
  BY ClockGoes
<1> HIDE DEF n
<1>7. /\ W \in Int /\ c \in Int /\ t \in Int /\ h \in Int /\ n \in Int
      /\ 0 <= c /\ c < W /\ 0 <= t /\ t < W /\ 0 <= h /\ h < W /\ 0 <= n /\ n < W
  BY <1>6, WidthAssumption DEF Times
<1>8. /\ ct \in Int /\ -W <= 2 * ct /\ 2 * ct < W
      /\ (ct = c - t \/ ct = c - t + W \/ ct = c - t - W)
  BY SignedIs
<1>9. /\ ch \in Int /\ -W <= 2 * ch /\ 2 * ch < W
      /\ (ch = c - h \/ ch = c - h + W \/ ch = c - h - W)
  BY SignedIs
<1>10. /\ nt \in Int /\ -W <= 2 * nt /\ 2 * nt < W
       /\ (nt = n - t \/ nt = n - t + W \/ nt = n - t - W)
  BY <1>6, SignedIs
<1>11. /\ ht \in Int /\ -W <= 2 * ht /\ 2 * ht < W
       /\ (ht = h - t \/ ht = h - t + W \/ ht = h - t - W)
  BY SignedIs
<1>12. ch < MaxLag /\ ch >= -d1 /\ ct >= -d2
  BY <1>1, <1>2
<1>13. t = h => ch = ct
  OBVIOUS
<1> HIDE DEF ch, ct, nt, ht
<1>14. ct <= MaxLag \/ ct < MaxNested \/ ct <= MaxLag + e2
  BY <1>3
<1>15. nt = ct + 1
  BY <1>5, <1>6, <1>7, <1>8, <1>10, <1>12, <1>14
<1>16. -W <= 2 * (ct - ch) /\ 2 * (ct - ch) < W
  BY <1>5, <1>7, <1>8, <1>9, <1>12, <1>14
<1>17. ht = ct - ch
  BY <1>7, <1>8, <1>9, <1>11, <1>16
<1>18. CASE t = h \/ ht <= 0
  <2>1. nt >= -d2 /\ nt <= MaxLag
    BY <1>5, <1>7, <1>8, <1>9, <1>12, <1>13, <1>15, <1>17, <1>18
  <2> QED
    BY <2>1 DEF InWindow, nt, n
<1>19. CASE dis /\ t < h /\ h <= e3
  <2>1. -W <= 2 * (h - t) /\ 2 * (h - t) < W
    BY <1>5, <1>7, <1>19
  <2>2. ht = h - t
    BY <2>1, <1>7, <1>11
  <2>3. nt >= -d2 /\ t < e3 /\ nt <= MaxLag + e3
    BY <2>2, <1>5, <1>7, <1>8, <1>9, <1>12, <1>15, <1>17, <1>19
  <2> QED
    BY <2>3, <1>19 DEF InWindow, nt, n
<1> QED
  BY <1>4, <1>18, <1>19

\* A timer that waits in a call.
LEMMA TickCalled ==
  ASSUME SomeTimer, NEW c \in Times, NEW v \in Times, Waits(c, v)
  PROVE  Signed(((c + 1) % W) - v) = Signed(c - v) + 1
<1>0. PICK dv \in Delays : v < dv /\ Signed(c - v) >= -dv /\ v + Signed(c - v) < MaxNested
  BY DEF Waits
<1> DEFINE n == (c + 1) % W
<1> DEFINE cv == Signed(c - v)
<1> DEFINE nv == Signed(n - v)
<1>1. /\ dv \in Int /\ dv > 0 /\ 2 * (2 * dv + MaxLag) < W /\ 2 * (dv + MaxLag + MaxNested + 1) < W
      /\ MaxLag \in Nat /\ MaxNested \in Nat /\ MaxNested > 0
  BY DelayIs DEF Times
<1>2. /\ n \in Times /\ (n = c + 1 \/ n = c + 1 - W)
  BY ClockGoes
<1> HIDE DEF n
<1>3. /\ W \in Int /\ c \in Int /\ v \in Int /\ n \in Int
      /\ 0 <= c /\ c < W /\ 0 <= v /\ v < W /\ 0 <= n /\ n < W
  BY <1>2, WidthAssumption DEF Times
<1>4. /\ cv \in Int /\ -W <= 2 * cv /\ 2 * cv < W
      /\ (cv = c - v \/ cv = c - v + W \/ cv = c - v - W)
  BY SignedIs
<1>5. /\ nv \in Int /\ -W <= 2 * nv /\ 2 * nv < W
      /\ (nv = n - v \/ nv = n - v + W \/ nv = n - v - W)
  BY <1>2, SignedIs
<1>6. cv >= -dv /\ v + cv < MaxNested /\ v < dv
  BY <1>0
<1> HIDE DEF cv, nv
<1>7. nv = cv + 1
  BY <1>1, <1>2, <1>3, <1>4, <1>5, <1>6
<1> QED
  BY <1>7 DEF nv, cv, n

-----------------------------------------------------------------------------
\* The timers of a list, which expire at e, seen at the time c.
InOrder(list, c, e, dis) ==
  /\ \A i \in 1 .. Len(list) : InWindow(c, e[list[i]], dis)
  /\ \A i, j \in 1 .. Len(list) : i < j => Before(e[list[i]], e[list[j]], dis)

\* One is gone, and what becomes of it does not matter; ...
LEMMA UnlinkInOrder ==
  ASSUME timers \in Seq(OsTimers), IsInjective(timers), NEW x, NEW c, NEW dis,
         InOrder(timers, c, expires, dis),
         NEW f, \A y \in OsTimers : y # x => f[y] = expires[y]
  PROVE  InOrder(Unlink(x), c, f, dis)
<1>1. \A k \in 1 .. Len(timers) : timers[k] \in OsTimers
  OBVIOUS
<1>2. CASE x \notin ToSet(timers)
  <2>1. \A k \in 1 .. Len(timers) : timers[k] # x
    BY <1>2 DEF ToSet
  <2>2. \A k \in 1 .. Len(timers) : f[timers[k]] = expires[timers[k]]
    BY <1>1, <2>1
  <2>3. Unlink(x) = timers
    BY <1>2 DEF Unlink
  <2> QED
    BY <2>2, <2>3 DEF InOrder
<1>3. CASE x \in ToSet(timers)
  <2> DEFINE list == Unlink(x)
  <2>1. PICK i \in 1 .. Len(timers) :
          /\ timers[i] = x
          /\ list \in Seq(OsTimers) /\ Len(list) = Len(timers) - 1
          /\ \A k \in 1 .. Len(timers) - 1 :
               list[k] = IF k < i THEN timers[k] ELSE timers[k + 1]
    BY <1>3, UnlinkIs
  <2> HIDE DEF list
  <2>2. \A k \in 1 .. Len(timers) : k # i => timers[k] # x
    BY <2>1 DEF IsInjective
  <2> DEFINE at(k) == IF k < i THEN k ELSE k + 1
  <2>3. \A k \in 1 .. Len(list) :
          at(k) \in 1 .. Len(timers) /\ list[k] = timers[at(k)] /\ at(k) # i
    BY <2>1
  <2>4. \A k, l \in 1 .. Len(list) : k < l => at(k) < at(l)
    BY <2>1
  <2> HIDE DEF at
  <2>5. \A k \in 1 .. Len(list) : f[list[k]] = expires[timers[at(k)]]
    BY <1>1, <2>2, <2>3
  <2>6. \A k \in 1 .. Len(list) : InWindow(c, f[list[k]], dis)
    BY <2>3, <2>5 DEF InOrder
  <2>7. \A k, l \in 1 .. Len(list) : k < l => Before(f[list[k]], f[list[l]], dis)
    <3>1. SUFFICES ASSUME NEW k \in 1 .. Len(list), NEW l \in 1 .. Len(list), k < l
                   PROVE  Before(f[list[k]], f[list[l]], dis)
      OBVIOUS
    <3>2. Before(expires[timers[at(k)]], expires[timers[at(l)]], dis)
      BY <2>3, <2>4, <3>1 DEF InOrder
    <3> QED
      BY <2>5, <3>2
  <2>8. InOrder(list, c, f, dis)
    BY <2>6, <2>7 DEF InOrder
  <2> QED
    BY <2>8 DEF list
<1> QED
  BY <1>2, <1>3

\* ... and one is put where it goes, or elsewhere.
LEMMA InsertInOrder ==
  ASSUME NEW list \in Seq(OsTimers), NEW n \in 0 .. Len(list),
         NEW x \in OsTimers \ ToSet(list), NEW new, new = InsertAt(list, n + 1, x),
         NEW c, NEW f, NEW dis, InOrder(list, c, f, dis),
         InWindow(c, f[x], dis),
         \A i \in 1 .. n : Before(f[list[i]], f[x], dis),
         \A i \in n + 1 .. Len(list) : Before(f[x], f[list[i]], dis)
  PROVE  InOrder(new, c, f, dis)
<1>1. /\ new \in Seq(OsTimers) /\ Len(new) = Len(list) + 1
      /\ \A k \in 1 .. Len(list) + 1 :
           new[k] = IF k <= n THEN list[k] ELSE IF k = n + 1 THEN x ELSE list[k - 1]
  BY InsertedIs DEF Inserted
<1>2. \A i \in 1 .. Len(list) : InWindow(c, f[list[i]], dis)
  BY DEF InOrder, InWindow
<1>3. \A i, j \in 1 .. Len(list) : i < j => Before(f[list[i]], f[list[j]], dis)
  BY DEF InOrder, Before
<1>4. Len(list) \in Nat /\ n \in Nat /\ n <= Len(list)
  OBVIOUS
<1>5. ASSUME NEW k \in 1 .. Len(new)
      PROVE  InWindow(c, f[new[k]], dis)
  <2>1. CASE k <= n
    BY <1>1, <1>2, <1>4, <2>1
  <2>2. CASE k = n + 1
    BY <1>1, <2>2
  <2>3. CASE k > n + 1
    <3>1. k - 1 \in 1 .. Len(list) /\ new[k] = list[k - 1]
      BY <1>1, <1>4, <2>3
    <3> QED BY <1>2, <3>1
  <2> QED BY <1>4, <2>1, <2>2, <2>3
<1>6. ASSUME NEW k \in 1 .. Len(new), NEW l \in 1 .. Len(new), k < l
      PROVE  Before(f[new[k]], f[new[l]], dis)
  <2>1. CASE l <= n
    <3>1. k \in 1 .. Len(list) /\ l \in 1 .. Len(list) /\ k <= n
      BY <1>1, <1>4, <1>6, <2>1
    <3>2. new[k] = list[k] /\ new[l] = list[l]
      BY <1>1, <1>4, <2>1, <3>1
    <3> QED BY <1>3, <1>6, <3>1, <3>2
  <2>2. CASE l = n + 1
    <3>1. k \in 1 .. n /\ new[k] = list[k] /\ new[l] = x
      BY <1>1, <1>4, <1>6, <2>2
    <3> QED BY <3>1
  <2>3. CASE l > n + 1 /\ k <= n
    <3>1. /\ k \in 1 .. Len(list) /\ l - 1 \in 1 .. Len(list) /\ k < l - 1
          /\ new[k] = list[k] /\ new[l] = list[l - 1]
      BY <1>1, <1>4, <1>6, <2>3
    <3> QED BY <1>3, <3>1
  <2>4. CASE l > n + 1 /\ k = n + 1
    <3>1. l - 1 \in n + 1 .. Len(list) /\ new[k] = x /\ new[l] = list[l - 1]
      BY <1>1, <1>4, <1>6, <2>4
    <3> QED BY <3>1
  <2>5. CASE l > n + 1 /\ k > n + 1
    <3>1. /\ k - 1 \in 1 .. Len(list) /\ l - 1 \in 1 .. Len(list) /\ k - 1 < l - 1
          /\ new[k] = list[k - 1] /\ new[l] = list[l - 1]
      BY <1>1, <1>4, <1>6, <2>5
    <3> QED BY <1>3, <3>1
  <2> QED BY <1>4, <2>1, <2>2, <2>3, <2>4, <2>5
<1> QED
  BY <1>5, <1>6 DEF InOrder

\* TimerSet puts a timer where it goes.
LEMMA SetInOrder ==
  ASSUME NEW list \in Seq(OsTimers), IsInjective(list), NEW x \in OsTimers \ ToSet(list),
         NEW c \in Times, NEW d \in Delays, NEW m \in Times, m = c + d, NEW dis \in BOOLEAN,
         NEW f \in [OsTimers -> Times], f[x] = m,
         \A y \in OsTimers : y # x => f[y] = expires[y],
         InOrder(list, c, f, dis), Insert(list, x, m)
  PROVE  InOrder(timers', c, f, dis)
<1>1. PICK n \in 0 .. Len(list) :
        /\ \A i \in 1 .. n : Signed(expires[list[i]] - m) <= 0
        /\ n < Len(list) => Signed(expires[list[n + 1]] - m) > 0
        /\ timers' = InsertAt(list, n + 1, x)
  BY DEF Insert
<1>2. \A i \in 1 .. Len(list) : list[i] \in OsTimers /\ list[i] # x
  BY DEF ToSet
<1>3. \A i \in 1 .. Len(list) : f[list[i]] = expires[list[i]] /\ f[list[i]] \in Times
  BY <1>2
<1>4. InWindow(c, f[x], dis)
  BY SetInWindow DEF SomeTimer
<1>5. \A i \in 1 .. n : Before(f[list[i]], f[x], dis)
  BY <1>1, <1>3 DEF Before
<1>6. ASSUME NEW i \in n + 1 .. Len(list)
      PROVE  Before(f[x], f[list[i]], dis)
  <2>0. SomeTimer
    BY DEF SomeTimer
  <2> DEFINE t == f[list[n + 1]]
  <2> DEFINE u == f[list[i]]
  <2>1. /\ n + 1 \in 1 .. Len(list) /\ i \in 1 .. Len(list) /\ n < Len(list)
        /\ (n + 1 = i \/ n + 1 < i)
    BY <1>6
  <2>2. /\ t \in Times /\ u \in Times /\ InWindow(c, t, dis) /\ InWindow(c, u, dis)
        /\ Signed(t - m) > 0
    BY <1>1, <1>3, <2>1 DEF InOrder
  <2>3. i # n + 1 => Before(t, u, dis)
    BY <2>1 DEF InOrder
  <2>4. i = n + 1 => u = t
    OBVIOUS
  <2> HIDE DEF t, u
  <2>5. Before(t, t, dis)
    <3>1. t - t = 0
      BY <2>2, WidthAssumption DEF Times
    <3>2. 0 % W = 0 /\ 0 < W \div 2
      BY WidthAssumption
    <3>3. Signed(t - t) = 0
      BY <3>1, <3>2 DEF Signed
    <3> QED
      BY <3>3 DEF Before
  <2>6. Before(m, t, dis)
    BY <2>2, <2>5, <2>0, SetBehind
  <2>7. i # n + 1 => Before(m, u, dis)
    BY <2>2, <2>3, <2>0, SetBehind
  <2>8. Before(m, u, dis)
    BY <2>4, <2>6, <2>7
  <2> QED
    BY <2>8 DEF u
<1> DEFINE new == timers'
<1>7. new = InsertAt(list, n + 1, x)
  BY <1>1
<1> HIDE DEF new
<1>8. \A i \in n + 1 .. Len(list) : Before(f[x], f[list[i]], dis)
  BY <1>6
<1>9. x \in OsTimers /\ x \notin ToSet(list) /\ list \in Seq(OsTimers)
  OBVIOUS
<1>10. n \in 0 .. Len(list)
  OBVIOUS
<1>11. InOrder(list, c, f, dis)
  OBVIOUS
<1>12. InOrder(new, c, f, dis)
  BY <1>4, <1>5, <1>7, <1>8, <1>9, <1>10, <1>11, InsertInOrder
<1> QED
  BY <1>12 DEF new

LEMMA StillInOrder ==
  ASSUME NEW list, NEW c, NEW f, NEW dis \in BOOLEAN, InOrder(list, c, f, dis)
  PROVE  InOrder(list, c, f, TRUE)
BY DEF InOrder, InWindow, Before

\* What TimerSet called is put anywhere.
LEMMA MisplacedInOrder ==
  ASSUME ListOK(timers), expires \in [OsTimers -> Times], NEW x \in OsTimers \ ToSet(timers),
         NEW c \in Times, NEW delay \in Delays, NEW dis \in BOOLEAN,
         Waits(c, expires[x]),
         InOrder(timers, c, expires, dis), Insert(timers, x, delay)
  PROVE  InOrder(timers', c, expires, TRUE)
<1>1. PICK n \in 0 .. Len(timers) :
        /\ \A i \in 1 .. n : Signed(expires[timers[i]] - delay) <= 0
        /\ n < Len(timers) => Signed(expires[timers[n + 1]] - delay) > 0
        /\ timers' = InsertAt(timers, n + 1, x)
  BY DEF Insert
<1> DEFINE v == expires[x]
<1>2. \A i \in 1 .. Len(timers) : expires[timers[i]] \in Times
  BY DEF ListOK
<1>3. v \in Times
  OBVIOUS
<1>4. InWindow(c, v, TRUE)
  BY <1>3, MisplacedInWindow DEF SomeTimer
<1>5. ASSUME NEW i \in 1 .. n
      PROVE  Before(expires[timers[i]], v, TRUE)
  <2> DEFINE p == expires[timers[i]]
  <2>1. i \in 1 .. Len(timers)
    BY DEF ListOK
  <2>2. p \in Times /\ InWindow(c, p, dis) /\ Signed(p - delay) <= 0
    BY <1>1, <1>2, <2>1 DEF InOrder
  <2>3. Waits(c, v) /\ SomeTimer
    BY DEF SomeTimer
  <2> HIDE DEF p, v
  <2>4. Before(p, v, TRUE)
    BY <1>3, <2>2, <2>3, MisplacedBehind
  <2> QED
    BY <2>4 DEF p
<1>6. ASSUME NEW i \in n + 1 .. Len(timers)
      PROVE  Before(v, expires[timers[i]], TRUE)
  <2> DEFINE t == expires[timers[n + 1]]
  <2> DEFINE u == expires[timers[i]]
  <2>1. /\ n + 1 \in 1 .. Len(timers) /\ i \in 1 .. Len(timers) /\ n < Len(timers)
        /\ (n + 1 = i \/ n + 1 < i)
    BY <1>6 DEF ListOK
  <2>2. t \in Times
    BY <1>2, <2>1
  <2>11. u \in Times
    BY <1>2, <2>1
  <2>12. InWindow(c, t, dis)
    BY <2>1 DEF InOrder
  <2>13. InWindow(c, u, dis)
    BY <2>1 DEF InOrder
  <2>10. Signed(t - delay) > 0
    BY <1>1, <2>1
  <2>3. i # n + 1 => Before(t, u, dis)
    BY <2>1 DEF InOrder
  <2>4. i = n + 1 => u = t
    OBVIOUS
  <2>5. Waits(c, v)
    OBVIOUS
  <2>14. SomeTimer
    BY DEF SomeTimer
  <2> HIDE DEF t, u, v
  <2>6. Before(t, t, dis)
    <3>1. t - t = 0
      BY <2>2, WidthAssumption DEF Times
    <3>2. 0 % W = 0 /\ 0 < W \div 2
      BY WidthAssumption
    <3>3. Signed(t - t) = 0
      BY <3>1, <3>2 DEF Signed
    <3> QED
      BY <3>3 DEF Before
  <2>7. Before(v, t, TRUE)
    BY <1>3, <2>2, <2>5, <2>6, <2>10, <2>12, <2>14, MisplacedBefore
  <2>8. ASSUME i # n + 1
        PROVE  Before(v, u, TRUE)
    <3>1. Before(t, u, dis)
      BY <2>3, <2>8
    <3> QED
      BY <1>3, <2>2, <2>5, <2>10, <2>11, <2>12, <2>13, <2>14, <3>1, MisplacedBefore
  <2>9. Before(v, u, TRUE)
    BY <2>4, <2>7, <2>8
  <2> QED
    BY <2>9 DEF u
<1> DEFINE new == timers'
<1>7. new = InsertAt(timers, n + 1, x)
  BY <1>1
<1> HIDE DEF new
<1>8. InOrder(timers, c, expires, TRUE)
  BY StillInOrder
<1>9. timers \in Seq(OsTimers) /\ \A i \in 1 .. n : Before(expires[timers[i]], expires[x], TRUE)
  BY <1>5 DEF ListOK
<1>10. \A i \in n + 1 .. Len(timers) : Before(expires[x], expires[timers[i]], TRUE)
  BY <1>6
<1> HIDE DEF v
<1>11. InOrder(new, c, expires, TRUE)
  BY <1>4, <1>7, <1>8, <1>9, <1>10, InsertInOrder DEF v
<1> QED
  BY <1>11 DEF new

-----------------------------------------------------------------------------
\* The calls, too, are in time.  A callback takes a tick at most, and only the
\* last one can call another: "left" is how often the clock can go on before a
\* call returns, if no other is made from within it, and Room what can be.  A timer
\* that TimerSet calls has the time it wrapped at, until it is linked.
Wrapped(c, v) == \E d \in Delays : v < d /\ Signed(c - v) >= -d
Since(c, v) == v + Signed(c - v)

Room(s) == IF s[1].acted THEN 0 ELSE MaxNested - Len(s)

InTimeAt(s, c, e, linked, left, i) ==
  /\ s[i].caller = "DoTimer" => i = Len(s)
  /\ i > 1 => s[i].acted
  /\ s[i].late \/ left[i] > 0
  /\ \A j \in 1 .. Len(s) : i < j => left[j] >= left[i] + (IF s[j].late THEN 0 ELSE 1)
  /\ s[i].caller = "TimerSet" /\ s[i].timer \notin linked =>
       /\ Wrapped(c, e[s[i].timer])
       /\ Since(c, e[s[i].timer]) + left[i] + Room(s) < MaxNested - Len(s) + i

InTime(s, c, e, linked) ==
  \E left \in [1 .. Len(s) -> Nat] :
    \A i \in 1 .. Len(s) : InTimeAt(s, c, e, linked, left, i)

SameCall(g, h) == g.timer = h.timer /\ g.caller = h.caller /\ g.late = h.late

LEMMA SinceIs ==
  ASSUME NEW c \in Times, NEW v \in Times
  PROVE  Since(c, v) \in Int
BY SignedIs, WidthAssumption DEF Since, Times

LEMMA SinceLeast ==
  ASSUME NEW c \in Times, NEW u \in Times, NEW v \in Times, Since(c, u) < 0
  PROVE  Since(c, u) <= Since(c, v)
<1> DEFINE a == Signed(c - u)
<1> DEFINE b == Signed(c - v)
<1>1. a \in Int /\ (a = c - u \/ a = c - u + W \/ a = c - u - W)
  BY SignedIs
<1>2. b \in Int /\ (b = c - v \/ b = c - v + W \/ b = c - v - W)
  BY SignedIs
<1>3. u + a < 0
  BY DEF Since
<1>4. W \in Nat /\ c \in 0 .. W - 1 /\ u \in 0 .. W - 1 /\ v \in 0 .. W - 1
  BY WidthAssumption DEF Times
<1> HIDE DEF a, b
<1>5. u + a = c - W
  BY <1>1, <1>3, <1>4
<1>6. c - W <= v + b
  BY <1>2, <1>4
<1> QED
  BY <1>5, <1>6 DEF Since, a, b

\* A callback that has not acted yet sets a timer, which TimerSet calls.
LEMMA PushedInTime ==
  ASSUME NEW c \in Times, NEW e \in [OsTimers -> Times], NEW f \in [OsTimers -> Times],
         NEW l, NEW k,
         NEW s, StackOK(s), Len(s) > 0, ~s[1].acted, Len(s) < MaxNested, InTime(s, c, e, l),
         \A i \in 1 .. Len(s) : s[i].timer \notin l,
         NEW x \in OsTimers,
         \A y \in OsTimers : y # x => f[y] = e[y],
         Wrapped(c, f[x]), Since(c, f[x]) < 0,
         NEW t, Len(t) = Len(s) + 1,
         t[1] = [timer |-> x, caller |-> "TimerSet", acted |-> FALSE, late |-> FALSE],
         \A i \in 1 .. Len(s) : SameCall(t[i + 1], s[i]) /\ t[i + 1].acted
  PROVE  InTime(t, c, f, k)
<1> DEFINE n == Len(s)
<1>1. n \in Nat /\ n > 0 /\ n < MaxNested /\ MaxNested \in Nat
  BY BoundsAssumption DEF StackOK
<1>2. \A i \in 1 .. n : s[i] \in Frames
  BY DEF StackOK
<1>3. PICK left \in [1 .. n -> Nat] : \A i \in 1 .. n : InTimeAt(s, c, e, l, left, i)
  BY DEF InTime
<1>4. Room(s) = MaxNested - n /\ Len(s) = n
  BY DEF Room
<1>5. Room(t) = MaxNested - (n + 1) /\ Len(t) = n + 1
  BY DEF Room
<1> HIDE DEF n
<1> DEFINE more == [i \in 1 .. n + 1 |-> IF i = 1 THEN 1 ELSE left[i - 1] + 1]
<1>6. more \in [1 .. n + 1 -> Nat]
  BY <1>1, <1>3
<1>7. more[1] = 1 /\ \A i \in 1 .. n : more[i + 1] = left[i] + 1
  BY <1>1
<1> HIDE DEF more
<1>8. InTimeAt(t, c, f, k, more, 1)
  <2>1. \A j \in 1 .. n + 1 : 1 < j => more[j] >= more[1] + (IF t[j].late THEN 0 ELSE 1)
    <3>1. ASSUME NEW i \in 1 .. n
          PROVE  more[i + 1] >= more[1] + (IF t[i + 1].late THEN 0 ELSE 1)
      <4>1. s[i].late \/ left[i] > 0
        BY <1>3 DEF InTimeAt
      <4>2. t[i + 1].late = s[i].late /\ left[i] \in Nat
        BY <1>3, <1>4 DEF SameCall
      <4> QED
        BY <1>7, <4>1, <4>2
    <3>2. SUFFICES ASSUME NEW j \in 1 .. n + 1, 1 < j
                   PROVE  more[j] >= more[1] + (IF t[j].late THEN 0 ELSE 1)
      OBVIOUS
    <3>3. j - 1 \in 1 .. n /\ (j - 1) + 1 = j
      BY <1>1, <3>2
    <3> QED
      BY <3>1, <3>3
  <2>2. Since(c, f[x]) + more[1] + Room(t) < MaxNested - Len(t) + 1
    <3>1. Since(c, f[x]) \in Int
      BY SinceIs
    <3> QED
      BY <1>1, <1>5, <1>7, <3>1
  <2> QED
    BY <1>5, <1>7, <2>1, <2>2 DEF InTimeAt
<1>9. ASSUME NEW i \in 1 .. n
      PROVE  InTimeAt(t, c, f, k, more, i + 1)
  <2>1. InTimeAt(s, c, e, l, left, i) /\ SameCall(t[i + 1], s[i]) /\ t[i + 1].acted
    BY <1>3, <1>4
  <2>2. s[i].timer \in OsTimers /\ s[i].timer \notin l
    BY <1>2, <1>4 DEF Frames
  <2>3. ASSUME Wrapped(c, e[s[i].timer])
        PROVE  /\ Wrapped(c, f[t[i + 1].timer])
               /\ Since(c, f[t[i + 1].timer]) <= Since(c, e[s[i].timer])
    <3>1. t[i + 1].timer = s[i].timer
      BY <2>1 DEF SameCall
    <3>2. CASE s[i].timer = x
      <4>1. e[x] \in Times /\ f[x] \in Times
        OBVIOUS
      <4>2. Since(c, f[x]) <= Since(c, e[x])
        BY <4>1, SinceLeast
      <4> QED
        BY <3>1, <3>2, <4>2
    <3>3. CASE s[i].timer # x
      <4>1. f[t[i + 1].timer] = e[s[i].timer]
        BY <2>2, <3>1, <3>3
      <4>2. Since(c, e[s[i].timer]) \in Int
        BY <2>2, SinceIs
      <4> QED
        BY <2>3, <4>1, <4>2
    <3> QED
      BY <3>2, <3>3
  <2>4. t[i + 1].caller = "DoTimer" => i + 1 = Len(t)
    BY <1>4, <1>5, <2>1 DEF InTimeAt, SameCall
  <2>5. t[i + 1].late \/ more[i + 1] > 0
    BY <1>3, <1>7
  <2>6. \A j \in 1 .. n + 1 :
          i + 1 < j => more[j] >= more[i + 1] + (IF t[j].late THEN 0 ELSE 1)
    <3>1. SUFFICES ASSUME NEW j \in 1 .. n + 1, i + 1 < j
                   PROVE  more[j] >= more[i + 1] + (IF t[j].late THEN 0 ELSE 1)
      OBVIOUS
    <3> DEFINE m == j - 1
    <3>2. m \in 1 .. n /\ m + 1 = j /\ i < m
      BY <1>1, <3>1
    <3> HIDE DEF m
    <3>3. left[m] >= left[i] + (IF s[m].late THEN 0 ELSE 1)
      BY <1>4, <2>1, <3>2 DEF InTimeAt
    <3>4. t[m + 1].late = s[m].late
      BY <1>4, <3>2 DEF SameCall
    <3>5. /\ more[m + 1] = left[m] + 1 /\ more[i + 1] = left[i] + 1
          /\ left[m] \in Nat /\ left[i] \in Nat
      BY <1>3, <1>7, <3>2
    <3>6. more[m + 1] >= more[i + 1] + (IF t[m + 1].late THEN 0 ELSE 1)
      BY <3>3, <3>4, <3>5
    <3> QED
      BY <3>2, <3>6
  <2>7. ASSUME t[i + 1].caller = "TimerSet"
        PROVE  /\ Wrapped(c, f[t[i + 1].timer])
               /\ Since(c, f[t[i + 1].timer]) + more[i + 1] + Room(t) < MaxNested - Len(t) + (i + 1)
    <3>1. s[i].caller = "TimerSet"
      BY <2>1, <2>7 DEF SameCall
    <3>2. /\ Wrapped(c, e[s[i].timer])
          /\ Since(c, e[s[i].timer]) + left[i] + Room(s) < MaxNested - Len(s) + i
      BY <2>1, <2>2, <3>1 DEF InTimeAt
    <3>3. Since(c, e[s[i].timer]) \in Int
      BY <2>2, SinceIs
    <3>4. left[i] \in Nat /\ i \in Int
      BY <1>3
    <3>5. Since(c, e[s[i].timer]) + more[i + 1] + Room(t) < MaxNested - Len(t) + (i + 1)
      BY <1>1, <1>4, <1>5, <1>7, <3>2, <3>3, <3>4
    <3> DEFINE p == Since(c, f[t[i + 1].timer])
    <3> DEFINE q == Since(c, e[s[i].timer])
    <3>6. Wrapped(c, f[t[i + 1].timer]) /\ p <= q
      BY <2>3, <3>2
    <3>7. p \in Int /\ q \in Int
      <4>1. t[i + 1].timer = s[i].timer
        BY <2>1 DEF SameCall
      <4>2. f[t[i + 1].timer] \in Times
        BY <2>2, <4>1
      <4> QED
        BY <3>3, <4>2, SinceIs
    <3>8. more[i + 1] \in Int /\ Room(t) \in Int /\ Len(t) \in Int
      BY <1>1, <1>5, <1>7, <3>4
    <3> HIDE DEF p, q
    <3>9. p + more[i + 1] + Room(t) < MaxNested - Len(t) + (i + 1)
      <4>1. q + more[i + 1] + Room(t) < MaxNested - Len(t) + (i + 1)
        BY <3>5 DEF q
      <4> QED
        BY <1>1, <3>4, <3>6, <3>7, <3>8, <4>1
    <3> QED
      BY <3>6, <3>9 DEF p
  <2> QED
    BY <1>5, <2>1, <2>4, <2>5, <2>6, <2>7 DEF InTimeAt
<1>10. \A i \in 1 .. n + 1 : InTimeAt(t, c, f, k, more, i)
  <2>1. \A i \in 1 .. n + 1 : i = 1 \/ (i - 1 \in 1 .. n /\ (i - 1) + 1 = i)
    BY <1>1
  <2> QED
    BY <1>8, <1>9, <2>1
<1> QED
  BY <1>5, <1>6, <1>10 DEF InTime

\* ... or it does something else.
LEMMA ActedInTime ==
  ASSUME NEW c \in Times, NEW e \in [OsTimers -> Times], NEW f \in [OsTimers -> Times],
         NEW l, NEW k, NEW s, StackOK(s), Len(s) > 0, InTime(s, c, e, l),
         \A i \in 1 .. Len(s) :
           s[i].caller = "TimerSet" /\ s[i].timer \notin k =>
             s[i].timer \notin l /\ f[s[i].timer] = e[s[i].timer],
         NEW t, Len(t) = Len(s), t[1].acted,
         \A i \in 1 .. Len(s) : SameCall(t[i], s[i]) /\ (i > 1 => t[i].acted = s[i].acted)
  PROVE  InTime(t, c, f, k)
<1> DEFINE n == Len(s)
<1>1. n \in Nat /\ n > 0 /\ n <= MaxNested /\ MaxNested \in Nat
  BY BoundsAssumption DEF StackOK
<1>2. \A i \in 1 .. n : s[i] \in Frames
  BY DEF StackOK
<1>3. PICK left \in [1 .. n -> Nat] : \A i \in 1 .. n : InTimeAt(s, c, e, l, left, i)
  BY DEF InTime
<1>4. Room(s) \in Nat /\ Len(s) = n
  BY <1>1 DEF Room
<1>5. Room(t) = 0 /\ Len(t) = n
  BY DEF Room
<1> HIDE DEF n
<1>6. ASSUME NEW i \in 1 .. n
      PROVE  InTimeAt(t, c, f, k, left, i)
  <2>1. InTimeAt(s, c, e, l, left, i) /\ SameCall(t[i], s[i])
    BY <1>3, <1>4
  <2>3. s[i].timer \in OsTimers
    BY <1>2, <1>4 DEF Frames
  <2>4. i > 1 => t[i].acted
    BY <1>4, <2>1 DEF InTimeAt
  <2>5. \A j \in 1 .. n : i < j => left[j] >= left[i] + (IF t[j].late THEN 0 ELSE 1)
    <3>1. \A j \in 1 .. n : t[j].late = s[j].late
      BY <1>4 DEF SameCall
    <3>2. \A j \in 1 .. n : i < j => left[j] >= left[i] + (IF s[j].late THEN 0 ELSE 1)
      BY <1>4, <2>1 DEF InTimeAt
    <3> QED
      BY <3>1, <3>2
  <2>6. ASSUME t[i].caller = "TimerSet", t[i].timer \notin k
        PROVE  /\ Wrapped(c, f[t[i].timer])
               /\ Since(c, f[t[i].timer]) + left[i] + Room(t) < MaxNested - Len(t) + i
    <3>1. s[i].caller = "TimerSet" /\ s[i].timer \notin l
          /\ f[t[i].timer] = e[s[i].timer]
      BY <1>4, <2>1, <2>6 DEF SameCall
    <3>2. /\ Wrapped(c, e[s[i].timer])
          /\ Since(c, e[s[i].timer]) + left[i] + Room(s) < MaxNested - Len(s) + i
      BY <2>1, <3>1 DEF InTimeAt
    <3>3. Since(c, e[s[i].timer]) \in Int
      BY <2>3, SinceIs
    <3>4. left[i] \in Nat /\ i \in Int
      BY <1>3
    <3>5. Since(c, e[s[i].timer]) + left[i] + Room(t) < MaxNested - Len(t) + i
      BY <1>1, <1>4, <1>5, <3>2, <3>3, <3>4
    <3> QED
      BY <3>1, <3>2, <3>5
  <2>7. /\ t[i].caller = "DoTimer" => i = Len(t)
        /\ t[i].late \/ left[i] > 0
    BY <1>4, <1>5, <2>1 DEF InTimeAt, SameCall
  <2> QED
    BY <1>5, <2>4, <2>5, <2>6, <2>7 DEF InTimeAt
<1> QED
  BY <1>3, <1>5, <1>6 DEF InTime

\* It returns.
LEMMA ReturnedInTime ==
  ASSUME NEW c \in Times, NEW e \in [OsTimers -> Times], NEW f \in [OsTimers -> Times],
         NEW l, NEW k, NEW s, StackOK(s), s # <<>>, InTime(s, c, e, l),
         \A i \in 2 .. Len(s) :
           s[i].caller = "TimerSet" /\ s[i].timer \notin k =>
             s[i].timer \notin l /\ f[s[i].timer] = e[s[i].timer]
  PROVE  InTime(Tail(s), c, f, k)
<1> DEFINE n == Len(s) - 1
<1> DEFINE t == Tail(s)
<1>1. n \in Nat /\ n < MaxNested /\ MaxNested \in Nat /\ Len(s) = n + 1 /\ s \in Seq(Frames)
  BY BoundsAssumption DEF StackOK
<1>2. /\ Len(t) = n /\ \A i \in 1 .. n : t[i] = s[i + 1]
  BY <1>1, HeadTailProperties
<1>3. \A i \in 1 .. n + 1 : s[i] \in Frames
  BY <1>1
<1> HIDE DEF n, t
<1>5. PICK left \in [1 .. n + 1 -> Nat] : \A i \in 1 .. n + 1 : InTimeAt(s, c, e, l, left, i)
  BY <1>1 DEF InTime
<1> DEFINE less == [i \in 1 .. n |-> left[i + 1]]
<1>6. less \in [1 .. n -> Nat] /\ \A i \in 1 .. n : less[i] = left[i + 1]
  BY <1>1, <1>5
<1> HIDE DEF less
<1>7. Room(s) \in Nat
  BY <1>1 DEF Room
<1>8. ASSUME NEW i \in 1 .. n
      PROVE  InTimeAt(t, c, f, k, less, i)
  <2>1. i + 1 \in 1 .. n + 1 /\ 1 \in 1 .. n + 1 /\ i + 1 # 1 /\ i + 1 > 1
    BY <1>1
  <2>2. InTimeAt(s, c, e, l, left, i + 1) /\ t[i] = s[i + 1]
    BY <1>2, <1>5, <2>1
  <2>3. s[i + 1].timer \in OsTimers /\ i + 1 \in 2 .. Len(s)
    BY <1>1, <1>3, <2>1 DEF Frames
  <2>5. t[i].acted
    BY <2>1, <2>2 DEF InTimeAt
  <2>6. \A j \in 1 .. n : i < j => less[j] >= less[i] + (IF t[j].late THEN 0 ELSE 1)
    <3>1. SUFFICES ASSUME NEW j \in 1 .. n, i < j
                   PROVE  less[j] >= less[i] + (IF t[j].late THEN 0 ELSE 1)
      OBVIOUS
    <3>2. j + 1 \in 1 .. n + 1 /\ i + 1 < j + 1
      BY <1>1, <3>1
    <3>3. left[j + 1] >= left[i + 1] + (IF s[j + 1].late THEN 0 ELSE 1)
      BY <1>1, <2>2, <3>2 DEF InTimeAt
    <3> QED
      BY <1>2, <1>6, <3>3
  <2>7. 1 \in 1 .. n /\ t[1].acted
    <3>1. 1 \in 1 .. n /\ 2 \in 1 .. n + 1 /\ t[1] = s[2] /\ 1 + 1 = 2
      BY <1>1, <1>2
    <3>2. InTimeAt(s, c, e, l, left, 2)
      BY <1>5, <3>1
    <3> QED
      BY <3>1, <3>2 DEF InTimeAt
  <2>8. Room(t) = 0
    BY <2>7 DEF Room
  <2>9. ASSUME t[i].caller = "TimerSet", t[i].timer \notin k
        PROVE  /\ Wrapped(c, f[t[i].timer])
               /\ Since(c, f[t[i].timer]) + less[i] + Room(t) < MaxNested - Len(t) + i
    <3>5. s[i + 1].timer \notin l /\ f[t[i].timer] = e[s[i + 1].timer]
      BY <2>2, <2>3, <2>9
    <3>1. /\ Wrapped(c, e[s[i + 1].timer])
          /\ Since(c, e[s[i + 1].timer]) + left[i + 1] + Room(s) < MaxNested - Len(s) + (i + 1)
      BY <2>2, <2>9, <3>5 DEF InTimeAt
    <3>2. Since(c, e[s[i + 1].timer]) \in Int
      BY <2>3, SinceIs
    <3>3. left[i + 1] \in Nat /\ i \in Int /\ less[i] = left[i + 1]
      BY <1>5, <1>6, <2>1
    <3>4. Since(c, e[s[i + 1].timer]) + less[i] + Room(t) < MaxNested - Len(t) + i
      BY <1>1, <1>2, <1>7, <2>8, <3>1, <3>2, <3>3
    <3> QED
      BY <3>1, <3>4, <3>5
  <2>10. t[i].caller = "DoTimer" => i = Len(t)
    <3>1. t[i].caller = "DoTimer" => i + 1 = Len(s)
      BY <2>2 DEF InTimeAt
    <3> QED
      BY <1>1, <1>2, <3>1
  <2>11. t[i].late \/ less[i] > 0
    BY <1>6, <2>2 DEF InTimeAt
  <2> QED
    BY <1>2, <2>5, <2>6, <2>9, <2>10, <2>11 DEF InTimeAt
<1> QED
  BY <1>2, <1>6, <1>8 DEF InTime, t

\* The first call.
LEMMA FirstInTime ==
  ASSUME NEW c \in Times, NEW f \in [OsTimers -> Times], NEW x \in OsTimers,
         NEW caller \in {"DoTimer", "TimerSet"},
         caller = "TimerSet" => Wrapped(c, f[x]) /\ Since(c, f[x]) < 0, NEW l,
         NEW t, Len(t) = 1,
         t[1] = [timer |-> x, caller |-> caller, acted |-> FALSE, late |-> FALSE]
  PROVE  InTime(t, c, f, l)
<1> DEFINE left == [i \in 1 .. 1 |-> 1]
<1>1. left \in [1 .. 1 -> Nat] /\ left[1] = 1
  OBVIOUS
<1> HIDE DEF left
<1>2. Room(t) = MaxNested - 1 /\ MaxNested \in Nat
  BY BoundsAssumption DEF Room
<1>3. t[1].timer = x /\ t[1].caller = caller /\ ~t[1].late
  OBVIOUS
<1>4. caller = "TimerSet" => Since(c, f[x]) + left[1] + Room(t) < MaxNested - 1 + 1
  <2>1. Since(c, f[x]) \in Int
    BY SinceIs
  <2> QED
    BY <1>1, <1>2, <2>1
<1>5. \A j \in 1 .. 1 : ~(1 < j)
  OBVIOUS
<1>6. InTimeAt(t, c, f, l, left, 1)
  BY <1>1, <1>3, <1>4, <1>5 DEF InTimeAt
<1>7. \A i \in 1 .. 1 : i = 1
  OBVIOUS
<1> QED
  BY <1>1, <1>6, <1>7 DEF InTime

LEMMA NoneInTime == ASSUME NEW c, NEW f, NEW l PROVE InTime(<<>>, c, f, l)
<1>1. Len(<<>>) = 0 /\ 1 .. 0 = {}
  OBVIOUS
<1>2. [i \in 1 .. 0 |-> 0] \in [1 .. 0 -> Nat]
  OBVIOUS
<1> QED
  BY <1>1, <1>2 DEF InTime

\* The last one takes its tick.
LEMMA TickedInTime ==
  ASSUME SomeTimer, NEW c \in Times, NEW e \in [OsTimers -> Times],
         NEW l, NEW s, StackOK(s), Len(s) > 0, InTime(s, c, e, l), ~s[1].late,
         NEW t, Len(t) = Len(s), t[1].acted = s[1].acted, t[1].timer = s[1].timer,
         t[1].caller = s[1].caller, t[1].late,
         \A i \in 2 .. Len(s) : t[i] = s[i]
  PROVE  InTime(t, (c + 1) % W, e, l)
<1> DEFINE n == Len(s)
<1> DEFINE d == (c + 1) % W
<1>1. n \in Nat /\ n > 0 /\ n <= MaxNested /\ MaxNested \in Nat /\ 1 \in 1 .. n
  BY BoundsAssumption DEF StackOK
<1>2. \A i \in 1 .. n : s[i] \in Frames
  BY DEF StackOK
<1>3. PICK left \in [1 .. n -> Nat] : \A i \in 1 .. n : InTimeAt(s, c, e, l, left, i)
  BY DEF InTime
<1>4. Room(t) = Room(s) /\ Room(s) \in Nat /\ Len(s) = n /\ Len(t) = n
  BY <1>1 DEF Room
<1>5. d \in Times
  BY ClockGoes
<1> HIDE DEF n, d
<1>6. ASSUME NEW i \in 1 .. n
      PROVE  left[i] \in Nat /\ left[i] > 0
  <2>1. left[1] > 0
    BY <1>1, <1>3 DEF InTimeAt
  <2>2. left[i] \in Nat /\ left[1] \in Nat
    BY <1>1, <1>3
  <2>3. 1 < i => left[i] >= left[1]
    <3>1. 1 < i => left[i] >= left[1] + (IF s[i].late THEN 0 ELSE 1)
      BY <1>1, <1>3, <1>4 DEF InTimeAt
    <3> QED
      BY <2>2, <3>1
  <2> QED
    BY <2>1, <2>2, <2>3
<1> DEFINE less == [i \in 1 .. n |-> left[i] - 1]
<1>7. less \in [1 .. n -> Nat]
  BY <1>6
<1>8. \A i \in 1 .. n : less[i] = left[i] - 1
  OBVIOUS
<1> HIDE DEF less
<1>9. \A i \in 1 .. n : /\ t[i].timer = s[i].timer /\ t[i].caller = s[i].caller
                         /\ t[i].acted = s[i].acted /\ (i > 1 => t[i].late = s[i].late)
  <2>1. \A i \in 1 .. n : i = 1 \/ (i \in 2 .. n /\ i > 1)
    BY <1>1
  <2>2. ~(1 > 1)
    OBVIOUS
  <2> QED
    BY <1>4, <2>1, <2>2
<1>10. ASSUME NEW i \in 1 .. n
       PROVE  InTimeAt(t, d, e, l, less, i)
  <2>1. InTimeAt(s, c, e, l, left, i)
    BY <1>3
  <2>2. s[i].timer \in OsTimers
    BY <1>2 DEF Frames
  <2>3. \A j \in 1 .. n : i < j => less[j] >= less[i] + (IF t[j].late THEN 0 ELSE 1)
    <3>1. SUFFICES ASSUME NEW j \in 1 .. n, i < j
                   PROVE  less[j] >= less[i] + (IF t[j].late THEN 0 ELSE 1)
      OBVIOUS
    <3>2. left[j] >= left[i] + (IF s[j].late THEN 0 ELSE 1)
      BY <1>4, <2>1, <3>1 DEF InTimeAt
    <3>3. j > 1
      BY <1>1, <3>1
    <3>4. t[j].late = s[j].late
      BY <1>9, <3>3
    <3>5. left[i] \in Nat /\ left[j] \in Nat
      BY <1>6
    <3> QED
      BY <1>8, <3>2, <3>4, <3>5
  <2>4. t[i].late \/ less[i] > 0
    <3>1. CASE i = 1
      BY <3>1
    <3>2. CASE i > 1
      <4>1. left[i] >= left[1] + (IF s[i].late THEN 0 ELSE 1)
        BY <1>1, <1>3, <1>4, <3>2 DEF InTimeAt
      <4>2. left[1] \in Nat /\ left[1] > 0 /\ left[i] \in Nat /\ t[i].late = s[i].late
        BY <1>1, <1>6, <1>9, <3>2
      <4> QED
        BY <1>8, <4>1, <4>2
    <3> QED
      BY <1>1, <3>1, <3>2
  <2>5. ASSUME t[i].caller = "TimerSet", t[i].timer \notin l
        PROVE  /\ Wrapped(d, e[t[i].timer])
               /\ Since(d, e[t[i].timer]) + less[i] + Room(t) < MaxNested - Len(t) + i
    <3> DEFINE v == e[s[i].timer]
    <3>1. Wrapped(c, v) /\ Since(c, v) + left[i] + Room(s) < MaxNested - Len(s) + i
      BY <1>9, <2>1, <2>5 DEF InTimeAt
    <3>2. v \in Times /\ e[t[i].timer] = v
      BY <1>9, <2>2
    <3> HIDE DEF v
    <3>3. Since(c, v) \in Int /\ left[i] \in Nat /\ left[i] > 0 /\ i \in Int /\ i <= n
      BY <1>1, <1>6, <3>2, SinceIs
    <3>4. Since(c, v) < MaxNested
      BY <1>1, <1>4, <3>1, <3>3
    <3>5. Waits(c, v)
      BY <3>1, <3>4 DEF Waits, Wrapped, Since
    <3>6. Signed(d - v) = Signed(c - v) + 1
      BY <3>2, <3>5, TickCalled DEF d
    <3>7. v \in Int
      BY <3>2, WidthAssumption DEF Times
    <3>11. Signed(c - v) \in Int
      BY <3>2, SignedIs
    <3>8. Since(d, v) = Since(c, v) + 1
      BY <3>6, <3>7, <3>11 DEF Since
    <3>9. Since(d, v) + less[i] + Room(t) < MaxNested - Len(t) + i
      BY <1>1, <1>4, <1>8, <3>1, <3>3, <3>8
    <3>10. Wrapped(d, v)
      <4>1. PICK a \in Delays : v < a /\ Signed(c - v) >= -a
        BY <3>1 DEF Wrapped
      <4>2. a \in Int
        BY DelaysAssumption
      <4>3. Signed(d - v) >= -a
        BY <3>6, <3>11, <4>1, <4>2
      <4> QED
        BY <4>1, <4>3 DEF Wrapped
    <3> QED
      BY <3>2, <3>9, <3>10
  <2> QED
    BY <1>4, <1>9, <2>1, <2>3, <2>4, <2>5 DEF InTimeAt
<1> QED
  BY <1>4, <1>7, <1>10 DEF InTime, d

-----------------------------------------------------------------------------
\* The inductive invariant.
TimeInv ==
  /\ InOrder(timers, clock, expires, disordered)
  /\ InTime(stack, clock, expires, ToSet(timers))

\* The calls from which TimerSet is called: none, or the last has just acted.
LEMMA TimerSetInTime ==
  ASSUME Inv, NEW x \in OsTimers, NEW d \in Delays, NEW under, NEW dis \in BOOLEAN,
         InOrder(timers, clock, expires, dis), TimerSet(x, d, under),
         expires' \in [OsTimers -> Times]
  PROVE  /\ InOrder(timers', clock, expires', dis)
         /\ \A y \in OsTimers : y # x => expires'[y] = expires[y]
         /\ \/ stack' = under /\ x \in ToSet(timers')
            \/ /\ Call(x, "TimerSet", under)
               /\ Wrapped(clock, expires'[x]) /\ Since(clock, expires'[x]) < 0
<1> DEFINE m == (clock + d) % W
<1> DEFINE list == Unlink(x)
<1> DEFINE f == expires'
<1>1. SomeTimer /\ clock \in Times /\ timers \in Seq(OsTimers) /\ IsInjective(timers)
      /\ expires \in [OsTimers -> Times]
  BY DEF SomeTimer, Inv, ListProper, TypeOK
<1>2. f = [expires EXCEPT ![x] = m]
  BY DEF TimerSet
<1>3. IF m <= clock
        THEN timers' = list /\ Call(x, "TimerSet", under)
        ELSE Insert(list, x, m) /\ stack' = under
  BY DEF TimerSet
<1>4. f \in [OsTimers -> Times]
  OBVIOUS
<1>5. /\ list \in Seq(OsTimers) /\ IsInjective(list)
      /\ ToSet(list) = ToSet(timers) \ {x}
  BY <1>1, UnlinkType
<1>6. m = (clock + d) % W
  OBVIOUS
<1> HIDE DEF m, f
<1>7. f[x] = m /\ \A y \in OsTimers : y # x => f[y] = expires[y]
  BY <1>1, <1>2
<1>8. InOrder(list, clock, f, dis)
  BY <1>1, <1>7, UnlinkInOrder
<1> HIDE DEF list
<1>9. CASE m <= clock
  <2>1. m \in Times /\ m < d /\ Signed(clock - m) >= -d /\ m + Signed(clock - m) < 0
    BY <1>1, <1>6, <1>9, CalledInWindow
  <2>2. Wrapped(clock, f[x]) /\ Since(clock, f[x]) < 0
    BY <1>7, <2>1 DEF Wrapped, Since
  <2>3. timers' = list /\ Call(x, "TimerSet", under)
    BY <1>3, <1>9
  <2> QED
    BY <1>7, <1>8, <2>2, <2>3 DEF f
<1>10. CASE ~(m <= clock)
  <2>1. m \in Times /\ m = clock + d
    BY <1>1, <1>6, <1>10, NotWrapped
  <2>2. Insert(list, x, m) /\ stack' = under
    BY <1>3, <1>10
  <2>3. x \in OsTimers \ ToSet(list)
    BY <1>5
  <2>4. InOrder(timers', clock, f, dis)
    BY <1>1, <1>4, <1>5, <1>7, <1>8, <2>1, <2>2, <2>3, SetInOrder
  <2>5. x \in ToSet(timers')
    BY <1>5, <2>2, <2>3, InsertType
  <2> QED
    BY <1>7, <2>2, <2>4, <2>5 DEF f
<1> QED
  BY <1>9, <1>10

\* Whenever the list is empty, all is in order again.
LEMMA OrderInOrder ==
  ASSUME Inv, TimeInv, Order
  PROVE  /\ disordered' \in BOOLEAN
         /\ timers' = <<>> \/ InOrder(timers, clock, expires, disordered')
<1>1. CASE timers = <<>>
  <2>1. Len(<<>>) = 0 /\ 1 .. 0 = {}
    OBVIOUS
  <2> QED
    BY <1>1, <2>1 DEF InOrder, Order
<1>2. CASE timers # <<>> /\ timers' # <<>>
  BY <1>2 DEF Order, TimeInv, Inv, ListProper, TypeOK
<1>3. CASE timers' = <<>>
  BY <1>3 DEF Order
<1> QED
  BY <1>1, <1>2, <1>3

LEMMA EmptyInOrder ==
  ASSUME NEW c, NEW f, NEW dis
  PROVE  InOrder(<<>>, c, f, dis)
<1>1. Len(<<>>) = 0 /\ 1 .. 0 = {}
  OBVIOUS
<1> QED
  BY <1>1 DEF InOrder

\* A callback is called when none is.
LEMMA FirstCallInTime ==
  ASSUME NEW c \in Times, NEW f \in [OsTimers -> Times], NEW x \in OsTimers,
         NEW caller \in {"DoTimer", "TimerSet"},
         caller = "TimerSet" => Wrapped(c, f[x]) /\ Since(c, f[x]) < 0,
         NEW l, Call(x, caller, <<>>)
  PROVE  InTime(stack', c, f, l)
<1> DEFINE g == [timer |-> x, caller |-> caller, acted |-> FALSE, late |-> FALSE]
<1>1. g \in Frames
  BY DEF Frames
<1>2. <<>> \in Seq(Frames) /\ Len(<<>>) = 0
  OBVIOUS
<1> DEFINE t == <<g>> \o <<>>
<1>3. stack' = t
  BY DEF Call
<1> HIDE DEF g
<1>4. /\ t \in Seq(Frames) /\ Len(t) = 0 + 1
      /\ \A i \in 1 .. 0 + 1 : t[i] = IF i = 1 THEN g ELSE <<>>[i - 1]
  BY <1>1, <1>2, PushedIs
<1> HIDE DEF t
<1>5. Len(t) = 1 /\ t[1] = g
  BY <1>4
<1>6. InTime(t, c, f, l)
  BY <1>5, FirstInTime DEF g
<1> QED
  BY <1>3, <1>6

LEMMA DoTimerInTime ==
  ASSUME Inv, TimeInv, NEW x \in ToSet(timers), DoTimer(x), stack = <<>>, clock' = clock,
         NEW dis \in BOOLEAN, InOrder(timers, clock, expires, dis)
  PROVE  InOrder(timers', clock', expires', dis) /\ InTime(stack', clock', expires', ToSet(timers'))
<1>1. x \in OsTimers /\ clock \in Times /\ expires \in [OsTimers -> Times]
      /\ timers \in Seq(OsTimers) /\ IsInjective(timers)
  BY DEF Inv, ListProper, TypeOK, ToSet
<1>2. timers' = Unlink(x) /\ Forget(x) /\ Call(x, "DoTimer", <<>>)
  BY DEF DoTimer
<1>3. expires' \in [OsTimers -> Times]
  BY <1>1, <1>2, ForgetIs
<1>4. \A y \in OsTimers : y # x => expires'[y] = expires[y]
  BY <1>1, <1>2, ForgetIs
<1>5. InOrder(Unlink(x), clock, expires', dis)
  BY <1>1, <1>4, UnlinkInOrder
<1>6. InTime(stack', clock, expires', ToSet(timers'))
  <2> DEFINE l == ToSet(timers')
  <2> HIDE DEF l
  <2>1. InTime(stack', clock, expires', l)
    BY <1>1, <1>2, <1>3, FirstCallInTime
  <2> QED
    BY <2>1 DEF l
<1> QED
  BY <1>2, <1>5, <1>6

LEMMA TimerCancelInTime ==
  ASSUME Inv, NEW x \in OsTimers, NEW calls, TimerCancel(x, calls),
         NEW dis \in BOOLEAN, InOrder(timers, clock, expires, dis)
  PROVE  /\ InOrder(timers', clock, expires', dis)
         /\ \A y \in OsTimers : y # x => expires'[y] = expires[y]
         /\ (\E i \in DOMAIN stack' : stack'[i].timer = x /\ stack'[i].caller = "TimerSet")
              => expires' = expires
<1>1. clock \in Times /\ expires \in [OsTimers -> Times]
      /\ timers \in Seq(OsTimers) /\ IsInjective(timers)
  BY DEF Inv, ListProper, TypeOK
<1>2. CASE x \in ToSet(timers) /\ timers' = Unlink(x) /\ Forget(x)
  <2>1. /\ \A y \in OsTimers : y # x => expires'[y] = expires[y]
        /\ (\E i \in DOMAIN stack' : stack'[i].timer = x /\ stack'[i].caller = "TimerSet")
             => expires' = expires
    BY <1>1, <1>2, ForgetIs
  <2>2. InOrder(Unlink(x), clock, expires', dis)
    BY <1>1, <2>1, UnlinkInOrder
  <2> QED
    BY <1>2, <2>1, <2>2
<1>3. CASE timers' = timers /\ expires' = expires
  BY <1>3
<1> QED
  BY <1>2, <1>3 DEF TimerCancel

LEMMA ActedIs ==
  ASSUME StackOK(stack), stack # <<>>
  PROVE  /\ Acted \in Seq(Frames) /\ Len(Acted) = Len(stack) /\ Acted[1].acted
         /\ \A i \in 1 .. Len(stack) :
              SameCall(Acted[i], stack[i]) /\ (i > 1 => Acted[i] = stack[i])
<1> DEFINE tail == Tail(stack)
<1> DEFINE f == [Head(stack) EXCEPT !.acted = TRUE]
<1> DEFINE t == Acted
<1>1. /\ stack \in Seq(Frames) /\ Len(stack) > 0 /\ Head(stack) = stack[1]
      /\ tail \in Seq(Frames) /\ Len(tail) = Len(stack) - 1
      /\ \A i \in 1 .. Len(tail) : tail[i] = stack[i + 1]
  BY HeadTailProperties DEF StackOK
<1>2. f \in Frames /\ SameCall(f, stack[1]) /\ f.acted
  <2> DEFINE g == Head(stack)
  <2>1. g \in Frames /\ g = stack[1]
    BY <1>1
  <2> HIDE DEF g
  <2>2. f = [g EXCEPT !.acted = TRUE]
    BY DEF g
  <2>3. f \in Frames /\ f.acted /\ SameCall(f, g)
    BY <2>1, <2>2 DEF Frames, SameCall
  <2> QED
    BY <2>1, <2>3
<1>3. t = <<f>> \o tail
  BY DEF Acted
<1> HIDE DEF tail, f, t
<1>4. /\ t \in Seq(Frames) /\ Len(t) = Len(tail) + 1
      /\ \A i \in 1 .. Len(tail) + 1 : t[i] = IF i = 1 THEN f ELSE tail[i - 1]
  BY <1>1, <1>2, <1>3, PushedIs
<1>5. ASSUME NEW i \in 1 .. Len(stack)
      PROVE  SameCall(t[i], stack[i]) /\ (i > 1 => t[i] = stack[i])
  <2>1. CASE i = 1
    BY <1>1, <1>2, <1>4, <2>1
  <2>2. CASE i > 1
    <3>1. i - 1 \in 1 .. Len(tail) /\ (i - 1) + 1 = i
      BY <1>1, <2>2
    <3>2. t[i] = stack[i]
      BY <1>1, <1>4, <2>2, <3>1
    <3> QED
      BY <3>2 DEF SameCall
  <2> QED
    BY <1>1, <2>1, <2>2
<1>6. t[1].acted /\ Len(t) = Len(stack)
  BY <1>1, <1>2, <1>4
<1> QED
  BY <1>4, <1>5, <1>6 DEF t

LEMMA InitTime == Init => TimeInv
<1> SUFFICES ASSUME Init PROVE TimeInv
  OBVIOUS
<1> QED
  BY EmptyInOrder, NoneInTime DEF Init, TimeInv

\* A callback sets a timer.
LEMMA CallbackSetsInTime ==
  ASSUME Inv, TimeInv, Inv', NEW x \in OsTimers, NEW d \in Delays, CallbackSets(x, d)
  PROVE  TimeInv'
<1>1. /\ stack # <<>> /\ ~Head(stack).acted /\ TimerSet(x, d, Acted)
      /\ clock' = clock /\ disordered' = disordered
  BY DEF CallbackSets, Running
<1>2. /\ StackOK(stack) /\ stack \in Seq(Frames) /\ Len(stack) > 0 /\ Head(stack) = stack[1]
      /\ clock \in Times /\ expires \in [OsTimers -> Times] /\ disordered \in BOOLEAN
      /\ Called(stack) \cap ToSet(timers) = {}
  BY <1>1 DEF Inv, ListProper, TypeOK, Sound, StackOK
<1>3. expires' \in [OsTimers -> Times] /\ Len(stack') <= MaxNested
  BY DEF Inv, ListProper, TypeOK
<1>4. InOrder(timers, clock, expires, disordered) /\ InTime(stack, clock, expires, ToSet(timers))
  BY DEF TimeInv
<1>5. /\ InOrder(timers', clock, expires', disordered)
      /\ \A y \in OsTimers : y # x => expires'[y] = expires[y]
      /\ \/ stack' = Acted /\ x \in ToSet(timers')
         \/ /\ Call(x, "TimerSet", Acted)
            /\ Wrapped(clock, expires'[x]) /\ Since(clock, expires'[x]) < 0
  BY <1>1, <1>2, <1>3, <1>4, TimerSetInTime
<1> DEFINE under == Acted
<1>6. /\ under \in Seq(Frames) /\ Len(under) = Len(stack) /\ under[1].acted
      /\ \A i \in 1 .. Len(stack) :
           SameCall(under[i], stack[i]) /\ (i > 1 => under[i] = stack[i])
  BY <1>1, <1>2, ActedIs
<1>7. \A i \in 1 .. Len(stack) :
        stack[i].timer \notin ToSet(timers) /\ stack[i].timer \in OsTimers
  <2>1. \A i \in 1 .. Len(stack) : stack[i].timer \in Called(stack)
    BY <1>2 DEF Called
  <2>2. \A i \in 1 .. Len(stack) : stack[i] \in Frames
    BY <1>2
  <2>3. \A g \in Frames : g.timer \in OsTimers
    BY DEF Frames
  <2> QED
    BY <1>2, <2>1, <2>2, <2>3
<1> HIDE DEF under
<1>8. CASE stack' = under /\ x \in ToSet(timers')
  <2>1. InTime(under, clock, expires', ToSet(timers'))
    <3>1. \A i \in 1 .. Len(stack) :
            stack[i].caller = "TimerSet" /\ stack[i].timer \notin ToSet(timers') =>
              /\ stack[i].timer \notin ToSet(timers)
              /\ expires'[stack[i].timer] = expires[stack[i].timer]
      BY <1>5, <1>7, <1>8
    <3>2. \A i \in 1 .. Len(stack) :
            SameCall(under[i], stack[i]) /\ (i > 1 => under[i].acted = stack[i].acted)
      BY <1>6
    <3> QED
      BY <1>2, <1>3, <1>4, <1>6, <3>1, <3>2, ActedInTime
  <2> QED
    BY <1>1, <1>5, <1>8, <2>1 DEF TimeInv
<1>9. CASE Call(x, "TimerSet", under) /\ Wrapped(clock, expires'[x]) /\ Since(clock, expires'[x]) < 0
  <2> DEFINE g == [timer |-> x, caller |-> "TimerSet", acted |-> FALSE, late |-> FALSE]
  <2> DEFINE t == <<g>> \o under
  <2>1. g \in Frames
    BY DEF Frames
  <2>2. stack' = t /\ Len(under) < MaxNested
    BY <1>9 DEF Call
  <2> HIDE DEF g
  <2>3. /\ t \in Seq(Frames) /\ Len(t) = Len(under) + 1
        /\ \A i \in 1 .. Len(under) + 1 : t[i] = IF i = 1 THEN g ELSE under[i - 1]
    BY <1>6, <2>1, PushedIs
  <2> HIDE DEF t
  <2>4. Len(t) = Len(stack) + 1 /\ t[1] = g
    BY <1>2, <1>6, <2>3
  <2>5. \A i \in 1 .. Len(stack) : under[i].acted
    <3>1. PICK left \in [1 .. Len(stack) -> Nat] :
            \A i \in 1 .. Len(stack) : InTimeAt(stack, clock, expires, ToSet(timers), left, i)
      BY <1>4 DEF InTime
    <3>2. \A i \in 1 .. Len(stack) : i > 1 => stack[i].acted
      BY <3>1 DEF InTimeAt
    <3>3. \A i \in 1 .. Len(stack) : i = 1 \/ i > 1
      BY <1>2
    <3> QED
      BY <1>6, <3>2, <3>3
  <2>6. \A i \in 1 .. Len(stack) : SameCall(t[i + 1], stack[i]) /\ t[i + 1].acted
    <3>1. SUFFICES ASSUME NEW i \in 1 .. Len(stack)
                   PROVE  SameCall(t[i + 1], stack[i]) /\ t[i + 1].acted
      OBVIOUS
    <3>2. i + 1 \in 1 .. Len(under) + 1 /\ i + 1 # 1 /\ (i + 1) - 1 = i
      BY <1>2, <1>6
    <3>3. t[i + 1] = under[i]
      BY <2>3, <3>2
    <3> QED
      BY <1>6, <2>5, <3>3
  <2>7. InTime(t, clock, expires', ToSet(timers'))
    <3>1. Len(stack) < MaxNested /\ ~stack[1].acted
      BY <1>1, <1>2, <1>6, <2>2
    <3>2. \A i \in 1 .. Len(stack) : stack[i].timer \notin ToSet(timers)
      BY <1>7
    <3>3. t[1] = [timer |-> x, caller |-> "TimerSet", acted |-> FALSE, late |-> FALSE]
      BY <2>4 DEF g
    <3> QED
      BY <1>2, <1>3, <1>4, <1>5, <1>9, <2>4, <2>6, <3>1, <3>2, <3>3, PushedInTime
  <2> QED
    BY <1>1, <1>5, <2>2, <2>7 DEF TimeInv
<1> QED
  BY <1>5, <1>8, <1>9 DEF under

\* A callback returns the time after which it is to be called again.
LEMMA AgainAfterInTime ==
  ASSUME Inv, TimeInv, Inv', NEW d \in Delays, AgainAfter(d)
  PROVE  TimeInv'
<1> DEFINE x == Head(stack).timer
<1> DEFINE under == Tail(stack)
<1>1. /\ stack # <<>> /\ clock' = clock
      /\ \/ /\ Head(stack).caller = "DoTimer"
            /\ TimerSet(x, d, under) /\ disordered' = disordered
         \/ /\ Head(stack).caller = "TimerSet" /\ x \notin ToSet(timers)
            /\ Insert(timers, x, d) /\ stack' = under
            /\ disordered' = TRUE /\ expires' = expires
         \/ UNCHANGED <<timers, expires, stack, disordered>>
  BY DEF AgainAfter
<1>2. /\ StackOK(stack) /\ stack \in Seq(Frames) /\ Len(stack) > 0 /\ Head(stack) = stack[1]
      /\ clock \in Times /\ expires \in [OsTimers -> Times] /\ disordered \in BOOLEAN
      /\ ListOK(timers)
  BY <1>1 DEF Inv, ListProper, TypeOK, Sound, StackOK, ListOK
<1>3. expires' \in [OsTimers -> Times]
  BY DEF Inv, ListProper, TypeOK
<1>4. InOrder(timers, clock, expires, disordered) /\ InTime(stack, clock, expires, ToSet(timers))
  BY DEF TimeInv
<1>5. PICK left \in [1 .. Len(stack) -> Nat] :
        \A i \in 1 .. Len(stack) : InTimeAt(stack, clock, expires, ToSet(timers), left, i)
  BY <1>4 DEF InTime
<1>6. 1 \in 1 .. Len(stack) /\ stack[1] \in Frames /\ stack[1].timer = x /\ x \in OsTimers
  <2>1. 1 \in 1 .. Len(stack) /\ stack[1] \in Frames
    BY <1>2
  <2>2. \A g \in Frames : g.timer \in OsTimers
    BY DEF Frames
  <2>3. stack[1].timer = x
    BY <1>2
  <2> QED
    BY <2>1, <2>2, <2>3
<1>7. InTimeAt(stack, clock, expires, ToSet(timers), left, 1) /\ left[1] \in Nat
  BY <1>5, <1>6
<1>8. under = Tail(stack)
  OBVIOUS
<1> HIDE DEF x, under
<1>9. CASE Head(stack).caller = "DoTimer" /\ TimerSet(x, d, under) /\ disordered' = disordered
  <2>1. Len(stack) = 1
    BY <1>2, <1>7, <1>9 DEF InTimeAt
  <2>2. under = <<>>
    <3>1. under \in Seq(Frames) /\ Len(under) = 0
      BY <1>2, <1>1, <1>8, <2>1, HeadTailProperties
    <3> QED
      BY <3>1, EmptySeq
  <2>3. /\ InOrder(timers', clock, expires', disordered)
        /\ \/ stack' = under /\ x \in ToSet(timers')
           \/ /\ Call(x, "TimerSet", under)
              /\ Wrapped(clock, expires'[x]) /\ Since(clock, expires'[x]) < 0
    BY <1>2, <1>3, <1>4, <1>6, <1>9, TimerSetInTime
  <2>4. CASE stack' = under
    <3>1. InTime(stack', clock, expires', ToSet(timers'))
      BY <2>2, <2>4, NoneInTime
    <3> QED
      BY <1>1, <1>9, <2>3, <3>1 DEF TimeInv
  <2>5. CASE Call(x, "TimerSet", under) /\ Wrapped(clock, expires'[x]) /\ Since(clock, expires'[x]) < 0
    <3>1. InTime(stack', clock, expires', ToSet(timers'))
      BY <1>2, <1>3, <1>6, <2>2, <2>5, FirstCallInTime
    <3> QED
      BY <1>1, <1>9, <2>3, <3>1 DEF TimeInv
  <2> QED
    BY <2>3, <2>4, <2>5
<1>10. CASE /\ Head(stack).caller = "TimerSet" /\ x \notin ToSet(timers)
            /\ Insert(timers, x, d) /\ stack' = under
            /\ disordered' = TRUE /\ expires' = expires
  <2>1. InTime(under, clock, expires, ToSet(timers'))
    <3>1. ToSet(timers') = ToSet(timers) \cup {x}
      BY <1>2, <1>6, <1>10, InsertType DEF ListOK
    <3>2. \A i \in 2 .. Len(stack) :
            stack[i].caller = "TimerSet" /\ stack[i].timer \notin ToSet(timers') =>
              /\ stack[i].timer \notin ToSet(timers)
              /\ expires[stack[i].timer] = expires[stack[i].timer]
      BY <3>1
    <3> DEFINE k == ToSet(timers')
    <3> DEFINE l == ToSet(timers)
    <3>3. InTime(stack, clock, expires, l) /\ \A i \in 2 .. Len(stack) :
            stack[i].caller = "TimerSet" /\ stack[i].timer \notin k =>
              stack[i].timer \notin l /\ expires[stack[i].timer] = expires[stack[i].timer]
      BY <1>4, <3>2
    <3> HIDE DEF k, l
    <3>4. InTime(Tail(stack), clock, expires, k)
      BY <1>1, <1>2, <3>3, ReturnedInTime
    <3> QED
      BY <1>8, <3>4 DEF k
  <2>2. Waits(clock, expires[x])
    <3> DEFINE v == expires[x]
    <3>1. Wrapped(clock, v) /\ Since(clock, v) + left[1] + Room(stack) < MaxNested - Len(stack) + 1
      BY <1>2, <1>6, <1>7, <1>10 DEF InTimeAt
    <3>2. v \in Times
      BY <1>2, <1>6
    <3> HIDE DEF v
    <3>3. Since(clock, v) \in Int
      BY <1>2, <3>2, SinceIs
    <3>4. Len(stack) \in Nat /\ Len(stack) > 0 /\ Len(stack) <= MaxNested /\ MaxNested \in Nat
      BY <1>2, BoundsAssumption DEF StackOK
    <3>5. Room(stack) \in Nat
      BY <3>4 DEF Room
    <3>6. Since(clock, v) < MaxNested
      BY <1>7, <3>1, <3>3, <3>4, <3>5
    <3>7. Waits(clock, v)
      BY <3>1, <3>6 DEF Waits, Wrapped, Since
    <3> QED
      BY <3>7 DEF v
  <2>3. x \in OsTimers \ ToSet(timers)
    BY <1>6, <1>10
  <2>4. InOrder(timers', clock, expires, TRUE)
    BY <1>2, <1>4, <1>10, <2>2, <2>3, MisplacedInOrder
  <2> QED
    BY <1>1, <1>10, <2>1, <2>4 DEF TimeInv
<1>11. CASE UNCHANGED <<timers, expires, stack, disordered>>
  BY <1>1, <1>4, <1>11 DEF TimeInv
<1> QED
  BY <1>1, <1>9, <1>10, <1>11

LEMMA NextTime == Inv /\ TimeInv /\ [Next]_vars /\ Inv' => TimeInv'
<1> SUFFICES ASSUME Inv, TimeInv, [Next]_vars, Inv' PROVE TimeInv'
  OBVIOUS
<1>1. /\ clock \in Times /\ expires \in [OsTimers -> Times] /\ disordered \in BOOLEAN
      /\ timers \in Seq(OsTimers) /\ StackOK(stack)
  BY DEF Inv, ListProper, TypeOK, Sound
<1>2. expires' \in [OsTimers -> Times] /\ timers' \in Seq(OsTimers)
  BY DEF Inv, ListProper, TypeOK
<1>3. InOrder(timers, clock, expires, disordered) /\ InTime(stack, clock, expires, ToSet(timers))
  BY DEF TimeInv
<1>4. CASE Tick
  <2>1. /\ clock' = (clock + 1) % W
        /\ timers' = timers /\ expires' = expires /\ disordered' = disordered
    BY <1>4 DEF Tick
  <2>2. InOrder(timers', clock', expires', disordered')
    <3>1. CASE timers = <<>>
      BY <2>1, <3>1, EmptyInOrder
    <3>2. CASE timers # <<>>
      <4>1. 1 \in 1 .. Len(timers) /\ Head(timers) = timers[1]
        BY <1>1, <3>2
      <4>2. SomeTimer
        BY <1>1, <4>1 DEF SomeTimer
      <4> DEFINE h == expires[timers[1]]
      <4>3. Signed(clock - h) < MaxLag
        BY <1>4, <3>2, <4>1 DEF Tick
      <4>4. ASSUME NEW i \in 1 .. Len(timers)
            PROVE  InWindow((clock + 1) % W, expires[timers[i]], disordered)
        <5> DEFINE t == expires[timers[i]]
        <5>1. h \in Times /\ t \in Times
          BY <1>1, <4>1
        <5>2. InWindow(clock, h, disordered) /\ InWindow(clock, t, disordered)
          BY <1>3, <4>1 DEF InOrder
        <5>3. t = h \/ Before(h, t, disordered)
          <6>1. i = 1 \/ 1 < i
            BY <1>1
          <6>2. 1 < i => Before(h, t, disordered)
            BY <1>3, <4>1 DEF InOrder
          <6> QED
            BY <6>1, <6>2
        <5> HIDE DEF h, t
        <5>4. InWindow((clock + 1) % W, t, disordered)
          BY <1>1, <4>2, <4>3, <5>1, <5>2, <5>3, TickInWindow
        <5> QED
          BY <5>4 DEF t
      <4> QED
        BY <1>3, <2>1, <4>4 DEF InOrder
    <3> QED
      BY <3>1, <3>2
  <2>3. CASE Idle /\ UNCHANGED stack
    <3>1. stack' = <<>>
      BY <2>3 DEF Idle
    <3> QED
      BY <2>2, <3>1, NoneInTime DEF TimeInv
  <2>4. CASE stack # <<>> /\ ~Head(stack).late /\ stack' = [stack EXCEPT ![1].late = TRUE]
    <3> DEFINE t == [stack EXCEPT ![1].late = TRUE]
    <3>1. stack \in Seq(Frames) /\ Len(stack) > 0 /\ Head(stack) = stack[1] /\ 1 \in 1 .. Len(stack)
      BY <1>1, <2>4 DEF StackOK
    <3>2. stack[1] \in Frames
      BY <3>1
    <3>3. /\ Len(t) = Len(stack) /\ \A i \in 2 .. Len(stack) : t[i] = stack[i]
          /\ t[1] = [stack[1] EXCEPT !.late = TRUE]
      <4> DEFINE g == [stack[1] EXCEPT !.late = TRUE]
      <4>1. t = [stack EXCEPT ![1] = g]
        OBVIOUS
      <4> HIDE DEF g, t
      <4>2. Len(t) = Len(stack) /\ t[1] = g /\ \A i \in 2 .. Len(stack) : t[i] = stack[i]
        BY <3>1, <4>1
      <4> QED
        BY <4>2 DEF g
    <3>4. /\ t[1].acted = stack[1].acted /\ t[1].timer = stack[1].timer
          /\ t[1].caller = stack[1].caller /\ t[1].late
      BY <3>2, <3>3 DEF Frames
    <3>5. SomeTimer
      BY <3>2 DEF Frames, SomeTimer
    <3>6. ~stack[1].late
      BY <2>4, <3>1
    <3> HIDE DEF t
    <3>7. InTime(t, (clock + 1) % W, expires, ToSet(timers))
      BY <1>1, <1>3, <3>1, <3>3, <3>4, <3>5, <3>6, TickedInTime
    <3>8. stack' = t
      BY <2>4 DEF t
    <3> QED
      BY <2>1, <2>2, <3>7, <3>8 DEF TimeInv
  <2> QED
    BY <1>4, <2>3, <2>4 DEF Tick
<1>5. CASE StartLoop
  BY <1>5 DEF StartLoop, TimeInv
<1>6. CASE Loop
  <2>1. stack = <<>> /\ clock' = clock /\ disordered' = disordered
    BY <1>6 DEF Loop
  <2>2. CASE timers # <<>> /\ DoTimer(Head(timers))
    <3>1. Head(timers) \in ToSet(timers)
      <4>1. 1 \in DOMAIN timers /\ Head(timers) = timers[1]
        BY <1>1, <2>2
      <4> QED
        BY <4>1 DEF ToSet
    <3>2. InOrder(timers', clock', expires', disordered) /\ InTime(stack', clock', expires', ToSet(timers'))
      BY <1>1, <1>3, <2>1, <2>2, <3>1, DoTimerInTime
    <3> QED
      BY <2>1, <3>2 DEF TimeInv
  <2>3. CASE UNCHANGED <<timers, expires, stack>>
    BY <2>1, <2>3 DEF TimeInv
  <2> QED
    BY <1>6, <2>2, <2>3 DEF Loop
<1>7. CASE Done
  <2> DEFINE x == Head(stack).timer
  <2>1. /\ stack # <<>> /\ stack' = Tail(stack) /\ UNCHANGED <<clock, timers, disordered>>
        /\ Forget(x)
    BY <1>7 DEF Done
  <2>2. x \in OsTimers
    BY <1>1, <2>1, TailOK
  <2> HIDE DEF x
  <2>3. /\ \A y \in OsTimers : y # x => expires'[y] = expires[y]
        /\ x \in ToSet(timers') => expires' = expires
        /\ (\E i \in DOMAIN stack' : stack'[i].timer = x /\ stack'[i].caller = "TimerSet")
             => expires' = expires
    BY <1>1, <2>1, <2>2, ForgetIs
  <2>4. \A i \in 1 .. Len(timers) : expires'[timers[i]] = expires[timers[i]]
    <3>1. \A i \in 1 .. Len(timers) : timers[i] \in ToSet(timers) /\ timers[i] \in OsTimers
      BY <1>1 DEF ToSet
    <3> QED
      BY <2>1, <2>3, <3>1
  <2>5. InTime(Tail(stack), clock, expires', ToSet(timers'))
    <3> DEFINE l == ToSet(timers)
    <3>1. /\ stack \in Seq(Frames) /\ stack' \in Seq(Frames) /\ Len(stack') = Len(stack) - 1
          /\ \A i \in 1 .. Len(stack) - 1 : stack'[i] = stack[i + 1]
      BY <1>1, <2>1, HeadTailProperties DEF StackOK
    <3>2. ASSUME NEW i \in 2 .. Len(stack), stack[i].caller = "TimerSet"
          PROVE  expires'[stack[i].timer] = expires[stack[i].timer]
      <4>1. i - 1 \in 1 .. Len(stack) - 1 /\ (i - 1) + 1 = i /\ i \in 1 .. Len(stack)
        BY <3>1
      <4>2. i - 1 \in DOMAIN stack' /\ stack'[i - 1] = stack[i]
        BY <3>1, <4>1
      <4>3. stack[i].timer \in OsTimers
        <5>1. stack[i] \in Frames
          BY <3>1, <4>1
        <5> QED
          BY <5>1 DEF Frames
      <4>4. stack[i].timer = x => expires' = expires
        BY <2>3, <3>2, <4>2
      <4> QED
        BY <2>3, <4>3, <4>4
    <3>3. InTime(stack, clock, expires, l)
      BY <1>3
    <3>4. l = ToSet(timers')
      BY <2>1
    <3> HIDE DEF l
    <3>5. \A i \in 2 .. Len(stack) :
            stack[i].caller = "TimerSet" /\ stack[i].timer \notin l =>
              stack[i].timer \notin l /\ expires'[stack[i].timer] = expires[stack[i].timer]
      BY <3>2
    <3>6. InTime(Tail(stack), clock, expires', l)
      BY <1>1, <1>2, <2>1, <3>3, <3>5, ReturnedInTime
    <3> QED
      BY <3>4, <3>6
  <2>6. InOrder(timers, clock, expires', disordered)
    BY <1>3, <2>4 DEF InOrder
  <2> QED
    BY <2>1, <2>5, <2>6 DEF TimeInv
<1>8. ASSUME NEW d \in Delays, AgainAfter(d)
      PROVE  TimeInv'
  BY <1>8, AgainAfterInTime
<1>9. CASE TimerInit
  <2>1. timers' = <<>> /\ stack' = <<>>
    BY <1>9 DEF TimerInit, Idle
  <2> QED
    BY <2>1, EmptyInOrder, NoneInTime DEF TimeInv
<1>10. ASSUME NEW x \in OsTimers, CallbackCancels(x)
       PROVE  TimeInv'
  <2>1. /\ TimerCancel(x, Acted) /\ stack' = Acted /\ stack # <<>> /\ ~Head(stack).acted
        /\ clock' = clock /\ disordered' = disordered
    BY <1>10 DEF CallbackCancels, Running, TimerCancel
  <2>2. /\ InOrder(timers', clock, expires', disordered)
        /\ \A y \in OsTimers : y # x => expires'[y] = expires[y]
        /\ (\E i \in DOMAIN stack' : stack'[i].timer = x /\ stack'[i].caller = "TimerSet")
             => expires' = expires
    BY <1>1, <1>3, <2>1, TimerCancelInTime
  <2> DEFINE t == Acted
  <2>3. /\ Len(t) = Len(stack) /\ t[1].acted /\ t \in Seq(Frames)
        /\ \A i \in 1 .. Len(stack) :
             SameCall(t[i], stack[i]) /\ (i > 1 => t[i] = stack[i])
    BY <1>1, <2>1, ActedIs
  <2>4. Len(stack) > 0
    BY <1>1, <2>1 DEF StackOK
  <2> HIDE DEF t
  <2>5. \A i \in 1 .. Len(stack) :
          SameCall(t[i], stack[i]) /\ (i > 1 => t[i].acted = stack[i].acted)
    BY <2>3
  <2>7. stack' = t
    BY <2>1 DEF t
  <2>6. InTime(t, clock, expires', ToSet(timers'))
    <3> DEFINE k == ToSet(timers')
    <3> DEFINE l == ToSet(timers)
    <3>1. ASSUME NEW i \in 1 .. Len(stack), stack[i].caller = "TimerSet"
          PROVE  /\ stack[i].timer \notin ToSet(timers)
                 /\ expires'[stack[i].timer] = expires[stack[i].timer]
      <4>1. i \in DOMAIN stack' /\ SameCall(stack'[i], stack[i])
        BY <2>3, <2>7
      <4>2. i \in DOMAIN stack /\ stack[i] \in Frames
        BY <1>1 DEF StackOK
      <4>3. stack[i].timer \in Called(stack) /\ stack[i].timer \in OsTimers
        BY <4>2 DEF Called, Frames
      <4>4. stack[i].timer = x => expires' = expires
        BY <2>2, <3>1, <4>1 DEF SameCall
      <4>5. Called(stack) \cap ToSet(timers) = {}
        BY <2>1 DEF Inv, Sound
      <4> QED
        BY <2>2, <4>3, <4>4, <4>5
    <3>2. InTime(stack, clock, expires, l) /\ \A i \in 1 .. Len(stack) :
            stack[i].caller = "TimerSet" /\ stack[i].timer \notin k =>
              stack[i].timer \notin l /\ expires'[stack[i].timer] = expires[stack[i].timer]
      BY <1>3, <3>1
    <3> HIDE DEF k, l
    <3>3. InTime(t, clock, expires', k)
      BY <1>1, <1>2, <2>3, <2>4, <2>5, <3>2, ActedInTime
    <3> QED
      BY <3>3 DEF k
  <2> QED
    BY <2>1, <2>2, <2>6, <2>7 DEF TimeInv
<1>11. ASSUME NEW x \in OsTimers, RequestCancels(x)
       PROVE  TimeInv'
  <2>1. TimerCancel(x, <<>>) /\ Order /\ clock' = clock /\ stack' = <<>>
    BY <1>11 DEF RequestCancels, TimerCancel
  <2>2. /\ disordered' \in BOOLEAN
        /\ timers' = <<>> \/ InOrder(timers, clock, expires, disordered')
    BY <2>1, OrderInOrder
  <2>3. CASE timers' = <<>>
    BY <2>1, <2>3, EmptyInOrder, NoneInTime DEF TimeInv
  <2>4. CASE InOrder(timers, clock, expires, disordered')
    <3> DEFINE dis == disordered'
    <3>1. dis \in BOOLEAN /\ InOrder(timers, clock, expires, dis)
      BY <2>2, <2>4
    <3> HIDE DEF dis
    <3>2. InOrder(timers', clock, expires', dis)
      BY <2>1, <3>1, TimerCancelInTime
    <3> QED
      BY <2>1, <3>2, NoneInTime DEF TimeInv, dis
  <2> QED
    BY <2>2, <2>3, <2>4
<1>12. ASSUME NEW x \in OsTimers, TimerForce(x)
       PROVE  TimeInv'
  <2>1. x \in ToSet(timers) /\ DoTimer(x) /\ Order /\ clock' = clock /\ stack = <<>>
    BY <1>12 DEF TimerForce, Idle
  <2>2. /\ disordered' \in BOOLEAN
        /\ timers' = <<>> \/ InOrder(timers, clock, expires, disordered')
    BY <2>1, OrderInOrder
  <2>3. CASE timers' = <<>>
    <3>1. InTime(stack', clock', expires', ToSet(timers'))
      BY <1>1, <1>3, <2>1, DoTimerInTime
    <3> QED
      BY <2>3, <3>1, EmptyInOrder DEF TimeInv
  <2>4. CASE InOrder(timers, clock, expires, disordered')
    <3> DEFINE dis == disordered'
    <3>1. dis \in BOOLEAN /\ InOrder(timers, clock, expires, dis)
      BY <2>2, <2>4
    <3> HIDE DEF dis
    <3>2. InOrder(timers', clock', expires', dis) /\ InTime(stack', clock', expires', ToSet(timers'))
      BY <2>1, <3>1, DoTimerInTime
    <3> QED
      BY <3>2 DEF TimeInv, dis
  <2> QED
    BY <2>2, <2>3, <2>4
<1>13. ASSUME NEW x \in OsTimers, NEW d \in Delays, CallbackSets(x, d)
       PROVE  TimeInv'
  BY <1>13, CallbackSetsInTime
<1>14. ASSUME NEW x \in OsTimers, NEW d \in Delays, RequestSets(x, d)
       PROVE  TimeInv'
  <2>1. TimerSet(x, d, <<>>) /\ Order /\ clock' = clock
    BY <1>14 DEF RequestSets, Idle
  <2>2. /\ disordered' \in BOOLEAN
        /\ timers' = <<>> \/ InOrder(timers, clock, expires, disordered')
    BY <2>1, OrderInOrder
  <2> DEFINE none == <<>>
  <2>3. ASSUME NEW dis \in BOOLEAN, InOrder(timers, clock, expires, dis)
        PROVE  InOrder(timers', clock, expires', dis) /\ InTime(stack', clock, expires', ToSet(timers'))
    <3>1. /\ InOrder(timers', clock, expires', dis)
          /\ \/ stack' = <<>> /\ x \in ToSet(timers')
             \/ /\ Call(x, "TimerSet", <<>>)
                /\ Wrapped(clock, expires'[x]) /\ Since(clock, expires'[x]) < 0
      BY <1>2, <2>1, <2>3, TimerSetInTime
    <3>2. CASE stack' = <<>>
      BY <3>1, <3>2, NoneInTime
    <3>3. CASE Call(x, "TimerSet", <<>>) /\ Wrapped(clock, expires'[x]) /\ Since(clock, expires'[x]) < 0
      BY <1>1, <1>2, <3>1, <3>3, FirstCallInTime
    <3> QED
      BY <3>1, <3>2, <3>3
  <2>4. CASE timers' = <<>>
    BY <1>1, <1>3, <2>1, <2>3, <2>4, EmptyInOrder DEF TimeInv
  <2>5. CASE InOrder(timers, clock, expires, disordered')
    <3> DEFINE dis == disordered'
    <3>1. dis \in BOOLEAN /\ InOrder(timers, clock, expires, dis)
      BY <2>2, <2>5
    <3> HIDE DEF dis
    <3>2. InOrder(timers', clock, expires', dis) /\ InTime(stack', clock, expires', ToSet(timers'))
      BY <2>3, <3>1
    <3> QED
      BY <2>1, <3>2 DEF TimeInv, dis
  <2> QED
    BY <2>2, <2>4, <2>5
<1>15. CASE UNCHANGED vars
  BY <1>15 DEF vars, TimeInv
<1> QED
  BY <1>4, <1>5, <1>6, <1>7, <1>8, <1>9, <1>10, <1>11, <1>12, <1>13, <1>14, <1>15
     DEF Next, Serve

\* No timer is later than the server is at the head of the list, for every width
\* of the clock and every delay and however callbacks nest; only one that was put
\* where it does not belong, by a delay that was taken for a time, is later, by
\* the calls around it or by one delay more.
THEOREM TimersArePunctual == Spec => []Punctual
<1>1. Inv /\ TimeInv => Punctual
  <2> SUFFICES ASSUME Inv, TimeInv, NEW x \in ToSet(timers)
               PROVE  \/ Late(x) <= MaxLag
                      \/ /\ disordered
                         /\ Late(x) < MaxNested \/ \E d \in Delays : Late(x) <= MaxLag + d
    BY DEF Punctual
  <2>1. PICK i \in 1 .. Len(timers) : x = timers[i]
    BY DEF ToSet, Inv, ListProper, TypeOK
  <2>2. InWindow(clock, expires[x], disordered)
    BY <2>1 DEF TimeInv, InOrder
  <2> QED
    BY <2>2 DEF InWindow, Late
<1> QED
  BY <1>1, InitInv, NextInv, InitTime, NextTime, PTL DEF Spec
===============================================================================
