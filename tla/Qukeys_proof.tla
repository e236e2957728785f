----------------------------- MODULE Qukeys_proof -----------------------------
(* Proofs about Qukeys, for any number of keys of each kind, a queue of any    *)
(* length and any timeouts and thresholds.                                     *)
EXTENDS Qukeys, SequenceTheorems, FiniteSetTheorems, WellFoundedInduction, TLAPS

-------------------------------------------------------------------------------
(* The inductive invariant.                                                    *)

\* Replay, of any queue.
Quiet(b, k, i, j) == \A m \in i .. j : b[m].key # k

Alternates(s, on) ==
  LET b == s.queue IN
  /\ \A k \in Keys : Quiet(b, k, 1, Len(b)) => (s.down[k] # Up <=> k \in on)
  /\ \A i \in 1 .. Len(b) :
       /\ Quiet(b, b[i].key, 1, i - 1) => (b[i].press <=> s.down[b[i].key] = Up)
       /\ Quiet(b, b[i].key, i + 1, Len(b)) => (b[i].press <=> b[i].key \in on)
       /\ \A j \in 1 .. i - 1 :
            b[j].key = b[i].key /\ Quiet(b, b[i].key, j + 1, i - 1)
              => (b[i].press <=> ~b[j].press)

\* Older events come first, and a recent printable press was older than all.
Aged(s) ==
  /\ \A i \in 1 .. Len(s.queue) : \A j \in 1 .. i : s.queue[i].age <= s.queue[j].age
  /\ s.prior <= MinPrior => \A i \in 1 .. Len(s.queue) : s.queue[i].age <= s.prior

\* The keys scanned that are pressed for the other plugins are in the report,
\* or will be restored.
Held(s)         == {k \in Keys : s.down[k] # Up}
Shown(s, later) == Held(s) \subseteq s.report \cup Restored(s.queue) \cup later

Later == turn .. KeyCount

IInv == /\ turn \in 1 .. Lost /\ pressed \subseteq Keys
        /\ hold \in Holds /\ threshold \in Thresholds
        /\ turn = Lost => hold < MinPrior
        /\ q \in State /\ Len(q.queue) < Capacity
        /\ Alternates(q, pressed) /\ Aged(q)
        /\ turn <= KeyCount + 1 => Shown(q, Later)
        /\ turn = KeyCount + 2 => Held(q) \subseteq q.report

LEMMA PriorFacts == MinPrior \in Nat
<1>1. {MinHold, MinPrior} \subseteq 0 .. 255
  BY QukeysAssumption DEF QukeysAssumption
<1>2. MinPrior \in 0 .. 255
  BY <1>1
<1> QED
  BY <1>2

-------------------------------------------------------------------------------
(* A flush.                                                                    *)

LEMMA EventFacts ==
  ASSUME NEW b \in Seq(Event)
  PROVE  /\ Len(b) \in Nat /\ DOMAIN b = 1 .. Len(b)
         /\ \A i \in 1 .. Len(b) : b[i] \in Event
         /\ b # <<>> <=> Len(b) > 0
<1>1. Len(b) \in Nat /\ DOMAIN b = 1 .. Len(b) /\ \A i \in 1 .. Len(b) : b[i] \in Event
  BY LenProperties, ElementOfSeq
<1>2. b = <<>> <=> Len(b) = 0
  BY EmptySeq, <1>1
<1> QED
  BY <1>1, <1>2

LEMMA TailFacts ==
  ASSUME NEW b \in Seq(Event), b # <<>>
  PROVE  /\ Head(b) = b[1] /\ Tail(b) \in Seq(Event) /\ Len(Tail(b)) = Len(b) - 1
         /\ \A i \in 1 .. Len(b) - 1 : Tail(b)[i] = b[i + 1]
<1>1. /\ Tail(b) \in Seq(Event) /\ Len(Tail(b)) = Len(b) - 1
      /\ \A i \in 1 .. Len(Tail(b)) : Tail(b)[i] = b[i + 1]
  BY HeadTailProperties
<1> QED
  BY <1>1

\* r is what is left of s when d events have been flushed.
Ahead(s, r, d) == /\ d \in Nat /\ Len(r.queue) = Len(s.queue) - d
                  /\ \A i \in 1 .. Len(r.queue) : r.queue[i] = s.queue[i + d]

LEMMA FlushFacts ==
  ASSUME NEW s \in State, NEW v \in Value, s.queue # <<>>
  PROVE  LET r == FlushEvent(s, v)
             e == s.queue[1]
         IN  /\ r \in State /\ Ahead(s, r, 1)
             /\ e \in Event /\ r.down[e.key] = (IF e.press THEN v ELSE Up)
             /\ \A k \in Keys \ {e.key} : r.down[k] = s.down[k]
             /\ r.report = s.report \cup (IF e.press THEN {e.key} ELSE {})
             /\ r.prior \in {s.prior, e.age}
<1> DEFINE b == s.queue
           e == b[1]
           r == FlushEvent(s, v)
<1>1. b \in Seq(Event) /\ b # <<>> /\ s.prior \in Nat /\ s.report \subseteq Keys
      /\ s.down \in [Keys -> Value \cup {Up}]
  BY DEF State
<1>2. /\ Head(b) = e /\ Tail(b) \in Seq(Event) /\ Len(Tail(b)) = Len(b) - 1
      /\ \A i \in 1 .. Len(b) - 1 : Tail(b)[i] = b[i + 1]
  BY <1>1, TailFacts
<1>3. e \in Event /\ Len(b) \in Nat
  BY <1>1, EventFacts
<1>4. r = [queue  |-> Tail(b),
           down   |-> [s.down EXCEPT ![e.key] = IF e.press THEN v ELSE Up],
           prior  |-> IF e.press /\ ~IsModifierKey(v) THEN e.age ELSE s.prior,
           report |-> s.report \cup (IF e.press THEN {e.key} ELSE {})]
  BY <1>2 DEF FlushEvent
<1> HIDE DEF b, e, r
<1>5. e.key \in Keys /\ e.age \in Nat
  BY <1>3 DEF Event
<1>6. r \in State
  BY <1>1, <1>2, <1>4, <1>5 DEF State
<1>7. Ahead(s, r, 1)
  <2>1. r.queue = Tail(b)
    BY <1>4
  <2> QED
    BY <1>2, <1>3, <2>1 DEF Ahead, b
<1>8. r.down[e.key] = (IF e.press THEN v ELSE Up) /\ \A k \in Keys \ {e.key} : r.down[k] = s.down[k]
  BY <1>1, <1>4, <1>5
<1>9. /\ r.report = s.report \cup (IF e.press THEN {e.key} ELSE {})
      /\ r.prior \in {s.prior, e.age}
  BY <1>4
<1> QED
  BY <1>3, <1>6, <1>7, <1>8, <1>9 DEF r, e, b

LEMMA FlushAlternates ==
  ASSUME NEW s \in State, NEW v \in Value, s.queue # <<>>, NEW on, Alternates(s, on)
  PROVE  Alternates(FlushEvent(s, v), on)
<1> DEFINE b == s.queue
           e == b[1]
           r == FlushEvent(s, v)
           c == r.queue
<1>1. /\ r \in State /\ e \in Event
      /\ Len(c) = Len(b) - 1 /\ \A i \in 1 .. Len(c) : c[i] = b[i + 1]
      /\ r.down[e.key] = (IF e.press THEN v ELSE Up)
      /\ \A k \in Keys \ {e.key} : r.down[k] = s.down[k]
  BY FlushFacts DEF Ahead
<1>2. Len(b) \in Nat /\ Len(b) > 0 /\ \A i \in 1 .. Len(b) : b[i] \in Event
  BY EventFacts DEF State
<1>3. v # Up
  BY DEF Value, Up
<1>4. /\ \A k \in Keys : Quiet(b, k, 1, Len(b)) => (s.down[k] # Up <=> k \in on)
      /\ \A i \in 1 .. Len(b) :
           /\ Quiet(b, b[i].key, 1, i - 1) => (b[i].press <=> s.down[b[i].key] = Up)
           /\ Quiet(b, b[i].key, i + 1, Len(b)) => (b[i].press <=> b[i].key \in on)
           /\ \A j \in 1 .. i - 1 :
                b[j].key = b[i].key /\ Quiet(b, b[i].key, j + 1, i - 1)
                  => (b[i].press <=> ~b[j].press)
  BY DEF Alternates
<1> HIDE DEF b, e, r, c
<1>5. e = b[1] /\ \A i \in 1 .. Len(b) : b[i].key \in Keys
  BY <1>2 DEF Event, e
\* A stretch of the new queue is one of the old queue.
<1>6. \A k \in Keys, i \in 1 .. Len(c) + 1, j \in 0 .. Len(c) :
        Quiet(c, k, i, j) => Quiet(b, k, i + 1, j + 1)
  <2>1. SUFFICES ASSUME NEW k \in Keys, NEW i \in 1 .. Len(c) + 1, NEW j \in 0 .. Len(c),
                        Quiet(c, k, i, j), NEW m \in i + 1 .. j + 1
                 PROVE  b[m].key # k
    BY DEF Quiet
  <2>2. m - 1 \in i .. j /\ m - 1 \in 1 .. Len(c) /\ (m - 1) + 1 = m
    BY <1>1, <1>2, <2>1
  <2> QED
    BY <1>1, <2>1, <2>2 DEF Quiet
<1>7. ASSUME NEW k \in Keys, NEW i \in 0 .. Len(c), Quiet(c, k, 1, i), k # e.key
      PROVE  Quiet(b, k, 1, i + 1)
  <2>1. Quiet(b, k, 2, i + 1)
    BY <1>1, <1>2, <1>6, <1>7
  <2> QED
    BY <1>5, <1>7, <2>1 DEF Quiet
<1>8. e.press <=> r.down[e.key] # Up
  BY <1>1, <1>3
<1>9. ASSUME NEW k \in Keys, Quiet(c, k, 1, Len(c))
      PROVE  r.down[k] # Up <=> k \in on
  <2>1. CASE k = e.key
    <3>1. Quiet(b, k, 2, Len(b))
      BY <1>1, <1>2, <1>6, <1>9
    <3>2. e.press <=> k \in on
      BY <1>2, <1>4, <1>5, <2>1, <3>1
    <3> QED
      BY <1>8, <2>1, <3>2
  <2>2. CASE k # e.key
    <3>1. Quiet(b, k, 1, Len(b))
      BY <1>1, <1>2, <1>7, <1>9, <2>2
    <3> QED
      BY <1>1, <1>4, <2>2, <3>1
  <2> QED
    BY <2>1, <2>2
<1>10. ASSUME NEW i \in 1 .. Len(c), Quiet(c, c[i].key, 1, i - 1)
       PROVE  c[i].press <=> r.down[c[i].key] = Up
  <2> DEFINE k == c[i].key
  <2>1. i + 1 \in 1 .. Len(b) /\ c[i] = b[i + 1] /\ k \in Keys
    BY <1>1, <1>2, <1>5, <1>10
  <2>2. CASE k = e.key
    <3>1. Quiet(b, k, 2, i)
      BY <1>1, <1>2, <1>6, <1>10, <2>1
    <3>2. b[i + 1].press <=> ~b[1].press
      BY <1>2, <1>4, <1>5, <2>1, <2>2, <3>1
    <3> QED
      BY <1>5, <1>8, <2>1, <2>2, <3>2
  <2>3. CASE k # e.key
    <3>1. Quiet(b, k, 1, i)
      <4>1. i - 1 \in 0 .. Len(c) /\ (i - 1) + 1 = i
        BY <1>1, <1>2
      <4>2. Quiet(b, k, 1, (i - 1) + 1)
        BY <1>7, <1>10, <2>1, <2>3, <4>1
      <4> QED
        BY <4>1, <4>2
    <3> QED
      BY <1>1, <1>4, <2>1, <2>3, <3>1
  <2> QED
    BY <2>2, <2>3
<1>11. ASSUME NEW i \in 1 .. Len(c), Quiet(c, c[i].key, i + 1, Len(c))
       PROVE  c[i].press <=> c[i].key \in on
  <2>1. i + 1 \in 1 .. Len(b) /\ c[i] = b[i + 1] /\ c[i].key \in Keys
    BY <1>1, <1>2, <1>5, <1>11
  <2>2. Quiet(b, c[i].key, i + 2, Len(b))
    BY <1>1, <1>2, <1>6, <1>11, <2>1
  <2> QED
    BY <1>4, <2>1, <2>2
<1>12. ASSUME NEW i \in 1 .. Len(c), NEW j \in 1 .. i - 1,
              c[j].key = c[i].key, Quiet(c, c[i].key, j + 1, i - 1)
       PROVE  c[i].press <=> ~c[j].press
  <2>1. /\ i + 1 \in 1 .. Len(b) /\ c[i] = b[i + 1] /\ c[i].key \in Keys
        /\ j + 1 \in 1 .. (i + 1) - 1 /\ c[j] = b[j + 1]
    BY <1>1, <1>2, <1>5, <1>12
  <2>2. Quiet(b, c[i].key, (j + 1) + 1, (i + 1) - 1)
    <3>1. /\ j + 1 \in 1 .. Len(c) + 1 /\ i - 1 \in 0 .. Len(c)
          /\ (i - 1) + 1 = (i + 1) - 1
      BY <1>1, <1>2
    <3>2. Quiet(b, c[i].key, (j + 1) + 1, (i - 1) + 1)
      BY <1>6, <1>12, <2>1, <3>1
    <3> QED
      BY <3>1, <3>2
  <2> QED
    BY <1>4, <1>12, <2>1, <2>2
<1>13. Alternates(r, on)
  BY <1>9, <1>10, <1>11, <1>12 DEF Alternates, c
<1> QED
  BY <1>13 DEF r

LEMMA FlushAged ==
  ASSUME NEW s \in State, NEW v \in Value, s.queue # <<>>, Aged(s)
  PROVE  Aged(FlushEvent(s, v))
<1> DEFINE r == FlushEvent(s, v)
<1>1. /\ Len(r.queue) = Len(s.queue) - 1 /\ r.prior \in {s.prior, s.queue[1].age}
      /\ \A i \in 1 .. Len(r.queue) : r.queue[i] = s.queue[i + 1]
  BY FlushFacts DEF Ahead
<1>2. /\ Len(s.queue) \in Nat /\ s.prior \in Nat /\ MinPrior \in Nat
      /\ \A i \in 1 .. Len(s.queue) : s.queue[i].age \in Nat
  <2>1. s.queue \in Seq(Event) /\ s.prior \in Nat
    BY DEF State
  <2>2. MinPrior \in Nat
    BY PriorFacts
  <2>3. Len(s.queue) \in Nat /\ \A i \in 1 .. Len(s.queue) : s.queue[i] \in Event
    BY <2>1, EventFacts
  <2> QED
    BY <2>1, <2>2, <2>3 DEF Event
<1> HIDE DEF r
<1>3. ASSUME NEW i \in 1 .. Len(r.queue), NEW j \in 1 .. i
      PROVE  r.queue[i].age <= r.queue[j].age
  <2>1. /\ i + 1 \in 1 .. Len(s.queue) /\ j + 1 \in 1 .. i + 1
        /\ r.queue[i] = s.queue[i + 1] /\ r.queue[j] = s.queue[j + 1]
    BY <1>1, <1>2
  <2> QED
    BY <2>1 DEF Aged
<1>4. ASSUME r.prior <= MinPrior, NEW i \in 1 .. Len(r.queue)
      PROVE  r.queue[i].age <= r.prior
  <2>1. i + 1 \in 1 .. Len(s.queue) /\ 1 \in 1 .. i + 1 /\ r.queue[i] = s.queue[i + 1]
    BY <1>1, <1>2
  <2> QED
    BY <1>1, <1>2, <1>4, <2>1 DEF Aged
<1>5. Aged(r)
  BY <1>3, <1>4 DEF Aged
<1> QED
  BY <1>5 DEF r

\* Keys held for the other plugins stay in the report.
LEMMA FlushShown ==
  ASSUME NEW s \in State, NEW v \in Value, s.queue # <<>>
  PROVE  LET r == FlushEvent(s, v)
         IN  /\ r.report \subseteq Keys
             /\ Held(s) \subseteq s.report => Held(r) \subseteq r.report
             /\ \A later : Shown(s, later) => Shown(r, later)
<1> DEFINE r == FlushEvent(s, v)
           e == s.queue[1]
<1>1. /\ r \in State /\ Ahead(s, r, 1) /\ e \in Event
      /\ r.down[e.key] = (IF e.press THEN v ELSE Up)
      /\ \A k \in Keys \ {e.key} : r.down[k] = s.down[k]
      /\ r.report = s.report \cup (IF e.press THEN {e.key} ELSE {})
  BY FlushFacts
<1>2. Len(s.queue) \in Nat /\ Len(s.queue) > 0
  BY EventFacts DEF State
<1>3. DOMAIN r.queue = 1 .. Len(r.queue) /\ DOMAIN s.queue = 1 .. Len(s.queue)
  BY <1>1, EventFacts DEF State
<1> HIDE DEF r
<1>4. Held(r) \subseteq Held(s) \cup r.report
  BY <1>1 DEF Held
<1>5. e.key \in Held(r) => e.key \in r.report
  BY <1>1 DEF Held
<1>6. ASSUME NEW k \in Restored(s.queue), k # e.key
      PROVE  k \in Restored(r.queue)
  <2>1. PICK i \in 1 .. Len(s.queue) :
          /\ k = s.queue[i].key /\ ~s.queue[i].press
          /\ \A j \in 1 .. i - 1 : s.queue[j].key # k
    BY <1>3 DEF Restored
  <2>2. i # 1
    BY <1>6, <2>1
  <2>3. i - 1 \in 1 .. Len(r.queue) /\ (i - 1) + 1 = i
    BY <1>1, <1>2, <2>2 DEF Ahead
  <2>4. r.queue[i - 1] = s.queue[i]
    BY <1>1, <2>3 DEF Ahead
  <2>5. ASSUME NEW j \in 1 .. (i - 1) - 1
        PROVE  r.queue[j].key # k
    <3>1. j \in 1 .. Len(r.queue) /\ j + 1 \in 1 .. i - 1
      BY <1>1, <1>2, <2>3 DEF Ahead
    <3> QED
      BY <1>1, <2>1, <3>1 DEF Ahead
  <2> QED
    BY <1>3, <2>1, <2>3, <2>4, <2>5 DEF Restored
<1>7. Held(s) \subseteq s.report => Held(r) \subseteq r.report
  BY <1>1, <1>4
<1>8. \A later : Shown(s, later) => Shown(r, later)
  BY <1>1, <1>4, <1>5, <1>6 DEF Shown
<1>9. r.report \subseteq Keys
  BY <1>1 DEF State
<1> QED
  BY <1>7, <1>8, <1>9 DEF r

\* What processQueue() and the hold timeout keep of s.
Keeps(s, r) ==
  /\ r \in State
  /\ \A on : Alternates(s, on) => Alternates(r, on)
  /\ Aged(s) => Aged(r)
  /\ Held(s) \subseteq s.report => Held(r) \subseteq r.report
  /\ \A later : Shown(s, later) => Shown(r, later)

LEMMA FlushKeeps ==
  ASSUME NEW s \in State, NEW v \in Value, s.queue # <<>>
  PROVE  Keeps(s, FlushEvent(s, v)) /\ Ahead(s, FlushEvent(s, v), 1)
BY FlushFacts, FlushAlternates, FlushAged, FlushShown DEF Keeps

LEMMA KeepsTwice ==
  ASSUME NEW s, NEW r, NEW t, Keeps(s, r), Keeps(r, t)
  PROVE  Keeps(s, t)
BY DEF Keeps

LEMMA KeepsNone ==
  ASSUME NEW s \in State
  PROVE  Keeps(s, s) /\ Ahead(s, s, 0)
<1>1. Len(s.queue) \in Nat
  BY EventFacts DEF State
<1> QED
  BY <1>1 DEF Keeps, Ahead
-------------------------------------------------------------------------------
(* processQueue().                                                             *)

\* A finite set of numbers that is not empty has a least and a greatest
\* member: of the sets of the members beyond one, take one that includes no other.
LEMMA MinMaxOf ==
  ASSUME NEW S \in SUBSET Nat, S # {}, IsFiniteSet(S)
  PROVE  /\ Min(S) \in S /\ \A y \in S : Min(S) <= y
         /\ Max(S) \in S /\ \A y \in S : y <= Max(S)
<1> DEFINE R == StrictSubsetOrdering(S)
           Below == {{y \in S : y < x} : x \in S}
           Above == {{y \in S : y > x} : x \in S}
<1>1. IsWellFoundedOn(R, SUBSET S)
  <2>1. FiniteSubsetsOf(S) = SUBSET S
    BY FS_FiniteSubsetsOfFinite
  <2> QED
    BY <2>1, FS_StrictSubsetOrderingWellFounded
<1>2. /\ Below \subseteq SUBSET S /\ Below # {}
      /\ Above \subseteq SUBSET S /\ Above # {}
  OBVIOUS
<1>3. /\ \E b \in Below : \A u \in Below : <<u, b>> \notin R
      /\ \E a \in Above : \A u \in Above : <<u, a>> \notin R
  <2> HIDE DEF R, Below, Above
  <2> QED
    BY <1>1, <1>2, WFMin
<1> S \subseteq Nat
  OBVIOUS
<1>4. \E x \in S : \A y \in S : x <= y
  <2>1. PICK x \in S : \A u \in Below : <<u, {y \in S : y < x}>> \notin R
    BY <1>3
  <2>2. ASSUME NEW y \in S, y < x
        PROVE  FALSE
    <3>1. {z \in S : z < y} \subseteq {z \in S : z < x} /\ y \in {z \in S : z < x} \ {z \in S : z < y}
      <4>1. \A z \in S : z < y => z < x
        BY <2>2
      <4>2. y < x /\ ~(y < y)
        BY <2>2
      <4> QED
        BY <4>1, <4>2
    <3>2. <<{z \in S : z < y}, {z \in S : z < x}>> \in R
      BY <3>1 DEF StrictSubsetOrdering
    <3> QED
      BY <2>1, <3>2
  <2> QED
    BY <2>2
<1>5. \E x \in S : \A y \in S : x >= y
  <2>1. PICK x \in S : \A u \in Above : <<u, {y \in S : y > x}>> \notin R
    BY <1>3
  <2>2. ASSUME NEW y \in S, y > x
        PROVE  FALSE
    <3>1. {z \in S : z > y} \subseteq {z \in S : z > x} /\ y \in {z \in S : z > x} \ {z \in S : z > y}
      <4>1. \A z \in S : z > y => z > x
        BY <2>2
      <4>2. y > x /\ ~(y > y)
        BY <2>2
      <4> QED
        BY <4>1, <4>2
    <3>2. <<{z \in S : z > y}, {z \in S : z > x}>> \in R
      BY <3>1 DEF StrictSubsetOrdering
    <3> QED
      BY <2>1, <3>2
  <2> QED
    BY <2>2
<1> QED
  BY <1>4, <1>5 DEF Min, Max

LEMMA RoleFacts ==
  ASSUME NEW h \in Keys, NEW role \in {"primary", "alternate"}
  PROVE  [key |-> h, role |-> role] \in Value
BY DEF Value

\* A search finds an event that decides about the head, or the queue has room.
LEMMA SearchKeeps ==
  ASSUME NEW s \in State, NEW h \in Keys
  PROVE  LET r == Search(s, h)
         IN  \/ r.done /\ Keeps(s, r.s) /\ Ahead(s, r.s, 1) /\ s.queue # <<>>
             \/ ~r.done /\ r.s = s /\ ~Full(s)
<1> DEFINE hits == {i \in 2 .. Len(s.queue) : Verdicts(s.queue, h, i) # {}}
           Flushed(role) == [s |-> FlushEvent(s, [key |-> h, role |-> role]), done |-> TRUE]
           r == Search(s, h)
<1>1. /\ Len(s.queue) \in Nat /\ (Len(s.queue) > 0 => s.queue # <<>>)
      /\ Capacity \in Nat /\ Capacity > 0
  BY EventFacts, QukeysAssumption DEF State, QukeysAssumption
<1>2. ASSUME NEW role \in {"primary", "alternate"}, s.queue # <<>>
      PROVE  /\ Flushed(role).done /\ Keeps(s, Flushed(role).s)
             /\ Ahead(s, Flushed(role).s, 1)
  BY <1>2, RoleFacts, FlushKeeps
<1>3. r = IF hits # {}
          THEN Flushed(CHOOSE x \in Verdicts(s.queue, h, Min(hits)) : TRUE)
          ELSE IF Full(s) THEN Flushed("primary") ELSE [s |-> s, done |-> FALSE]
  BY DEF Search
<1>4. hits \subseteq Nat /\ (hits # {} => s.queue # <<>>) /\ IsFiniteSet(hits)
  <2>1. hits \subseteq 2 .. Len(s.queue) /\ IsFiniteSet(2 .. Len(s.queue))
    BY <1>1, FS_Interval
  <2>2. IsFiniteSet(hits)
    BY <2>1, FS_Subset
  <2> QED
    BY <1>1, <2>2
<1>5. hits # {} => (CHOOSE x \in Verdicts(s.queue, h, Min(hits)) : TRUE) \in {"primary", "alternate"}
  <2>1. SUFFICES ASSUME hits # {}
                 PROVE  (CHOOSE x \in Verdicts(s.queue, h, Min(hits)) : TRUE)
                          \in {"primary", "alternate"}
    OBVIOUS
  <2>2. Min(hits) \in hits
    <3> HIDE DEF hits
    <3> QED
      BY <1>4, <2>1, MinMaxOf
  <2>3. Verdicts(s.queue, h, Min(hits)) # {}
    BY <2>2
  <2>4. Verdicts(s.queue, h, Min(hits)) \subseteq {"primary", "alternate"}
    BY DEF Verdicts
  <2> QED
    BY <2>3, <2>4
<1> HIDE DEF hits, r
<1>6. CASE hits # {}
  BY <1>2, <1>3, <1>4, <1>5, <1>6 DEF r
<1>7. CASE hits = {} /\ Full(s)
  <2>1. s.queue # <<>>
    BY <1>1, <1>7 DEF Full
  <2> QED
    BY <1>2, <1>3, <1>7, <2>1 DEF r
<1>8. CASE hits = {} /\ ~Full(s)
  BY <1>3, <1>8 DEF r
<1> QED
  BY <1>6, <1>7, <1>8

LEMMA AheadTwice ==
  ASSUME NEW s \in State, NEW r \in State, NEW t \in State, NEW c, NEW d,
         Ahead(s, r, c), Ahead(r, t, d)
  PROVE  Ahead(s, t, c + d)
<1>1. Len(s.queue) \in Nat /\ Len(r.queue) \in Nat /\ Len(t.queue) \in Nat
  BY EventFacts DEF State
<1>2. c \in Nat /\ d \in Nat /\ Len(t.queue) = Len(s.queue) - (c + d)
  BY <1>1 DEF Ahead
<1>3. ASSUME NEW i \in 1 .. Len(t.queue)
      PROVE  t.queue[i] = s.queue[i + (c + d)]
  <2>1. /\ i + d \in 1 .. Len(r.queue) /\ t.queue[i] = r.queue[i + d]
        /\ (i + d) + c = i + (c + d)
    BY <1>1, <1>2 DEF Ahead
  <2>2. r.queue[i + d] = s.queue[(i + d) + c]
    BY <2>1 DEF Ahead
  <2> QED
    BY <2>1, <2>2
<1> QED
  BY <1>2, <1>3 DEF Ahead

\* A full queue loses its head, and so does one that processQueue() is done
\* with; the early flush happens soon after a printable press only.
LEMMA ProcessKeeps ==
  ASSUME NEW s \in State
  PROVE  LET r == ProcessQueue(s)
         IN  \E d \in Nat :
               /\ Keeps(s, r.s) /\ Ahead(s, r.s, d)
               /\ Full(s) => d > 0
               /\ r.done => s.queue = <<>> \/ d > 0
               /\ ~r.done => s.queue # <<>> /\ (d > 0 => s.prior <= MinPrior)
<1> DEFINE h == Head(s.queue).key
           primary == FlushEvent(s, [key |-> h, role |-> "primary"])
           r == ProcessQueue(s)
<1>1. r = IF s.queue = <<>> THEN [s |-> s, done |-> TRUE]
          ELSE IF ~Head(s.queue).press \/ h \notin Qukey \cup SpaceCadet
               THEN [s |-> primary, done |-> TRUE]
               ELSE Search(IF TooSoon(s, h) THEN primary ELSE s, h)
  BY DEF ProcessQueue
<1>2. Len(s.queue) \in Nat /\ (s.queue # <<>> <=> Len(s.queue) > 0) /\ Capacity \in Nat \ {0, 1}
  BY EventFacts, QukeysAssumption DEF State, QukeysAssumption
<1>3. CASE s.queue = <<>>
  <2>1. ~Full(s) /\ r = [s |-> s, done |-> TRUE]
    BY <1>1, <1>2, <1>3 DEF Full
  <2> QED
    BY <1>3, <2>1, KeepsNone
<1>4. CASE s.queue # <<>>
  <2>1. h \in Keys
    <3>1. s.queue \in Seq(Event)
      BY DEF State
    <3>2. Head(s.queue) \in Event
      BY <1>2, <1>4, <3>1, EventFacts, TailFacts
    <3> QED
      BY <3>2 DEF Event
  <2>2. Keeps(s, primary) /\ Ahead(s, primary, 1) /\ primary \in State
    BY <1>4, <2>1, RoleFacts, FlushKeeps DEF Keeps
  <2> HIDE DEF h, primary, r
  <2>3. CASE ~Head(s.queue).press \/ h \notin Qukey \cup SpaceCadet
    <3>1. r = [s |-> primary, done |-> TRUE]
      BY <1>1, <1>4, <2>3
    <3> QED
      BY <1>4, <2>2, <3>1 DEF r
  <2>4. CASE ~(~Head(s.queue).press \/ h \notin Qukey \cup SpaceCadet)
    <3>1. CASE TooSoon(s, h)
      <4>1. r = Search(primary, h)
        BY <1>1, <1>4, <2>4, <3>1
      <4>2. s.prior <= MinPrior
        BY <3>1 DEF TooSoon
      <4>3. CASE r.done /\ Keeps(primary, r.s) /\ Ahead(primary, r.s, 1)
        <5>1. Keeps(s, r.s) /\ Ahead(s, r.s, 1 + 1)
          BY <2>2, <4>3, KeepsTwice, AheadTwice DEF Keeps
        <5> QED
          BY <4>3, <5>1 DEF r
      <4>4. CASE ~r.done /\ r.s = primary
        BY <1>4, <2>2, <4>2, <4>4 DEF r
      <4> QED
        BY <2>1, <2>2, <4>1, <4>3, <4>4, SearchKeeps
    <3>2. CASE ~TooSoon(s, h)
      <4>1. r = Search(s, h)
        BY <1>1, <1>4, <2>4, <3>2
      <4>2. CASE r.done /\ Keeps(s, r.s) /\ Ahead(s, r.s, 1)
        BY <4>2 DEF r
      <4>3. CASE ~r.done /\ r.s = s /\ ~Full(s)
        BY <1>4, <4>3, KeepsNone DEF r
      <4> QED
        BY <2>1, <4>1, <4>2, <4>3, SearchKeeps
    <3> QED
      BY <3>1, <3>2
  <2> QED
    BY <2>3, <2>4
<1> QED
  BY <1>3, <1>4
-------------------------------------------------------------------------------
(* The loop.                                                                   *)

LEMMA InitInv == Init => IInv
<1> SUFFICES ASSUME Init PROVE IInv
  OBVIOUS
<1>1. /\ turn = 1 /\ pressed = {} /\ q.queue = <<>> /\ q.down = [k \in Keys |-> Up]
      /\ q.prior = MinPrior + 1 /\ q.report = {}
      /\ hold \in Holds /\ threshold \in Thresholds
  BY DEF Init
<1>2. q \in State /\ MinPrior \in Nat /\ KeyCount \in Nat /\ KeyCount > 0 /\ Capacity \in Nat /\ Capacity > 0
  <2>1. MinPrior \in Nat /\ KeyCount \in Nat /\ KeyCount > 0 /\ Capacity \in Nat /\ Capacity > 0
    BY PriorFacts, QukeysAssumption DEF QukeysAssumption
  <2> QED
    BY <2>1 DEF Init, State
<1>3. Len(q.queue) = 0 /\ Held(q) = {}
  BY <1>1 DEF Held
<1>4. Alternates(q, pressed) /\ Aged(q) /\ Shown(q, Later)
  BY <1>1, <1>2, <1>3 DEF Alternates, Aged, Shown
<1> QED
  BY <1>1, <1>2, <1>3, <1>4 DEF IInv, Lost

\* beforeReportingState() restores the released keys before it flushes.
Restoring == [q EXCEPT !.report = @ \cup Restored(q.queue),
                       !.prior = IF @ > MinPrior THEN MinPrior + 1 ELSE @]

\* The head is gone when it has waited too long.  An event is flushed from an
\* empty queue only after an early flush of its last event, which opens with a
\* printable press that is older than the event that times out.
LEMMA BeforeKeeps ==
  ASSUME IInv, BeforeReportingState
  PROVE  \E d \in Nat :
           /\ Keeps(Restoring, q') /\ Ahead(q, q', d)
           /\ q.queue # <<>> /\ q.queue[1].age > hold => d > 0
           /\ turn' = KeyCount + 2 \/ (turn' = Lost /\ hold < MinPrior)
<1> DEFINE s == Restoring
           r == ProcessQueue(s)
           b == r.s
           h == Head(s.queue).key
<1>1. /\ s.queue = q.queue /\ s.prior = (IF q.prior > MinPrior THEN MinPrior + 1 ELSE q.prior)
      /\ s \in State
  <2>1. q \in State /\ Restored(q.queue) \subseteq Keys /\ MinPrior \in Nat
    <3>1. q \in State /\ MinPrior \in Nat
      BY PriorFacts DEF IInv
    <3>2. \A i \in DOMAIN q.queue : q.queue[i].key \in Keys
      BY <3>1, EventFacts DEF State, Event
    <3> QED
      BY <3>1, <3>2 DEF Restored
  <2> DEFINE p == IF q.prior > MinPrior THEN MinPrior + 1 ELSE q.prior
             rep == q.report \cup Restored(q.queue)
  <2>2. s = [q EXCEPT !.report = rep, !.prior = p]
    BY DEF Restoring
  <2>3. p \in Nat /\ rep \subseteq Keys
    BY <2>1 DEF State
  <2> HIDE DEF p, rep, s
  <2>4. s.queue = q.queue /\ s.prior = p /\ s \in State
    BY <2>1, <2>2, <2>3 DEF State
  <2> QED
    BY <2>4 DEF p
<1> DEFINE late == ~r.done /\ HoldTimeout(Slots(s, b))
<1>2. \/ /\ late => b.queue # <<>>
         /\ q' = (IF late THEN TimedOut(b, h) ELSE b) /\ turn' = KeyCount + 2
      \/ late /\ b.queue = <<>> /\ q' = b /\ turn' = Lost
  BY DEF BeforeReportingState, Restoring
<1>3. PICK d \in Nat : /\ Keeps(s, b) /\ Ahead(s, b, d)
                       /\ r.done => s.queue = <<>> \/ d > 0
                       /\ ~r.done => s.queue # <<>> /\ (d > 0 => s.prior <= MinPrior)
  BY <1>1, ProcessKeeps
<1> HIDE DEF s, r
<1>4. /\ Len(s.queue) \in Nat /\ (s.queue # <<>> <=> Len(s.queue) > 0)
      /\ Len(b.queue) \in Nat /\ (b.queue # <<>> <=> Len(b.queue) > 0)
      /\ b \in State
      /\ \A i \in 1 .. Len(s.queue) : s.queue[i] \in Event
  <2>1. b \in State
    BY <1>3 DEF Keeps
  <2> QED
    BY <1>1, <2>1, EventFacts DEF State
<1>5. s.queue # <<>> => h \in Keys
  <2>1. s.queue # <<>> => Head(s.queue) \in Event
    BY <1>1, <1>4, TailFacts DEF State
  <2> QED
    BY <2>1 DEF Event
<1>6. CASE late /\ b.queue = <<>>
  <2>1. s.queue # <<>> /\ q' = b /\ turn' = Lost
    BY <1>2, <1>3, <1>6
  <2>2. s.queue[1].age > hold
    BY <1>6 DEF HoldTimeout, Slots
  <2>3. d > 0
    BY <1>3, <1>4, <1>6, <2>1 DEF Ahead
  <2>4. q.prior <= MinPrior
    <3>1. s.prior <= MinPrior /\ MinPrior \in Nat /\ q.prior \in Nat
      BY <1>3, <1>6, <2>3, PriorFacts DEF IInv, State
    <3> QED
      BY <1>1, <3>1
  <2>5. s.queue[1].age <= q.prior
    BY <1>1, <1>4, <2>1, <2>4 DEF IInv, Aged
  <2>6. hold < MinPrior
    <3>1. MinPrior \in Nat /\ hold \in Nat
      <4>1. hold \in Holds /\ Holds \subseteq Nat
        <5>1. Holds \subseteq Nat
          BY QukeysAssumption DEF QukeysAssumption
        <5> QED
          BY <5>1 DEF IInv
      <4> QED
        BY <4>1, PriorFacts
    <3>2. q.prior \in Nat
      BY DEF IInv, State
    <3>3. s.queue[1].age \in Nat
      BY <1>4, <2>1 DEF Event
    <3> QED
      BY <2>2, <2>4, <2>5, <3>1, <3>2, <3>3
  <2>7. Ahead(q, q', d)
    BY <1>1, <1>3, <2>1 DEF Ahead
  <2> QED
    BY <1>3, <2>1, <2>3, <2>6, <2>7 DEF s
<1>7. CASE late /\ b.queue # <<>>
  <2>1. s.queue # <<>>
    BY <1>3, <1>7
  <2>2. b.queue # <<>> /\ turn' = KeyCount + 2
    BY <1>2, <1>7
  <2> DEFINE v == [key |-> h, role |-> IF h \in SpaceCadet THEN "primary" ELSE "alternate"]
  <2>3. v \in Value /\ q' = FlushEvent(b, v)
    BY <1>2, <1>5, <1>7, <2>1 DEF TimedOut, Value
  <2> HIDE DEF v
  <2>4. Keeps(b, q') /\ Ahead(b, q', 1) /\ q' \in State
    BY <1>4, <2>2, <2>3, FlushKeeps DEF Keeps
  <2>5. Keeps(s, q') /\ Ahead(s, q', d + 1) /\ d + 1 > 0
    <3> HIDE DEF b
    <3>1. Keeps(s, q')
      BY <1>3, <2>4, KeepsTwice
    <3>2. Ahead(s, q', d + 1)
      BY <1>1, <1>3, <1>4, <2>4, AheadTwice
    <3> QED
      BY <3>1, <3>2
  <2>6. Ahead(q, q', d + 1)
    BY <1>1, <2>5 DEF Ahead
  <2>7. Keeps(Restoring, q') /\ d + 1 \in Nat
    BY <2>5 DEF s
  <2> HIDE DEF late
  <2> QED
    BY <2>2, <2>5, <2>6, <2>7
<1>8. CASE ~late
  <2>1. q' = b /\ turn' = KeyCount + 2
    BY <1>2, <1>8
  <2>2. ASSUME q.queue # <<>>, q.queue[1].age > hold, d = 0
        PROVE  FALSE
    <3>1. ~r.done
      BY <1>1, <1>3, <2>2
    <3>2. b.queue # <<>> /\ b.queue[1] = s.queue[1]
      BY <1>1, <1>3, <1>4, <2>2 DEF Ahead
    <3> QED
      BY <1>1, <1>8, <2>2, <3>1, <3>2 DEF Slots, HoldTimeout
  <2>3. q.queue # <<>> /\ q.queue[1].age > hold => d > 0
    BY <2>2
  <2>4. Ahead(q, q', d)
    BY <1>1, <1>3, <2>1 DEF Ahead
  <2>5. Keeps(s, q')
    BY <1>3, <2>1
  <2>6. Keeps(Restoring, q')
    BY <2>5 DEF s
  <2> HIDE DEF late
  <2> QED
    BY <2>1, <2>3, <2>4, <2>6
<1> QED
  BY <1>6, <1>7, <1>8
-------------------------------------------------------------------------------
(* A key is scanned.                                                           *)

\* The first event of a key that is held for the other plugins is a release.
LEMMA FirstIsRelease ==
  ASSUME NEW s \in State, NEW on, Alternates(s, on), NEW k \in Held(s),
         ~Quiet(s.queue, k, 1, Len(s.queue))
  PROVE  k \in Restored(s.queue)
<1> DEFINE b == s.queue
           S == {i \in 1 .. Len(b) : b[i].key = k}
<1>1. Len(b) \in Nat /\ DOMAIN b = 1 .. Len(b)
  BY EventFacts DEF State
<1>2. S \in SUBSET Nat /\ S # {} /\ IsFiniteSet(S)
  <2>1. S # {}
    BY DEF Quiet
  <2>2. IsFiniteSet(1 .. Len(b)) /\ S \subseteq 1 .. Len(b)
    BY <1>1, FS_Interval
  <2>3. IsFiniteSet(S)
    BY <2>2, FS_Subset
  <2> QED
    BY <1>1, <2>1, <2>3
<1>3. PICK i \in S : \A j \in S : i <= j
  <2> HIDE DEF S
  <2> QED
    BY <1>2, MinMaxOf
<1>4. i \in 1 .. Len(b) /\ b[i].key = k /\ \A j \in 1 .. i - 1 : b[j].key # k
  BY <1>1, <1>3
<1>5. ~b[i].press
  BY <1>4 DEF Alternates, Quiet, Held
<1> QED
  BY <1>1, <1>4, <1>5 DEF Restored

\* Toggles(on, was, now): the switch of k changes to on.
Toggles(k, on, was, now) ==
  IF on THEN k \notin was /\ now = was \cup {k} ELSE k \in was /\ now = was \ {k}

Appended(s, k, on) ==
  [s EXCEPT !.queue = Append(s.queue, [key |-> k, press |-> on, age |-> 0])]

LEMMA AppendFacts ==
  ASSUME NEW s \in State, NEW k \in Keys, NEW on \in BOOLEAN
  PROVE  LET t == Appended(s, k, on)
         IN  /\ t \in State /\ Len(t.queue) = Len(s.queue) + 1
             /\ \A i \in 1 .. Len(s.queue) : t.queue[i] = s.queue[i]
             /\ t.queue[Len(s.queue) + 1].key = k
             /\ t.queue[Len(s.queue) + 1].press = on
             /\ t.queue[Len(s.queue) + 1].age = 0
             /\ t.down = s.down /\ t.prior = s.prior /\ t.report = s.report
<1> DEFINE e == [key |-> k, press |-> on, age |-> 0]
           t == Appended(s, k, on)
<1>1. e \in Event /\ s.queue \in Seq(Event)
  BY DEF Event, State
<1> e.key = k /\ e.press = on /\ e.age = 0
  OBVIOUS
<1> HIDE DEF e
<1>2. /\ Append(s.queue, e) \in Seq(Event) /\ Len(Append(s.queue, e)) = Len(s.queue) + 1
      /\ \A i \in 1 .. Len(s.queue) : Append(s.queue, e)[i] = s.queue[i]
      /\ Append(s.queue, e)[Len(s.queue) + 1] = e
  BY <1>1, AppendProperties
<1>3. t = [s EXCEPT !.queue = Append(s.queue, e)]
  BY DEF Appended, e
<1> HIDE DEF t
<1>4. /\ t \in State /\ t.queue = Append(s.queue, e)
      /\ t.down = s.down /\ t.prior = s.prior /\ t.report = s.report
  BY <1>2, <1>3 DEF State
<1> QED
  <2>1. t.queue[Len(s.queue) + 1] = e
    BY <1>2, <1>4
  <2> QED
    BY <1>2, <1>4, <2>1 DEF t

LEMMA AppendAlternates ==
  ASSUME NEW s \in State, NEW k \in Keys, NEW on \in BOOLEAN, NEW was, NEW now,
         Alternates(s, was), Toggles(k, on, was, now)
  PROVE  Alternates(Appended(s, k, on), now)
<1> DEFINE b == s.queue
           n == Len(b)
           t == Appended(s, k, on)
           c == t.queue
<1>1. /\ Len(c) = n + 1 /\ t.down = s.down /\ n \in Nat
      /\ \A i \in 1 .. n : c[i] = b[i] /\ b[i].key \in Keys
      /\ c[n + 1].key = k /\ c[n + 1].press = on
  <2>1. n \in Nat /\ \A i \in 1 .. n : b[i] \in Event
    BY EventFacts DEF State
  <2>2. /\ Len(c) = n + 1 /\ t.down = s.down /\ \A i \in 1 .. n : c[i] = b[i]
        /\ c[n + 1].key = k /\ c[n + 1].press = on
    BY AppendFacts
  <2> HIDE DEF b, n, t, c
  <2>3. \A i \in 1 .. n : b[i].key \in Keys
    BY <2>1 DEF Event
  <2> QED
    BY <2>1, <2>2, <2>3
<1>2. /\ \A l \in Keys : Quiet(b, l, 1, n) => (s.down[l] # Up <=> l \in was)
      /\ \A i \in 1 .. n :
           /\ Quiet(b, b[i].key, 1, i - 1) => (b[i].press <=> s.down[b[i].key] = Up)
           /\ Quiet(b, b[i].key, i + 1, n) => (b[i].press <=> b[i].key \in was)
           /\ \A j \in 1 .. i - 1 :
                b[j].key = b[i].key /\ Quiet(b, b[i].key, j + 1, i - 1)
                  => (b[i].press <=> ~b[j].press)
  BY DEF Alternates
<1>3. /\ on <=> k \in now
      /\ on <=> k \notin was
      /\ \A l \in Keys \ {k} : l \in now <=> l \in was
  BY DEF Toggles
<1> HIDE DEF b, n, t, c
<1>4. \A l \in Keys, i \in 1 .. n + 1, j \in 0 .. n : Quiet(c, l, i, j) <=> Quiet(b, l, i, j)
  BY <1>1 DEF Quiet
<1>5. ASSUME NEW l \in Keys, NEW i \in 1 .. n + 1, Quiet(c, l, i, n + 1)
      PROVE  l # k /\ Quiet(b, l, i, n)
  <2>1. n + 1 \in i .. n + 1 /\ i .. n \subseteq i .. n + 1
    BY <1>1
  <2>2. l # k /\ Quiet(c, l, i, n)
    BY <1>1, <1>5, <2>1 DEF Quiet
  <2> QED
    BY <1>1, <1>4, <2>2
<1>6. ASSUME NEW l \in Keys, Quiet(c, l, 1, n + 1)
      PROVE  t.down[l] # Up <=> l \in now
  <2>1. l # k /\ Quiet(b, l, 1, n)
    BY <1>1, <1>5, <1>6
  <2> QED
    BY <1>1, <1>2, <1>3, <2>1
<1>7. ASSUME NEW i \in 1 .. n
      PROVE  /\ Quiet(c, c[i].key, 1, i - 1) => (c[i].press <=> t.down[c[i].key] = Up)
             /\ Quiet(c, c[i].key, i + 1, n + 1) => (c[i].press <=> c[i].key \in now)
             /\ \A j \in 1 .. i - 1 :
                  c[j].key = c[i].key /\ Quiet(c, c[i].key, j + 1, i - 1)
                    => (c[i].press <=> ~c[j].press)
  <2>1. c[i] = b[i] /\ c[i].key \in Keys /\ i - 1 \in 0 .. n /\ i + 1 \in 1 .. n + 1
    BY <1>1
  <2>2. Quiet(c, c[i].key, 1, i - 1) => (c[i].press <=> t.down[c[i].key] = Up)
    BY <1>1, <1>2, <1>4, <2>1
  <2>3. Quiet(c, c[i].key, i + 1, n + 1) => (c[i].press <=> c[i].key \in now)
    BY <1>2, <1>3, <1>5, <2>1
  <2>4. ASSUME NEW j \in 1 .. i - 1, c[j].key = c[i].key, Quiet(c, c[i].key, j + 1, i - 1)
        PROVE  c[i].press <=> ~c[j].press
    <3>1. j \in 1 .. n /\ j + 1 \in 1 .. n + 1 /\ c[j] = b[j]
      BY <1>1
    <3>2. Quiet(b, b[i].key, j + 1, i - 1)
      BY <1>4, <2>1, <2>4, <3>1
    <3> QED
      BY <1>2, <2>1, <2>4, <3>1, <3>2
  <2> QED
    BY <2>2, <2>3, <2>4
<1>8. /\ Quiet(c, k, 1, n) => (on <=> t.down[k] = Up)
      /\ \A j \in 1 .. n : c[j].key = k /\ Quiet(c, k, j + 1, n) => (on <=> ~c[j].press)
  <2>1. Quiet(c, k, 1, n) => (on <=> t.down[k] = Up)
    BY <1>1, <1>2, <1>3, <1>4
  <2>2. ASSUME NEW j \in 1 .. n, c[j].key = k, Quiet(c, k, j + 1, n)
        PROVE  on <=> ~c[j].press
    <3>1. c[j] = b[j] /\ j + 1 \in 1 .. n + 1 /\ n \in 0 .. n
      BY <1>1
    <3>2. Quiet(b, b[j].key, j + 1, n)
      BY <1>4, <2>2, <3>1
    <3> QED
      BY <1>2, <1>3, <2>2, <3>1, <3>2
  <2> QED
    BY <2>1, <2>2
<1>9. ASSUME NEW i \in 1 .. Len(c)
      PROVE  /\ Quiet(c, c[i].key, 1, i - 1) => (c[i].press <=> t.down[c[i].key] = Up)
             /\ Quiet(c, c[i].key, i + 1, Len(c)) => (c[i].press <=> c[i].key \in now)
             /\ \A j \in 1 .. i - 1 :
                  c[j].key = c[i].key /\ Quiet(c, c[i].key, j + 1, i - 1)
                    => (c[i].press <=> ~c[j].press)
  <2>1. CASE i \in 1 .. n
    BY <1>1, <1>7, <2>1
  <2>2. CASE i = n + 1
    <3>1. i - 1 = n
      BY <1>1, <2>2
    <3> QED
      BY <1>1, <1>3, <1>8, <2>2, <3>1
  <2> QED
    BY <1>1, <2>1, <2>2
<1>10. Alternates(t, now)
  BY <1>1, <1>6, <1>9 DEF Alternates, c
<1> QED
  BY <1>10 DEF t

LEMMA AppendAged ==
  ASSUME NEW s \in State, NEW k \in Keys, NEW on \in BOOLEAN, Aged(s)
  PROVE  Aged(Appended(s, k, on))
<1> DEFINE t == Appended(s, k, on)
           n == Len(s.queue)
<1>1. /\ n \in Nat /\ s.prior \in Nat /\ t.prior = s.prior
      /\ \A i \in 1 .. n : s.queue[i].age \in Nat
      /\ Len(t.queue) = n + 1 /\ t.queue[n + 1].age = 0
      /\ \A i \in 1 .. n : t.queue[i] = s.queue[i]
  <2>1. n \in Nat /\ s.prior \in Nat /\ \A i \in 1 .. n : s.queue[i] \in Event
    BY EventFacts DEF State
  <2>2. /\ Len(t.queue) = n + 1 /\ t.prior = s.prior
        /\ \A i \in 1 .. n : t.queue[i] = s.queue[i]
        /\ t.queue[n + 1].age = 0
    BY AppendFacts
  <2> HIDE DEF t, n
  <2> QED
    BY <2>1, <2>2 DEF Event
<1> HIDE DEF t
<1>2. ASSUME NEW i \in 1 .. Len(t.queue), NEW j \in 1 .. i
      PROVE  t.queue[i].age <= t.queue[j].age
  <2>1. CASE i \in 1 .. n
    <3>1. t.queue[i] = s.queue[i] /\ t.queue[j] = s.queue[j]
      BY <1>1, <2>1
    <3> QED
      BY <2>1, <3>1 DEF Aged, n
  <2>2. CASE i = n + 1
    <3>1. t.queue[j].age \in Nat
      BY <1>1, <2>2, SMTT(30)
    <3> QED
      BY <1>1, <2>2, <3>1
  <2> QED
    BY <1>1, <2>1, <2>2
<1>3. ASSUME t.prior <= MinPrior, NEW i \in 1 .. Len(t.queue)
      PROVE  t.queue[i].age <= t.prior
  <2>1. CASE i \in 1 .. n
    BY <1>1, <1>3, <2>1 DEF Aged
  <2>2. CASE i = n + 1
    BY <1>1, <2>2
  <2> QED
    BY <1>1, <2>1, <2>2
<1>5. Aged(t)
  BY <1>2, <1>3 DEF Aged
<1> QED
  BY <1>5 DEF t

\* The key need not be excused any more: if it is held, its first event is a
\* release.
LEMMA AppendShown ==
  ASSUME NEW s \in State, NEW k \in Keys, NEW on \in BOOLEAN, NEW now,
         Alternates(Appended(s, k, on), now),
         NEW old, NEW later, Shown(s, old), old \subseteq later \cup {k}
  PROVE  Shown(Appended(s, k, on), later)
<1> DEFINE t == Appended(s, k, on)
           n == Len(s.queue)
<1>1. /\ t \in State /\ n \in Nat /\ Len(t.queue) = n + 1
      /\ \A i \in 1 .. n : t.queue[i] = s.queue[i]
      /\ t.queue[n + 1].key = k /\ t.down = s.down /\ t.report = s.report
      /\ DOMAIN s.queue = 1 .. n /\ DOMAIN t.queue = 1 .. n + 1
  <2>1. /\ t \in State /\ Len(t.queue) = n + 1
        /\ \A i \in 1 .. n : t.queue[i] = s.queue[i]
        /\ t.queue[n + 1].key = k
        /\ t.down = s.down /\ t.report = s.report
    BY AppendFacts
  <2> HIDE DEF t
  <2> QED
    BY <2>1, EventFacts DEF State
<1> HIDE DEF t
<1>2. k \in Held(t) => k \in Restored(t.queue)
  <2>1. ~Quiet(t.queue, k, 1, Len(t.queue))
    BY <1>1 DEF Quiet
  <2> QED
    BY <1>1, <2>1, FirstIsRelease DEF t
<1>3. Restored(s.queue) \subseteq Restored(t.queue)
  <2>1. SUFFICES ASSUME NEW l \in Restored(s.queue) PROVE l \in Restored(t.queue)
    OBVIOUS
  <2>2. PICK i \in 1 .. n : /\ l = s.queue[i].key /\ ~s.queue[i].press
                            /\ \A j \in 1 .. i - 1 : s.queue[j].key # l
    BY <1>1, <2>1 DEF Restored
  <2>3. /\ i \in DOMAIN t.queue /\ t.queue[i] = s.queue[i]
        /\ \A j \in 1 .. i - 1 : t.queue[j] = s.queue[j]
    BY <1>1
  <2> QED
    BY <2>2, <2>3 DEF Restored
<1>4. Held(t) = Held(s)
  BY <1>1 DEF Held
<1>5. Shown(t, later)
  BY <1>1, <1>2, <1>3, <1>4 DEF Shown
<1> QED
  BY <1>5 DEF t

LEMMA TurnFacts ==
  ASSUME IInv, NEW k \in Keys, turn = k, turn' = k + 1
  PROVE  /\ turn' \in 1 .. KeyCount + 1 /\ turn <= KeyCount + 1
         /\ Later \subseteq Later' \cup {k} /\ Shown(q, Later)
<1>1. KeyCount \in Nat
  BY QukeysAssumption DEF QukeysAssumption
<1> QED
  BY <1>1 DEF Keys, Later, IInv

\* While keys are scanned; the settings are left alone.
LEMMA ScanTurn ==
  ASSUME IInv, NEW k \in Keys, turn = k, turn' = k + 1, UNCHANGED settings
  PROVE  /\ turn' \in 1 .. Lost /\ turn' # KeyCount + 2 /\ turn' # Lost
         /\ hold' \in Holds /\ threshold' \in Thresholds
<1>1. turn' \in 1 .. KeyCount + 1 /\ KeyCount \in Nat
  BY TurnFacts, QukeysAssumption DEF QukeysAssumption
<1>2. turn' \in 1 .. Lost /\ turn' # KeyCount + 2 /\ turn' # Lost
  BY <1>1 DEF Lost
<1> QED
  BY <1>2 DEF settings, IInv

LEMMA AppendInv ==
  ASSUME IInv, NEW k \in Keys, NEW on \in BOOLEAN, turn = k, turn' = k + 1, UNCHANGED settings,
         q' = Append1(q, k, on), Toggles(k, on, pressed, pressed')
  PROVE  IInv'
<1> DEFINE t == Appended(q, k, on)
<1>1. q \in State /\ Len(q.queue) < Capacity /\ Capacity \in Nat /\ Len(q.queue) \in Nat
  BY EventFacts, QukeysAssumption DEF IInv, State, QukeysAssumption
<1>2. q' = IF Full(t) THEN ProcessQueue(t).s ELSE t
  BY DEF Append1, Appended
<1>3. /\ t \in State /\ Alternates(t, pressed') /\ Aged(t) /\ Len(t.queue) = Len(q.queue) + 1
  BY <1>1, AppendFacts, AppendAlternates, AppendAged DEF IInv
<1>4. Shown(t, Later')
  BY <1>1, <1>3, TurnFacts, AppendShown DEF IInv
<1> HIDE DEF t
<1>5. Keeps(t, q') /\ Len(q'.queue) < Capacity
  <2>1. CASE Full(t)
    <3>1. PICK d \in Nat : Keeps(t, q') /\ Ahead(t, q', d) /\ d > 0
      BY <1>2, <1>3, <2>1, ProcessKeeps
    <3> QED
      BY <1>1, <1>3, <3>1 DEF Ahead
  <2>2. CASE ~Full(t)
    BY <1>1, <1>2, <1>3, <2>2, KeepsNone DEF Full
  <2> QED
    BY <2>1, <2>2
<1>6. pressed' \subseteq Keys
  BY DEF Toggles, IInv
<1>7. /\ q' \in State /\ Alternates(q', pressed') /\ Aged(q') /\ Shown(q', Later')
  BY <1>3, <1>4, <1>5 DEF Keeps
<1>8. /\ turn' \in 1 .. Lost /\ turn' # KeyCount + 2 /\ turn' # Lost
      /\ hold' \in Holds /\ threshold' \in Thresholds
  BY ScanTurn
<1> QED
  BY <1>5, <1>6, <1>7, <1>8 DEF IInv

\* The release that skips the queue: the key has no event in it.
LEMMA SkipInv ==
  ASSUME IInv, NEW k \in Keys, turn = k, turn' = k + 1, UNCHANGED settings, k \in pressed,
         pressed' = pressed \ {k}, SkipsQueue(k), q' = [q EXCEPT !.down[k] = Up]
  PROVE  IInv'
<1>1. /\ q \in State /\ Len(q.queue) = 1 /\ q.queue[1].key \in Keys \ {k}
      /\ q.down \in [Keys -> Value \cup {Up}]
  <2>1. q.queue \in Seq(Event) /\ Len(q.queue) = 1 /\ q.queue[1].key # k
    BY DEF IInv, State, SkipsQueue
  <2>2. q.queue[1] \in Event
    BY <2>1, EventFacts
  <2> QED
    BY <2>1, <2>2 DEF IInv, State, Event
<1>2. /\ q' \in State /\ q'.queue = q.queue /\ q'.prior = q.prior /\ q'.report = q.report
      /\ q'.down = [q.down EXCEPT ![k] = Up]
  BY <1>1 DEF State
<1>3. q'.down[k] = Up /\ \A l \in Keys \ {k} : q'.down[l] = q.down[l]
  BY <1>1, <1>2
<1>4. Aged(q')
  BY <1>2 DEF Aged, IInv
<1>5. Alternates(q', pressed')
  <2>1. Alternates(q, pressed)
    BY DEF IInv
  <2>2. ASSUME NEW l \in Keys, Quiet(q'.queue, l, 1, Len(q'.queue))
        PROVE  q'.down[l] # Up <=> l \in pressed'
    BY <1>2, <1>3, <2>1, <2>2 DEF Alternates
  <2>3. ASSUME NEW i \in 1 .. Len(q.queue)
        PROVE  LET b == q.queue IN
               /\ Quiet(b, b[i].key, 1, i - 1) => (b[i].press <=> q'.down[b[i].key] = Up)
               /\ Quiet(b, b[i].key, i + 1, Len(b)) => (b[i].press <=> b[i].key \in pressed')
               /\ \A j \in 1 .. i - 1 :
                    b[j].key = b[i].key /\ Quiet(b, b[i].key, j + 1, i - 1)
                      => (b[i].press <=> ~b[j].press)
    <3> DEFINE b == q.queue
    <3>1. /\ Quiet(b, b[i].key, 1, i - 1) => (b[i].press <=> q.down[b[i].key] = Up)
          /\ Quiet(b, b[i].key, i + 1, Len(b)) => (b[i].press <=> b[i].key \in pressed)
          /\ \A j \in 1 .. i - 1 :
               b[j].key = b[i].key /\ Quiet(b, b[i].key, j + 1, i - 1)
                 => (b[i].press <=> ~b[j].press)
      BY <2>1 DEF Alternates
    <3>2. i = 1
      BY <1>1
    <3>3. b[i].key \in Keys \ {k}
      BY <1>1, <3>2
    <3> HIDE DEF b
    <3>4. q'.down[b[i].key] = q.down[b[i].key] /\ (b[i].key \in pressed' <=> b[i].key \in pressed)
      BY <1>3, <3>3
    <3> QED
      BY <3>1, <3>4 DEF b
  <2> QED
    BY <1>2, <2>2, <2>3 DEF Alternates
<1>6. Shown(q', Later')
  <2>1. Held(q') \subseteq Held(q) \ {k}
    BY <1>3 DEF Held
  <2> QED
    BY <1>2, <2>1, TurnFacts DEF Shown
<1>7. /\ turn' \in 1 .. Lost /\ turn' # KeyCount + 2 /\ turn' # Lost
      /\ hold' \in Holds /\ threshold' \in Thresholds
  BY ScanTurn
<1> QED
  BY <1>1, <1>2, <1>4, <1>5, <1>6, <1>7 DEF IInv

LEMMA UnchangedInv ==
  ASSUME IInv, NEW k \in Keys, Unchanged(k)
  PROVE  IInv'
<1>1. /\ turn = k /\ turn' = k + 1 /\ pressed' = pressed /\ UNCHANGED settings
      /\ q' = IF k \in pressed /\ ~Waiting(q.queue, k)
              THEN [q EXCEPT !.report = q.report \cup {k}] ELSE q
  BY DEF Unchanged
<1>2. q \in State /\ DOMAIN q.queue = 1 .. Len(q.queue) /\ Len(q.queue) \in Nat
  BY EventFacts DEF IInv, State
<1>3. /\ q' \in State /\ q'.queue = q.queue /\ q'.prior = q.prior /\ q'.down = q.down
      /\ q.report \subseteq q'.report
      /\ k \in pressed /\ ~Waiting(q.queue, k) => k \in q'.report
  BY <1>1, <1>2 DEF State
<1>4. ASSUME k \in Held(q), k \notin q'.report
      PROVE  k \in Restored(q.queue)
  <2>1. Alternates(q, pressed)
    BY DEF IInv
  <2>2. CASE k \notin pressed
    <3>1. ~Quiet(q.queue, k, 1, Len(q.queue))
      BY <1>4, <2>1, <2>2 DEF Alternates, Held
    <3> QED
      BY <1>2, <1>4, <2>1, <3>1, FirstIsRelease
  <2>3. CASE Waiting(q.queue, k)
    <3>1. PICK i \in 1 .. Len(q.queue) :
            q.queue[i].key = k /\ q.queue[i].press /\ \A j \in 1 .. i - 1 : q.queue[j].key # k
      BY <1>2, <2>3 DEF Waiting
    <3>2. q.down[k] = Up
      BY <2>1, <3>1 DEF Alternates, Quiet
    <3> QED
      BY <1>4, <3>2 DEF Held
  <2> QED
    BY <1>3, <1>4, <2>2, <2>3
<1>5. Alternates(q', pressed') /\ Aged(q')
  BY <1>1, <1>3 DEF IInv, Alternates, Aged
<1>6. Held(q') = Held(q)
  BY <1>3 DEF Held
<1>7. Shown(q', Later')
  BY <1>1, <1>3, <1>4, <1>6, TurnFacts DEF Shown
<1>8. /\ turn' \in 1 .. Lost /\ turn' # KeyCount + 2 /\ turn' # Lost
      /\ hold' \in Holds /\ threshold' \in Thresholds
  BY <1>1, ScanTurn
<1> QED
  BY <1>1, <1>3, <1>5, <1>7, <1>8 DEF IInv

LEMMA ToggleInv ==
  ASSUME IInv, NEW k \in Keys, ToggledOn(k) \/ ToggledOff(k)
  PROVE  IInv'
<1>1. CASE ToggledOn(k)
  BY <1>1, AppendInv DEF ToggledOn, Toggles
<1>2. CASE ToggledOff(k) /\ SkipsQueue(k)
  BY <1>2, SkipInv DEF ToggledOff
<1>3. CASE ToggledOff(k) /\ ~SkipsQueue(k)
  BY <1>3, AppendInv DEF ToggledOff, Toggles
<1> QED
  BY <1>1, <1>2, <1>3

LEMMA BeforeInv ==
  ASSUME IInv, BeforeReportingState
  PROVE  IInv'
<1>1. turn = KeyCount + 1 /\ pressed' = pressed /\ KeyCount \in Nat /\ UNCHANGED settings
  BY QukeysAssumption DEF BeforeReportingState, QukeysAssumption
<1>2. PICK d \in Nat : /\ Keeps(Restoring, q') /\ Ahead(q, q', d)
                       /\ turn' = KeyCount + 2 \/ (turn' = Lost /\ hold < MinPrior)
  BY BeforeKeeps
<1>3. /\ Restoring.queue = q.queue /\ Restoring.down = q.down
      /\ Restoring.report = q.report \cup Restored(q.queue)
      /\ Restoring.prior = IF q.prior > MinPrior THEN MinPrior + 1 ELSE q.prior
  <2> DEFINE p == IF q.prior > MinPrior THEN MinPrior + 1 ELSE q.prior
             rep == q.report \cup Restored(q.queue)
  <2>1. Restoring = [q EXCEPT !.report = rep, !.prior = p] /\ q \in State
    BY DEF Restoring, IInv
  <2> HIDE DEF p, rep
  <2>2. /\ Restoring.queue = q.queue /\ Restoring.down = q.down
        /\ Restoring.report = rep /\ Restoring.prior = p
    BY <2>1 DEF State
  <2> QED
    BY <2>2 DEF p, rep
<1>4. MinPrior \in Nat /\ q.prior \in Nat /\ Len(q.queue) \in Nat /\ Capacity \in Nat
  BY PriorFacts, QukeysAssumption, EventFacts DEF IInv, State, QukeysAssumption
<1>5. Alternates(Restoring, pressed)
  BY <1>3 DEF IInv, Alternates
<1>6. Aged(Restoring)
  <2>1. Restoring.prior <= MinPrior => q.prior <= MinPrior /\ Restoring.prior = q.prior
    BY <1>3, <1>4
  <2> QED
    BY <1>3, <2>1 DEF IInv, Aged
<1>7. Held(Restoring) \subseteq Restoring.report
  <2>1. Later = {} /\ Shown(q, Later)
    BY <1>1 DEF IInv, Later
  <2> QED
    BY <1>3, <2>1 DEF Shown, Held
<1>8. q' \in State /\ Alternates(q', pressed') /\ Aged(q') /\ Held(q') \subseteq q'.report
  BY <1>1, <1>2, <1>5, <1>6, <1>7 DEF Keeps
<1>9. Len(q'.queue) < Capacity
  BY <1>2, <1>4 DEF Ahead, IInv
<1>10. turn' \in 1 .. Lost /\ ~(turn' <= KeyCount + 1)
  BY <1>1, <1>2 DEF Lost
<1>11. hold' \in Holds /\ threshold' \in Thresholds /\ (turn' = Lost => hold' < MinPrior)
  BY <1>1, <1>2 DEF Lost, settings, IInv
<1> QED
  BY <1>1, <1>8, <1>9, <1>10, <1>11 DEF IInv

\* Events and the last press get older together.
LEMMA SendInv ==
  ASSUME IInv, SendReport
  PROVE  IInv'
<1>1. PICK lag \in Lags :
        q' = [q EXCEPT !.report = {}, !.prior = q.prior + lag,
                       !.queue = Older(q.queue, lag)]
  BY DEF SendReport
<1>2. turn' = 1 /\ pressed' = pressed /\ UNCHANGED settings /\ lag \in Nat /\ MinPrior \in Nat /\ KeyCount \in Nat
  BY PriorFacts, QukeysAssumption DEF SendReport, QukeysAssumption
<1> DEFINE n == Len(q.queue)
           c == Older(q.queue, lag)
<1>3. /\ q \in State /\ n \in Nat /\ DOMAIN q.queue = 1 .. n /\ \A i \in 1 .. n : q.queue[i] \in Event
  BY EventFacts DEF IInv, State
<1>4. c \in [1 .. n -> Event]
      /\ \A i \in 1 .. n : /\ c[i].key = q.queue[i].key /\ c[i].press = q.queue[i].press
                           /\ c[i].age = q.queue[i].age + lag
  <2>1. ASSUME NEW e \in Event
        PROVE  LET f == [e EXCEPT !.age = @ + lag]
               IN  f \in Event /\ f.key = e.key /\ f.press = e.press /\ f.age = e.age + lag
    BY <1>2 DEF Event
  <2>2. c = [i \in 1 .. n |-> [q.queue[i] EXCEPT !.age = @ + lag]]
    BY <1>3 DEF Older
  <2>3. \A i \in 1 .. n : c[i] = [q.queue[i] EXCEPT !.age = @ + lag]
    BY <2>2
  <2> QED
    BY <1>3, <2>1, <2>2, <2>3
<1>5. c \in Seq(Event) /\ Len(c) = n
  <2> HIDE DEF c
  <2> QED
    BY <1>3, <1>4, IsASeq, LenProperties
<1>6. q' = [q EXCEPT !.report = {}, !.prior = q.prior + lag, !.queue = c]
  BY <1>1
<1> HIDE DEF c
<1>7. /\ q' \in State /\ q'.queue = c /\ q'.prior = q.prior + lag /\ q'.down = q.down
  <2>1. q.prior + lag \in Nat /\ {} \in SUBSET Keys
    BY <1>2, <1>3 DEF State
  <2> DEFINE p == q.prior + lag
  <2>2. q' = [q EXCEPT !.report = {}, !.prior = p, !.queue = c]
    BY <1>6
  <2> HIDE DEF p
  <2>3. q'.queue = c /\ q'.prior = p /\ q'.down = q.down
    BY <1>3, <2>2 DEF State
  <2>4. q' \in State
    BY <1>3, <1>5, <2>1, <2>2 DEF State, p
  <2> QED
    BY <2>3, <2>4 DEF p
<1>8. Alternates(q', pressed')
  <2>1. Alternates(q, pressed)
    BY DEF IInv
  <2>2. \A k \in Keys, i \in 1 .. n + 1, j \in 0 .. n : Quiet(c, k, i, j) <=> Quiet(q.queue, k, i, j)
    BY <1>3, <1>4, SMTT(30) DEF Quiet
  <2>3. \A k \in Keys : Quiet(c, k, 1, n) => (q.down[k] # Up <=> k \in pressed)
    BY <1>3, <2>1, <2>2 DEF Alternates
  <2>4. ASSUME NEW i \in 1 .. n
        PROVE  /\ Quiet(c, c[i].key, 1, i - 1) => (c[i].press <=> q.down[c[i].key] = Up)
               /\ Quiet(c, c[i].key, i + 1, n) => (c[i].press <=> c[i].key \in pressed)
               /\ \A j \in 1 .. i - 1 :
                    c[j].key = c[i].key /\ Quiet(c, c[i].key, j + 1, i - 1)
                      => (c[i].press <=> ~c[j].press)
    <3>1. /\ c[i].key = q.queue[i].key /\ c[i].press = q.queue[i].press /\ c[i].key \in Keys
          /\ i - 1 \in 0 .. n /\ i + 1 \in 1 .. n + 1 /\ n \in 0 .. n /\ 1 \in 1 .. n + 1
      BY <1>3, <1>4 DEF Event
    <3>2. /\ Quiet(c, c[i].key, 1, i - 1) => (c[i].press <=> q.down[c[i].key] = Up)
          /\ Quiet(c, c[i].key, i + 1, n) => (c[i].press <=> c[i].key \in pressed)
      BY <2>1, <2>2, <3>1 DEF Alternates
    <3>3. ASSUME NEW j \in 1 .. i - 1, c[j].key = c[i].key, Quiet(c, c[i].key, j + 1, i - 1)
          PROVE  c[i].press <=> ~c[j].press
      <4>1. /\ j + 1 \in 1 .. n + 1 /\ j \in 1 .. n
            /\ c[j].key = q.queue[j].key /\ c[j].press = q.queue[j].press
        BY <1>3, <1>4
      <4>2. Quiet(q.queue, q.queue[i].key, j + 1, i - 1)
        BY <2>2, <3>1, <3>3, <4>1
      <4> QED
        BY <2>1, <3>1, <3>3, <4>1, <4>2 DEF Alternates
    <3> QED
      BY <3>2, <3>3
  <2> QED
    BY <1>2, <1>5, <1>7, <2>3, <2>4 DEF Alternates
<1>9. Aged(q')
  <2>1. \A i \in 1 .. n : q.queue[i].age \in Nat
    BY <1>3 DEF Event
  <2>2. q.prior \in Nat
    BY <1>3 DEF State
  <2>3. \A i \in 1 .. n : \A j \in 1 .. i : c[i].age <= c[j].age
    <3>1. SUFFICES ASSUME NEW i \in 1 .. n, NEW j \in 1 .. i PROVE c[i].age <= c[j].age
      OBVIOUS
    <3>2. q.queue[i].age <= q.queue[j].age /\ j \in 1 .. n
      BY <1>3 DEF IInv, Aged
    <3> QED
      BY <1>2, <1>4, <2>1, <3>2
  <2>4. q'.prior <= MinPrior => \A i \in 1 .. n : c[i].age <= q'.prior
    <3>1. SUFFICES ASSUME q'.prior <= MinPrior, NEW i \in 1 .. n PROVE c[i].age <= q'.prior
      OBVIOUS
    <3>2. q.prior <= MinPrior
      BY <1>2, <1>7, <2>2, <3>1
    <3>3. q.queue[i].age <= q.prior
      BY <3>2 DEF IInv, Aged
    <3> QED
      BY <1>2, <1>4, <1>7, <2>1, <2>2, <3>3
  <2> QED
    BY <1>5, <1>7, <2>3, <2>4 DEF Aged
<1>10. Shown(q', Later')
  BY <1>2 DEF Shown, Held, Later, Keys
<1>11. /\ turn' \in 1 .. Lost /\ turn' # KeyCount + 2 /\ turn' # Lost
       /\ Len(q'.queue) < Capacity /\ hold' \in Holds /\ threshold' \in Thresholds
  <2>1. KeyCount > 0
    BY QukeysAssumption DEF QukeysAssumption
  <2>2. n < Capacity
    BY DEF IInv
  <2>3. hold' \in Holds /\ threshold' \in Thresholds
    BY <1>2 DEF IInv, settings
  <2> QED
    BY <1>2, <1>5, <1>7, <2>1, <2>2, <2>3 DEF Lost
<1> QED
  BY <1>2, <1>7, <1>8, <1>9, <1>10, <1>11 DEF IInv

LEMMA FocusInv ==
  ASSUME IInv, FocusEvent
  PROVE  IInv'
<1>1. turn \in {KeyCount + 1, KeyCount + 2} /\ UNCHANGED <<turn, pressed, q>>
      /\ hold' \in Holds /\ threshold' \in Thresholds
  BY DEF FocusEvent, IInv
<1>2. turn' # Lost
  BY <1>1, QukeysAssumption DEF Lost, QukeysAssumption
<1> QED
  BY <1>1, <1>2 DEF IInv, Later

LEMMA NextInv ==
  ASSUME IInv, [Next]_vars
  PROVE  IInv'
<1>1. CASE UNCHANGED vars
  BY <1>1 DEF vars, settings, IInv, Later
<1>2. CASE Next
  BY <1>1, <1>2, ToggleInv, UnchangedInv, BeforeInv, SendInv, FocusInv DEF Next, Stray
<1> QED
  BY <1>1, <1>2

(* The queued events of a key alternate, older events come first, and a key    *)
(* that is held is in the report, will be restored, or is still to be scanned. *)
THEOREM Invariant == Spec => []IInv
<1>1. IInv /\ [Next]_vars => IInv'
  BY NextInv
<1> QED
  BY InitInv, <1>1, PTL DEF Spec

(* Every part of the state has its type.                                       *)
THEOREM TypeCorrect == Spec => []TypeOK
<1>1. IInv => TypeOK
  BY DEF IInv, TypeOK
<1> QED
  BY <1>1, Invariant, PTL

(* For any keys, settings and length of the queue there is room for an event   *)
(* whenever one is appended, and an event is flushed from an empty queue only  *)
(* with a hold timeout below the interval after a printable press.             *)
THEOREM QueueBoundsCorrect == Spec => []QueueBounds
<1>1. IInv => QueueBounds
  BY DEF IInv, QueueBounds
<1> QED
  BY <1>1, Invariant, PTL

(* For any keys, settings and length of the queue no event is lost, made up or *)
(* reordered.                                                                  *)
THEOREM ReplayCorrect == Spec => []Replay
<1>1. IInv => Replay
  BY DEF IInv, Alternates, Quiet, Replay
<1> QED
  BY <1>1, Invariant, PTL

(* For any keys, settings and length of the queue a key that the other plugins *)
(* know as pressed is in every report.                                         *)
THEOREM ReportWholeCorrect == Spec => []ReportWhole
<1>1. IInv => ReportWhole
  BY DEF IInv, Held, ReportWhole
<1> QED
  BY <1>1, Invariant, PTL
-------------------------------------------------------------------------------
(* No event waits for long.                                                    *)

\* The cycles that an event at place i may still have to wait, in ticks.
MaxHold  == Max(Holds)
Slow     == Max(Lags)
Slack(i) == Slow * (Capacity - i)

\* An event older than the hold timeout has moved up in every cycle since; at
\* the end of a cycle it has done so once more than it got older.
Waits(s, c) == \A i \in 1 .. Len(s.queue) :
                 s.queue[i].age <= MaxHold \/ s.queue[i].age <= MaxHold + Slack(i + c)

WInv == IInv /\ Waits(q, IF turn > KeyCount + 1 THEN 1 ELSE 0)

LEMMA Numbers ==
  /\ Slow \in Nat /\ \A lag \in Lags : lag \in Nat /\ lag <= Slow
  /\ MaxHold \in Nat /\ \A h \in Holds : h \in Nat /\ h <= MaxHold
  /\ Capacity \in Nat /\ Capacity > 1 /\ KeyCount \in Nat /\ KeyCount > 0
<1>1. IsFiniteSet(Lags) /\ Lags \in SUBSET Nat /\ Lags # {}
  BY QukeysAssumption DEF QukeysAssumption
<1>2. Max(Lags) \in Lags /\ \A lag \in Lags : lag <= Max(Lags)
  BY <1>1, MinMaxOf, Zenon
<1>3. Capacity \in Nat /\ Capacity > 1 /\ KeyCount \in Nat /\ KeyCount > 0
  BY QukeysAssumption DEF QukeysAssumption
<1>4. IsFiniteSet(Holds) /\ Holds \in SUBSET Nat /\ Holds # {}
  BY QukeysAssumption DEF QukeysAssumption
<1>5. Max(Holds) \in Holds /\ \A h \in Holds : h <= Max(Holds)
  BY <1>4, MinMaxOf, Zenon
<1> QED
  BY <1>1, <1>2, <1>3, <1>4, <1>5 DEF Slow, MaxHold

LEMMA SlackFacts ==
  /\ \A i \in Int : Slack(i) \in Int /\ Slack(i) + Slow = Slack(i - 1)
  /\ \A i, j \in Int : i <= j => Slack(j) <= Slack(i)
  /\ \A i \in Int : i < Capacity => Slow <= Slack(i)
  /\ Slack(1) = (Capacity - 1) * Slow /\ Slack(1) \in Nat
<1>1. Slow \in Nat /\ Capacity \in Nat
  BY Numbers
<1>2. ASSUME NEW i \in Int
      PROVE  Slack(i) \in Int /\ Slack(i) + Slow = Slack(i - 1)
  <2>1. Slow * (Capacity - i) + Slow = Slow * ((Capacity - i) + 1)
    BY <1>1
  <2>2. (Capacity - i) + 1 = Capacity - (i - 1)
    BY <1>1
  <2> QED
    BY <1>1, <2>1, <2>2 DEF Slack
<1>3. ASSUME NEW i \in Int, NEW j \in Int, i <= j
      PROVE  Slack(j) <= Slack(i)
  <2>1. \A a, b \in Int : a <= b => Slow * a <= Slow * b
    BY <1>1
  <2>2. Capacity - j \in Int /\ Capacity - i \in Int /\ Capacity - j <= Capacity - i
    BY <1>1, <1>3
  <2> QED
    BY <2>1, <2>2 DEF Slack
<1>4. ASSUME NEW i \in Int, i < Capacity
      PROVE  Slow <= Slack(i)
  <2>1. Capacity - 1 \in Int /\ i <= Capacity - 1
    BY <1>1, <1>4
  <2>2. Slack(Capacity - 1) = Slow
    <3>1. Capacity - (Capacity - 1) = 1 /\ Slow * 1 = Slow
      BY <1>1
    <3> QED
      BY <3>1 DEF Slack
  <2> QED
    BY <1>3, <2>1, <2>2
<1>5. Slack(1) = (Capacity - 1) * Slow /\ Slack(1) \in Nat
  <2>1. Capacity - 1 \in Nat /\ Slack(1) = Slow * (Capacity - 1)
    BY <1>1, Numbers DEF Slack
  <2>2. \A a, b \in Nat : a * b = b * a /\ a * b \in Nat
    OBVIOUS
  <2> QED
    BY <1>1, <2>1, <2>2
<1> QED
  BY <1>2, <1>3, <1>4, <1>5

LEMMA AgeFacts ==
  ASSUME NEW s \in State
  PROVE  Len(s.queue) \in Nat /\ \A i \in 1 .. Len(s.queue) : s.queue[i].age \in Nat
<1>1. s.queue \in Seq(Event)
  BY DEF State
<1>2. Len(s.queue) \in Nat /\ \A i \in 1 .. Len(s.queue) : s.queue[i] \in Event
  BY <1>1, EventFacts
<1> QED
  BY <1>2 DEF Event

\* A flush moves the others up.
LEMMA AheadWaits ==
  ASSUME NEW s \in State, NEW r \in State, NEW d, Ahead(s, r, d), Waits(s, 0)
  PROVE  Waits(r, 0)
<1>1. SUFFICES ASSUME NEW i \in 1 .. Len(r.queue)
               PROVE  r.queue[i].age <= MaxHold \/ r.queue[i].age <= MaxHold + Slack(i + 0)
  BY DEF Waits
<1>2. /\ d \in Nat /\ i + d \in 1 .. Len(s.queue) /\ r.queue[i] = s.queue[i + d]
      /\ s.queue[i + d].age \in Nat /\ i \in Int /\ i + d \in Int /\ i <= i + d
      /\ i + 0 = i /\ (i + d) + 0 = i + d
  BY AgeFacts DEF Ahead
<1>3. s.queue[i + d].age <= MaxHold \/ s.queue[i + d].age <= MaxHold + Slack(i + d)
  <2>1. s.queue[i + d].age <= MaxHold \/ s.queue[i + d].age <= MaxHold + Slack((i + d) + 0)
    BY <1>2 DEF Waits
  <2> QED
    BY <1>2, <2>1
<1>4. Slack(i + d) <= Slack(i) /\ Slack(i) \in Int /\ Slack(i + d) \in Int /\ MaxHold \in Nat
  BY <1>2, SlackFacts, Numbers
<1> QED
  BY <1>2, <1>3, <1>4

LEMMA AppendWaits ==
  ASSUME NEW s \in State, NEW k \in Keys, NEW on \in BOOLEAN, Waits(s, 0)
  PROVE  Waits(Appended(s, k, on), 0)
<1> DEFINE t == Appended(s, k, on)
           n == Len(s.queue)
<1>1. /\ n \in Nat /\ Len(t.queue) = n + 1 /\ t.queue[n + 1].age = 0
      /\ \A i \in 1 .. n : t.queue[i] = s.queue[i]
  BY AppendFacts, AgeFacts
<1> HIDE DEF t
<1>2. ASSUME NEW i \in 1 .. Len(t.queue)
      PROVE  t.queue[i].age <= MaxHold \/ t.queue[i].age <= MaxHold + Slack(i + 0)
  <2>1. CASE i \in 1 .. n
    <3>1. t.queue[i] = s.queue[i]
      BY <1>1, <2>1
    <3> QED
      BY <2>1, <3>1 DEF Waits
  <2>2. CASE i = n + 1
    BY <1>1, <2>2, Numbers
  <2> QED
    BY <1>1, <2>1, <2>2
<1>3. Waits(t, 0)
  BY <1>2 DEF Waits
<1> QED
  BY <1>3 DEF t

LEMMA AppendedWaits ==
  ASSUME IInv, Waits(q, 0), NEW k \in Keys, NEW on \in BOOLEAN, q' = Append1(q, k, on)
  PROVE  Waits(q', 0)
<1> DEFINE t == Appended(q, k, on)
<1>1. q' = IF Full(t) THEN ProcessQueue(t).s ELSE t
  BY DEF Append1, Appended
<1>2. t \in State /\ Waits(t, 0)
  BY AppendFacts, AppendWaits DEF IInv
<1> HIDE DEF t
<1>3. CASE Full(t)
  <2>1. PICK d \in Nat : Keeps(t, q') /\ Ahead(t, q', d)
    BY <1>1, <1>2, <1>3, ProcessKeeps
  <2> QED
    BY <1>2, <2>1, AheadWaits DEF Keeps
<1>4. CASE ~Full(t)
  BY <1>1, <1>2, <1>4
<1> QED
  BY <1>3, <1>4

LEMMA ScanWaits ==
  ASSUME WInv, NEW k \in Keys, ToggledOn(k) \/ ToggledOff(k) \/ Unchanged(k)
  PROVE  Waits(q', 0) /\ ~(turn' > KeyCount + 1)
<1>1. turn = k /\ turn' = k + 1 /\ ~(turn > KeyCount + 1) /\ ~(turn' > KeyCount + 1)
  <2>1. turn = k /\ turn' = k + 1
    BY DEF ToggledOn, ToggledOff, Unchanged
  <2>2. KeyCount \in Nat /\ k \in 1 .. KeyCount
    BY Numbers DEF Keys
  <2> QED
    BY <2>1, <2>2
<1>2. IInv /\ Waits(q, 0)
  BY <1>1 DEF WInv
<1>3. CASE ToggledOn(k) \/ (ToggledOff(k) /\ ~SkipsQueue(k))
  BY <1>1, <1>2, <1>3, AppendedWaits DEF ToggledOn, ToggledOff
<1>4. CASE Unchanged(k) \/ (ToggledOff(k) /\ SkipsQueue(k))
  <2>1. q'.queue = q.queue
    BY <1>2, <1>4 DEF Unchanged, ToggledOff, IInv, State
  <2> QED
    BY <1>1, <1>2, <2>1 DEF Waits
<1> QED
  BY <1>3, <1>4

LEMMA BeforeWaits ==
  ASSUME WInv, IInv', BeforeReportingState
  PROVE  Waits(q', 1)
<1>1. IInv /\ Waits(q, 0) /\ q \in State /\ q' \in State
  <2>1. turn = KeyCount + 1 /\ KeyCount \in Nat
    BY Numbers DEF BeforeReportingState
  <2> QED
    BY <2>1 DEF WInv, IInv
<1>2. PICK d \in Nat : Ahead(q, q', d) /\ (q.queue # <<>> /\ q.queue[1].age > hold => d > 0)
  BY <1>1, BeforeKeeps
<1>3. SUFFICES ASSUME NEW i \in 1 .. Len(q'.queue), ~(q'.queue[i].age <= MaxHold)
               PROVE  q'.queue[i].age <= MaxHold + Slack(i + 1)
  BY DEF Waits
<1>4. /\ i + d \in 1 .. Len(q.queue) /\ q'.queue[i] = q.queue[i + d]
      /\ q.queue[i + d].age \in Nat /\ q.queue[1].age \in Nat /\ 1 \in 1 .. i + d
      /\ Len(q.queue) \in Nat
  BY <1>1, <1>2, AgeFacts, SMTT(30) DEF Ahead
<1>5. d > 0
  <2>1. q.queue[i + d].age <= q.queue[1].age
    BY <1>1, <1>4 DEF IInv, Aged
  <2>2. q.queue # <<>>
    BY <1>1, <1>4, EventFacts DEF State
  <2>3. hold \in Nat /\ hold <= MaxHold /\ MaxHold \in Nat
    BY <1>1, Numbers DEF IInv
  <2> QED
    BY <1>2, <1>3, <1>4, <2>1, <2>2, <2>3
<1>6. q.queue[i + d].age <= MaxHold + Slack(i + d)
  <2>1. q.queue[i + d].age <= MaxHold + Slack((i + d) + 0) /\ (i + d) + 0 = i + d
    BY <1>1, <1>3, <1>4 DEF Waits
  <2> QED
    BY <2>1
<1>7. /\ Slack(i + d) <= Slack(i + 1) /\ Slack(i + 1) \in Int /\ Slack(i + d) \in Int
      /\ MaxHold \in Nat
  <2>1. i + d \in Int /\ i + 1 \in Int /\ i + 1 <= i + d
    BY <1>2, <1>5
  <2>2. \A a, b \in Int : a <= b => Slack(b) <= Slack(a) /\ Slack(a) \in Int /\ Slack(b) \in Int
    BY SlackFacts
  <2>3. Slack(i + d) <= Slack(i + 1) /\ Slack(i + 1) \in Int /\ Slack(i + d) \in Int
    BY <2>1, <2>2, Zenon
  <2> QED
    BY <2>3, Numbers
<1> DEFINE x == q.queue[i + d].age
           u == Slack(i + d)
           v == Slack(i + 1)
<1>8. x <= MaxHold + u /\ u <= v /\ u \in Int /\ v \in Int /\ x \in Nat /\ MaxHold \in Nat
  BY <1>4, <1>6, <1>7
<1>9. q'.queue[i].age = x
  BY <1>4
<1> HIDE DEF x, u, v
<1>10. x <= MaxHold + v
  BY <1>8
<1> QED
  BY <1>9, <1>10 DEF v

LEMMA SendWaits ==
  ASSUME WInv, SendReport
  PROVE  Waits(q', 0)
<1>1. PICK lag \in Lags :
        q' = [q EXCEPT !.report = {}, !.prior = q.prior + lag,
                       !.queue = Older(q.queue, lag)]
  BY DEF SendReport
<1>2. /\ IInv /\ q \in State /\ Waits(q, 1) /\ Len(q.queue) < Capacity
      /\ lag \in Nat /\ lag <= Slow
  BY Numbers DEF WInv, IInv, SendReport
<1>3. /\ Len(q.queue) \in Nat /\ DOMAIN q.queue = 1 .. Len(q.queue)
      /\ \A i \in 1 .. Len(q.queue) : q.queue[i] \in Event
  BY <1>2, EventFacts DEF State
<1> DEFINE c == Older(q.queue, lag)
           n == Len(q.queue)
<1>4. c = [i \in 1 .. n |-> [q.queue[i] EXCEPT !.age = @ + lag]]
  BY <1>3 DEF Older
<1>5. \A i \in 1 .. n : c[i].age = q.queue[i].age + lag /\ q.queue[i].age \in Nat
  BY <1>3, <1>4 DEF Event
<1>6. Len(c) = n
  BY <1>3, <1>4
<1>7. q'.queue = c
  <2> HIDE DEF c
  <2> QED
    BY <1>1, <1>2 DEF State, c
<1> HIDE DEF c
<1>8. ASSUME NEW i \in 1 .. n
      PROVE  c[i].age <= MaxHold + Slack(i)
  <2>1. /\ i \in Int /\ i + 1 \in Int /\ i < Capacity /\ (i + 1) - 1 = i
        /\ MaxHold \in Nat /\ Slow \in Nat /\ Capacity \in Nat
    BY <1>2, <1>3, Numbers
  <2>2. Slack(i + 1) + Slow = Slack(i) /\ Slow <= Slack(i)
        /\ Slack(i) \in Int /\ Slack(i + 1) \in Int
    BY <2>1, SlackFacts
  <2>3. q.queue[i].age <= MaxHold \/ q.queue[i].age <= MaxHold + Slack(i + 1)
    BY <1>2 DEF Waits
  <2>4. lag \in Nat /\ lag <= Slow /\ c[i].age = q.queue[i].age + lag /\ q.queue[i].age \in Nat
    BY <1>2, <1>5
  <2> DEFINE x == q.queue[i].age
             y == c[i].age
             u == Slack(i)
             v == Slack(i + 1)
  <2>5. /\ x \in Nat /\ y = x + lag /\ v + Slow = u /\ Slow <= u
        /\ u \in Int /\ v \in Int
        /\ x <= MaxHold \/ x <= MaxHold + v
    BY <2>2, <2>3, <2>4
  <2> HIDE DEF x, y, u, v
  <2>6. y <= MaxHold + u
    BY <2>1, <2>4, <2>5
  <2> QED
    BY <2>6 DEF y, u
<1>9. \A i \in 1 .. n : i + 0 = i
  BY <1>3
<1> QED
  BY <1>6, <1>7, <1>8, <1>9 DEF Waits

LEMMA NextWaits ==
  ASSUME WInv, [Next]_vars
  PROVE  WInv'
<1>1. IInv'
  BY NextInv DEF WInv
<1>2. CASE UNCHANGED vars
  BY <1>1, <1>2 DEF vars, WInv, Waits
<1>3. ASSUME NEW k \in Keys, ToggledOn(k) \/ ToggledOff(k) \/ Unchanged(k)
      PROVE  WInv'
  BY <1>1, <1>3, ScanWaits DEF WInv
<1>4. CASE BeforeReportingState
  <2>1. Waits(q', 1) /\ turn' > KeyCount + 1
    BY <1>1, <1>4, BeforeWaits, Numbers DEF BeforeReportingState, Lost
  <2> QED
    BY <1>1, <2>1 DEF WInv
<1>5. CASE SendReport
  <2>1. Waits(q', 0) /\ ~(turn' > KeyCount + 1)
    <3>1. Waits(q', 0) /\ turn' = 1
      BY <1>5, SendWaits DEF SendReport
    <3> QED
      BY <3>1, Numbers
  <2> QED
    BY <1>1, <2>1 DEF WInv
<1>6. CASE FocusEvent \/ Stray
  <2>1. turn' = turn /\ q' = q
    BY <1>6 DEF FocusEvent, Stray, vars
  <2> QED
    BY <1>1, <2>1 DEF WInv, Waits
<1> QED
  BY <1>2, <1>3, <1>4, <1>5, <1>6 DEF Next

(* An event that has waited longer than the hold timeout moves up in every     *)
(* cycle.                                                                      *)
THEOREM WaitsInvariant == Spec => []WInv
<1>1. Init => WInv
  <2>1. Init => q.queue = <<>>
    BY DEF Init
  <2> QED
    BY <2>1, InitInv DEF WInv, Waits
<1>2. WInv /\ [Next]_vars => WInv'
  BY NextWaits
<1> QED
  BY <1>1, <1>2, PTL DEF Spec

(* For any keys, settings, length of the queue and speed of the loop no event  *)
(* waits longer than the longest hold timeout and one cycle for each event     *)
(* that can be ahead of it.                                                    *)
THEOREM PromptCorrect == Spec => []Prompt
<1>1. ASSUME WInv, NEW i \in 1 .. Len(q.queue)
      PROVE  q.queue[i].age <= MaxHold + (Capacity - 1) * Slow
  <2>1. PICK c \in {0, 1} : Waits(q, c)
    BY <1>1 DEF WInv
  <2>2. q \in State
    BY <1>1 DEF WInv, IInv
  <2>3. q.queue[i].age \in Nat /\ MaxHold \in Nat /\ i + c \in Int /\ 1 <= i + c
    BY <2>2, AgeFacts, Numbers
  <2>4. Slack(i + c) <= Slack(1) /\ Slack(i + c) \in Int
    <3>1. \A a, b \in Int : a <= b => Slack(b) <= Slack(a) /\ Slack(b) \in Int
      BY SlackFacts
    <3>2. 1 \in Int
      OBVIOUS
    <3> QED
      BY <2>3, <3>1, <3>2, Zenon
  <2>5. q.queue[i].age <= MaxHold \/ q.queue[i].age <= MaxHold + Slack(i + c)
    BY <2>1 DEF Waits
  <2> DEFINE x == q.queue[i].age
             u == Slack(i + c)
             top == Slack(1)
  <2>6. /\ x \in Nat /\ u \in Int /\ top \in Nat /\ u <= top
        /\ x <= MaxHold \/ x <= MaxHold + u
    BY <2>3, <2>4, <2>5, SlackFacts
  <2> HIDE DEF x, u, top
  <2>7. x <= MaxHold + top
    BY <2>3, <2>6
  <2> QED
    BY <2>7, SlackFacts DEF x, top
<1>2. WInv => DOMAIN q.queue = 1 .. Len(q.queue)
  BY EventFacts DEF WInv, IInv, State
<1>3. WInv => Prompt
  BY <1>1, <1>2 DEF Prompt, MaxAge, Slow, MaxHold
<1> QED
  BY <1>3, WaitsInvariant, PTL
===============================================================================
