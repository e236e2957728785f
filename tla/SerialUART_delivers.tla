-------------------------- MODULE SerialUART_delivers --------------------------
(* The port implements ByteChannel: what begin(), end(), the interrupt handler *)
(* and the methods do to the bytes in it, in any order, is at each step what   *)
(* the channel may do, or nothing.  And what available() says of the ring.     *)
EXTENDS SerialUART_proof
USE DEF Cores, NoCore, Owners

-------------------------------------------------------------------------------
(* The invariant that the refinement needs besides IInv.                       *)

\* A byte being stored has a free slot, and is there when _writer is about to move.
IStored == \A x \in Contexts :
    /\ pc[x] \in {"store", "advance"} => ~Full
    /\ pc[x] = "advance" => queue[writer] = byte[x]

\* read() holds the oldest byte until it moves _reader.
IFound == \A x \in Contexts :
    pc[x] = "next" => writer # reader /\ byte[x] = queue[reader]

IBytes == IStored /\ IFound

-------------------------------------------------------------------------------
(* The ring, as a sequence.                                                    *)

\* What a ring q of n slots holds from slot r up to slot w.
RingBytes(q, w, r, n) == [k \in 1 .. (w - r) % n |-> q[(r + k - 1) % n]]

\* The byte that one of the contexts of M moves.
MovedByte(M, b) == [k \in 1 .. (IF M = {} THEN 0 ELSE 1) |-> b[CHOOSE x \in M : TRUE]]

\* The byte being moved, when nobody moves one and when x does.
LEMMA MovedNone == ASSUME NEW b PROVE MovedByte({}, b) = << >>
  BY DEF MovedByte

LEMMA MovedOne ==
  ASSUME NEW x, NEW b
  PROVE  MovedByte({x}, b) = <<b[x]>>
<1>1. (CHOOSE y \in {x} : TRUE) = x
  OBVIOUS
<1>2. {x} # {}
  OBVIOUS
<1> QED
  BY <1>1, <1>2 DEF MovedByte

\* A place at most once round the ring, and its slot.
Slot(a, n) == IF a < n THEN a ELSE a - n

LEMMA SlotIs ==
  ASSUME NEW n \in RingSizes, NEW a \in 0 .. 2 * n - 1
  PROVE  a % n = Slot(a, n)
<1>1. n \in Nat \ {0, 1}
  BY RingSizesType
<1>2. CASE a < n
  BY <1>1, <1>2 DEF Slot
<1>3. CASE ~ a < n
  <2>1. a - n \in 0 .. n - 1 /\ a = (a - n) + 1 * n
    BY <1>1, <1>3
  <2> QED
    BY <1>1, <1>3, <2>1 DEF Slot
<1> QED
  BY <1>2, <1>3

\* The number of bytes in the ring.
LEMMA CountIs ==
  ASSUME NEW n \in RingSizes, NEW w \in 0 .. n - 1, NEW r \in 0 .. n - 1
  PROVE  /\ (w - r) % n = IF w >= r THEN w - r ELSE w - r + n
         /\ (w - r) % n \in 0 .. n - 1
<1>1. n \in Nat \ {0, 1}
  BY RingSizesType
<1>2. CASE w >= r
  BY <1>1, <1>2
<1>3. CASE ~ w >= r
  <2>1. w - r + n \in 0 .. n - 1 /\ w - r = (w - r + n) - n
    BY <1>1, <1>3
  <2> QED
    BY <1>1, <1>3, <2>1
<1> QED
  BY <1>1, <1>2, <1>3

\* The sequence s is the ring from slot r up to slot w.
IsRing(s, q, w, r, n) ==
    /\ s \in Seq(Nat) /\ Len(s) = (w - r) % n
    /\ \A k \in 1 .. (w - r) % n : /\ Slot(r + k - 1, n) \in (0 .. n - 1) \ {w}
                                   /\ s[k] = q[Slot(r + k - 1, n)]

LEMMA RingIs ==
  ASSUME NEW n \in RingSizes, NEW w \in 0 .. n - 1, NEW r \in 0 .. n - 1,
         NEW q \in [0 .. n - 1 -> Nat]
  PROVE  IsRing(RingBytes(q, w, r, n), q, w, r, n)
<1> DEFINE c == (w - r) % n
<1>1. n \in Nat \ {0, 1} /\ c \in 0 .. n - 1 /\ c = (IF w >= r THEN w - r ELSE w - r + n)
  BY RingSizesType, CountIs
<1> HIDE DEF c
<1>2. ASSUME NEW k \in 1 .. c
      PROVE  /\ Slot(r + k - 1, n) \in (0 .. n - 1) \ {w}
             /\ (r + k - 1) % n = Slot(r + k - 1, n)
  <2> DEFINE a == r + k - 1
  <2>1. a \in 0 .. 2 * n - 1 /\ Slot(a, n) \in (0 .. n - 1) \ {w}
    BY <1>1 DEF Slot
  <2> HIDE DEF a
  <2>2. a % n = Slot(a, n)
    BY <2>1, SlotIs
  <2> QED
    BY <2>1, <2>2 DEF a
<1>3. \A k \in 1 .. c : q[(r + k - 1) % n] \in Nat
  BY <1>2
<1>4. RingBytes(q, w, r, n) = [k \in 1 .. c |-> q[(r + k - 1) % n]]
  BY DEF RingBytes, c
<1>5. RingBytes(q, w, r, n) \in [1 .. c -> Nat] /\ c \in Nat
  BY <1>1, <1>3, <1>4
<1>6. RingBytes(q, w, r, n) \in Seq(Nat) /\ Len(RingBytes(q, w, r, n)) = c
  <2>1. RingBytes(q, w, r, n) \in Seq(Nat)
    BY <1>5, SeqDef
  <2> QED
    BY <1>5, <2>1, LenProperties
<1>7. \A k \in 1 .. c : RingBytes(q, w, r, n)[k] = q[(r + k - 1) % n]
  BY <1>4
<1>8. \A k \in 1 .. c : /\ Slot(r + k - 1, n) \in (0 .. n - 1) \ {w}
                        /\ RingBytes(q, w, r, n)[k] = q[Slot(r + k - 1, n)]
  BY <1>2, <1>7
<1> QED
  BY <1>6, <1>8 DEF IsRing, c

\* Storing a byte in the free slot changes nothing yet.
LEMMA RingStore ==
  ASSUME NEW n \in RingSizes, NEW w \in 0 .. n - 1, NEW r \in 0 .. n - 1,
         NEW q \in [0 .. n - 1 -> Nat], NEW b \in Nat
  PROVE  RingBytes([q EXCEPT ![w] = b], w, r, n) = RingBytes(q, w, r, n)
<1> DEFINE p == [q EXCEPT ![w] = b]
           s == RingBytes(p, w, r, n)
           t == RingBytes(q, w, r, n)
           c == (w - r) % n
<1>1. p \in [0 .. n - 1 -> Nat] /\ \A i \in (0 .. n - 1) \ {w} : p[i] = q[i]
  OBVIOUS
<1> HIDE DEF p
<1>2. IsRing(s, p, w, r, n) /\ IsRing(t, q, w, r, n)
  BY <1>1, RingIs
<1>3. /\ s \in Seq(Nat) /\ Len(s) = c
      /\ \A k \in 1 .. c : /\ Slot(r + k - 1, n) \in (0 .. n - 1) \ {w}
                           /\ s[k] = p[Slot(r + k - 1, n)]
      /\ t \in Seq(Nat) /\ Len(t) = c
      /\ \A k \in 1 .. c : t[k] = q[Slot(r + k - 1, n)]
  BY <1>2 DEF IsRing
<1> HIDE DEF s, t, c
<1>4. \A k \in 1 .. c : s[k] = t[k]
  BY <1>1, <1>3
<1>5. s = t
  BY <1>3, <1>4, SeqEqual
<1> QED
  BY <1>5 DEF s, t, p

\* Moving _writer takes the byte in.
LEMMA RingAdvance ==
  ASSUME NEW n \in RingSizes, NEW w \in 0 .. n - 1, NEW r \in 0 .. n - 1,
         NEW q \in [0 .. n - 1 -> Nat],
         NEW v, v = IF w + 1 = n THEN 0 ELSE w + 1, v # r
  PROVE  RingBytes(q, v, r, n) = RingBytes(q, w, r, n) \o <<q[w]>>
<1> DEFINE s == RingBytes(q, w, r, n)
           t == RingBytes(q, v, r, n)
           c == (w - r) % n
           d == (v - r) % n
<1>1. n \in Nat \ {0, 1} /\ v \in 0 .. n - 1 /\ q[w] \in Nat
  BY RingSizesType
<1>2. /\ c \in 0 .. n - 1 /\ c = (IF w >= r THEN w - r ELSE w - r + n)
      /\ d \in 0 .. n - 1 /\ d = (IF v >= r THEN v - r ELSE v - r + n)
  BY <1>1, CountIs
<1>a. IsRing(s, q, w, r, n) /\ IsRing(t, q, v, r, n)
  BY <1>1, RingIs
<1>3. s \in Seq(Nat) /\ Len(s) = c /\ \A k \in 1 .. c : s[k] = q[Slot(r + k - 1, n)]
  BY <1>a DEF IsRing
<1>4. t \in Seq(Nat) /\ Len(t) = d /\ \A k \in 1 .. d : t[k] = q[Slot(r + k - 1, n)]
  BY <1>a DEF IsRing
<1> HIDE DEF s, t, c, d
<1>5. d = c + 1
  BY <1>1, <1>2
<1>6. /\ \A k \in 1 .. c : t[k] = s[k]
      /\ t[c + 1] = q[w]
  <2>1. Slot(r + (c + 1) - 1, n) = w
    BY <1>1, <1>2 DEF Slot
  <2>2. c + 1 \in 1 .. d
    BY <1>2, <1>5
  <2>3. t[c + 1] = q[w]
    BY <1>4, <2>1, <2>2
  <2>4. 1 .. c \subseteq 1 .. d
    BY <1>2, <1>5
  <2>5. \A k \in 1 .. c : t[k] = s[k]
    BY <1>3, <1>4, <2>4
  <2> QED
    BY <2>3, <2>5
<1>7. /\ s \o <<q[w]>> \in Seq(Nat) /\ Len(s \o <<q[w]>>) = c + 1
      /\ \A k \in 1 .. c : (s \o <<q[w]>>)[k] = s[k]
      /\ (s \o <<q[w]>>)[c + 1] = q[w]
  BY <1>1, <1>3, AppendProperties, AppendIsConcat
<1>8. t = s \o <<q[w]>>
  <2> DEFINE z == s \o <<q[w]>>
  <2>1. \A k \in 1 .. c + 1 : k \in 1 .. c \/ k = c + 1
    BY <1>2
  <2>2. /\ z \in Seq(Nat) /\ Len(z) = c + 1
        /\ \A k \in 1 .. c : z[k] = s[k]
        /\ z[c + 1] = q[w]
    BY <1>7
  <2> HIDE DEF z
  <2>3. \A k \in 1 .. c + 1 : t[k] = z[k]
    BY <1>6, <2>1, <2>2
  <2>4. t = z
    BY <1>4, <1>5, <2>2, <2>3, SeqEqual
  <2> QED
    BY <2>4 DEF z
<1> QED
  BY <1>8 DEF s, t

\* Moving _reader lets the oldest byte go.
LEMMA RingNext ==
  ASSUME NEW n \in RingSizes, NEW w \in 0 .. n - 1, NEW r \in 0 .. n - 1,
         NEW q \in [0 .. n - 1 -> Nat], w # r
  PROVE  /\ (r + 1) % n \in 0 .. n - 1 /\ (r + 1) % n = IF r + 1 = n THEN 0 ELSE r + 1
         /\ RingBytes(q, w, r, n) = <<q[r]>> \o RingBytes(q, w, (r + 1) % n, n)
<1> DEFINE u == (r + 1) % n
           s == RingBytes(q, w, r, n)
           t == RingBytes(q, w, u, n)
           c == (w - r) % n
           d == (w - u) % n
<1>1. n \in Nat \ {0, 1} /\ u = (IF r + 1 = n THEN 0 ELSE r + 1) /\ u \in 0 .. n - 1
  <2> DEFINE a == r + 1
  <2>1. n \in Nat \ {0, 1}
    BY RingSizesType
  <2>2. a \in 0 .. 2 * n - 1
    BY <2>1
  <2> HIDE DEF a
  <2>3. a % n = Slot(a, n)
    BY <2>2, SlotIs
  <2> QED
    BY <2>1, <2>3 DEF Slot, a
<1>2. q[r] \in Nat
  OBVIOUS
<1> HIDE DEF u
<1>3. /\ c \in 0 .. n - 1 /\ c = (IF w >= r THEN w - r ELSE w - r + n)
      /\ d \in 0 .. n - 1 /\ d = (IF w >= u THEN w - u ELSE w - u + n)
  BY <1>1, CountIs
<1>a. IsRing(s, q, w, r, n) /\ IsRing(t, q, w, u, n)
  BY <1>1, RingIs
<1>4. s \in Seq(Nat) /\ Len(s) = c /\ \A k \in 1 .. c : s[k] = q[Slot(r + k - 1, n)]
  BY <1>a DEF IsRing
<1>5. t \in Seq(Nat) /\ Len(t) = d /\ \A k \in 1 .. d : t[k] = q[Slot(u + k - 1, n)]
  BY <1>a DEF IsRing
<1> HIDE DEF s, t, c, d
<1>6. c = d + 1
  BY <1>1, <1>3
<1>7. s[1] = q[r]
  <2>1. Slot(r + 1 - 1, n) = r /\ 1 \in 1 .. c
    BY <1>1, <1>3, <1>6 DEF Slot
  <2> QED
    BY <1>4, <2>1
<1>8. ASSUME NEW k \in 1 .. d PROVE s[k + 1] = t[k]
  <2>1. Slot(r + (k + 1) - 1, n) = Slot(u + k - 1, n)
    BY <1>1, <1>3 DEF Slot
  <2>2. k + 1 \in 1 .. c
    BY <1>3, <1>6
  <2> QED
    BY <1>4, <1>5, <2>1, <2>2
<1>9. <<q[r]>> \in Seq(Nat) /\ Len(<<q[r]>>) = 1 /\ <<q[r]>>[1] = q[r]
  BY <1>2
<1>10. s = <<q[r]>> \o t
  <2> DEFINE z == <<q[r]>> \o t
  <2>1. /\ z \in Seq(Nat) /\ Len(z) = 1 + d
        /\ \A k \in 1 .. 1 + d : z[k] = IF k <= 1 THEN <<q[r]>>[k] ELSE t[k - 1]
    BY <1>5, <1>9, ConcatProperties
  <2> HIDE DEF z
  <2>2. ASSUME NEW k \in 1 .. c PROVE s[k] = z[k]
    <3>1. CASE k = 1
      BY <1>3, <1>6, <1>7, <1>9, <2>1, <3>1
    <3>2. CASE k # 1
      <4>1. k - 1 \in 1 .. d /\ (k - 1) + 1 = k
        BY <1>3, <1>6, <3>2
      <4>2. s[(k - 1) + 1] = t[k - 1]
        BY <1>8, <4>1
      <4>3. k \in 1 .. 1 + d /\ ~ k <= 1
        BY <1>3, <1>6, <3>2
      <4>4. z[k] = t[k - 1]
        BY <2>1, <4>3
      <4> QED
        BY <4>1, <4>2, <4>4
    <3> QED
      BY <3>1, <3>2
  <2>3. s = z
    BY <1>3, <1>4, <1>6, <2>1, <2>2, SeqEqual
  <2> QED
    BY <2>3 DEF z
<1> QED
  BY <1>1, <1>10 DEF s, t, u

\* A new ring holds nothing.
LEMMA RingNew ==
  ASSUME NEW n \in RingSizes, NEW q
  PROVE  RingBytes(q, 0, 0, n) = << >>
<1>1. n \in Nat \ {0, 1} /\ (0 - 0) % n = 0
  BY RingSizesType
<1> QED
  BY <1>1 DEF RingBytes

-------------------------------------------------------------------------------
(* The line of bytes in the port: ring, the byte being moved, the UART's FIFO. *)

Line(h, M, b, r) == h \o MovedByte(M, b) \o r

\* Transit and Held with their parts named, in a state and in the next.
LEMMA TransitIs ==
  /\ Transit = Line(Held, Moving, byte, rx)
  /\ Transit' = Line(Held', Moving', byte', rx')
  BY DEF Transit, Line, MovedByte

LEMMA HeldIs ==
  /\ Held = IF ~Built THEN << >> ELSE RingBytes(queue, writer, reader, size)
  /\ Held' = IF ~Built' THEN << >> ELSE RingBytes(queue', writer', reader', size')
  BY DEF Held, RingBytes

\* The line when no byte is being moved.
LEMMA LineNone ==
  ASSUME NEW h \in Seq(Nat), NEW b, NEW r
  PROVE  Line(h, {}, b, r) = h \o r
<1>1. h \o << >> = h
  BY ConcatEmptySeq
<1> QED
  BY <1>1, MovedNone DEF Line

\* A byte that arrives is the last of the line.
LEMMA LineAppend ==
  ASSUME NEW h \in Seq(Nat), NEW m \in Seq(Nat), NEW r \in Seq(Nat), NEW a \in Nat
  PROVE  h \o m \o Append(r, a) = Append(h \o m \o r, a)
<1> DEFINE g == h \o m
<1>1. g \in Seq(Nat)
  BY ConcatProperties
<1> HIDE DEF g
<1>2. g \o r \in Seq(Nat)
  BY <1>1, ConcatProperties
<1>3. Append(r, a) = r \o <<a>> /\ Append(g \o r, a) = (g \o r) \o <<a>>
  BY <1>2, AppendIsConcat
<1>4. <<a>> \in Seq(Nat)
  OBVIOUS
<1>5. g \o (r \o <<a>>) = (g \o r) \o <<a>>
  BY <1>1, <1>4, ConcatAssociative
<1>6. g \o Append(r, a) = Append(g \o r, a)
  BY <1>3, <1>5
<1> QED
  BY <1>6 DEF g

\* A sequence is its head and its tail.
LEMMA HeadThenTail ==
  ASSUME NEW r \in Seq(Nat), r # << >>
  PROVE  Head(r) \in Nat /\ Tail(r) \in Seq(Nat) /\ r = <<Head(r)>> \o Tail(r)
<1>1. Head(r) \in Nat /\ Tail(r) \in Seq(Nat)
  BY HeadTailProperties
<1>2. Len(r) \in Nat \ {0} /\ Len(r) >= 1
  BY EmptySeq
<1>3. r = SubSeq(r, 1, Len(r)) /\ Tail(r) = SubSeq(r, 2, Len(r))
  BY SubSeqFull, TailIsSubSeq
<1>4. SubSeq(r, 1, Len(r)) = <<r[1]>> \o SubSeq(r, 1 + 1, Len(r))
  <2>1. 1 \in 1 .. Len(r) /\ Len(r) \in 1 .. Len(r)
    BY <1>2
  <2> QED
    BY <2>1, SubSeqRecursiveFirst
<1>5. Head(r) = r[1]
  BY <1>2
<1> QED
  BY <1>1, <1>3, <1>4, <1>5

\* What follows the oldest byte is the tail.
LEMMA TailAfterHead ==
  ASSUME NEW a \in Nat, NEW t \in Seq(Nat)
  PROVE  /\ <<a>> \o t \in Seq(Nat) /\ <<a>> \o t # << >>
         /\ Head(<<a>> \o t) = a /\ Tail(<<a>> \o t) = t
<1> DEFINE z == <<a>> \o t
<1>1. <<a>> \in Seq(Nat) /\ Len(<<a>>) = 1 /\ <<a>>[1] = a
  OBVIOUS
<1>2. /\ z \in Seq(Nat) /\ Len(z) = 1 + Len(t)
      /\ \A i \in 1 .. 1 + Len(t) : z[i] = IF i <= 1 THEN <<a>>[i] ELSE t[i - 1]
  BY <1>1, ConcatProperties
<1>3. Len(t) \in Nat
  BY LenProperties
<1> HIDE DEF z
<1>4. z # << >> /\ Head(z) = a
  <2>1. 1 \in 1 .. 1 + Len(t) /\ Len(z) # 0
    BY <1>2, <1>3
  <2>2. z # << >>
    BY <2>1, EmptySeq
  <2>3. z[1] = a
    BY <1>1, <1>2, <2>1
  <2> QED
    BY <1>2, <2>2, <2>3
<1>5. /\ Tail(z) \in Seq(Nat) /\ Len(Tail(z)) = Len(t)
      /\ \A i \in 1 .. Len(t) : Tail(z)[i] = z[i + 1]
  BY <1>2, <1>3, <1>4, HeadTailProperties
<1>6. \A i \in 1 .. Len(t) : Tail(z)[i] = t[i]
  <2> SUFFICES ASSUME NEW i \in 1 .. Len(t) PROVE z[i + 1] = t[i]
    BY <1>5
  <2>1. i + 1 \in 1 .. 1 + Len(t) /\ ~ i + 1 <= 1 /\ (i + 1) - 1 = i
    BY <1>3
  <2> QED
    BY <1>2, <2>1
<1>7. Tail(z) = t
  BY <1>5, <1>6, SeqEqual
<1> QED
  BY <1>2, <1>4, <1>7 DEF z

\* Without the byte between them, h and r are side by side.
LEMMA RemoveBetween ==
  ASSUME NEW h \in Seq(Nat), NEW c \in Nat, NEW r \in Seq(Nat)
  PROVE  LET s == h \o <<c>> \o r IN
         /\ Len(h) + 1 \in DOMAIN s
         /\ RemoveAt(s, Len(h) + 1) = h \o r
<1> DEFINE g == h \o <<c>>
           s == g \o r
           n == Len(h)
           m == Len(r)
<1>1. n \in Nat /\ m \in Nat /\ <<c>> \in Seq(Nat) /\ Len(<<c>>) = 1
  BY LenProperties
<1>2. /\ g \in Seq(Nat) /\ Len(g) = n + 1
      /\ \A i \in 1 .. n + 1 : g[i] = IF i <= n THEN h[i] ELSE <<c>>[i - n]
  BY <1>1, ConcatProperties
<1> HIDE DEF g
<1>3. /\ s \in Seq(Nat) /\ Len(s) = n + 1 + m
      /\ \A i \in 1 .. n + 1 + m : s[i] = IF i <= n + 1 THEN g[i] ELSE r[i - (n + 1)]
  <2>1. /\ s \in Seq(Nat) /\ Len(s) = Len(g) + Len(r)
        /\ \A i \in 1 .. Len(g) + Len(r) : s[i] = IF i <= Len(g) THEN g[i] ELSE r[i - Len(g)]
    <3>1. g \in Seq(Nat)
      BY <1>2
    <3> QED
      BY <3>1, ConcatProperties, ZenonT(30)
  <2> HIDE DEF s
  <2> QED
    BY <1>1, <1>2, <2>1
<1>4. DOMAIN s = 1 .. n + 1 + m /\ \A i \in 1 .. n + 1 + m : s[i] \in Nat
  BY <1>3, LenProperties, ElementOfSeq
<1> HIDE DEF s, n, m
<1>5. SubSeq(s, 1, n) = h
  <2>1. /\ SubSeq(s, 1, n) \in Seq(Nat) /\ Len(SubSeq(s, 1, n)) = n
        /\ \A i \in 1 .. n : SubSeq(s, 1, n)[i] = s[i]
    <3>1. \A i \in 1 .. n : s[i] \in Nat
      BY <1>1, <1>4
    <3>2. /\ SubSeq(s, 1, n) \in Seq(Nat)
          /\ Len(SubSeq(s, 1, n)) = IF 1 <= n THEN n - 1 + 1 ELSE 0
          /\ \A i \in 1 .. n - 1 + 1 : SubSeq(s, 1, n)[i] = s[1 + i - 1]
      BY <1>1, <3>1, SubSeqProperties
    <3> QED
      BY <1>1, <3>2
  <2>2. \A i \in 1 .. n : s[i] = h[i]
    BY <1>1, <1>2, <1>3
  <2> QED
    BY <2>1, <2>2, SeqEqual DEF n
<1>6. SubSeq(s, n + 2, n + 1 + m) = r
  <2> DEFINE z == SubSeq(s, n + 2, n + 1 + m)
  <2>1. /\ z \in Seq(Nat) /\ Len(z) = m
        /\ \A i \in 1 .. m : z[i] = s[n + 2 + i - 1]
    <3>1. \A i \in n + 2 .. n + 1 + m : s[i] \in Nat
      BY <1>1, <1>4
    <3>2. /\ z \in Seq(Nat)
          /\ Len(z) = IF n + 2 <= n + 1 + m THEN (n + 1 + m) - (n + 2) + 1 ELSE 0
          /\ \A i \in 1 .. (n + 1 + m) - (n + 2) + 1 : z[i] = s[n + 2 + i - 1]
      <4>1. n + 2 \in Int /\ n + 1 + m \in Int
        BY <1>1
      <4> QED
        BY <3>1, <4>1, SubSeqProperties
    <3>3. (n + 1 + m) - (n + 2) + 1 = m
      BY <1>1
    <3> HIDE DEF z
    <3> QED
      BY <1>1, <3>2, <3>3
  <2> HIDE DEF z
  <2>2. \A i \in 1 .. m : s[n + 2 + i - 1] = r[i]
    <3> SUFFICES ASSUME NEW i \in 1 .. m PROVE s[n + 2 + i - 1] = r[i]
      OBVIOUS
    <3> DEFINE j == n + 2 + i - 1
    <3>1. j \in 1 .. n + 1 + m /\ ~ j <= n + 1 /\ j - (n + 1) = i
      BY <1>1
    <3> HIDE DEF j
    <3>2. s[j] = r[j - (n + 1)]
      BY <1>3, <3>1
    <3> QED
      BY <3>1, <3>2 DEF j
  <2>3. z = r
    BY <2>1, <2>2, SeqEqual DEF m
  <2> QED
    BY <2>3 DEF z
<1>7. (n + 1) - 1 = n /\ (n + 1) + 1 = n + 2 /\ n + 1 \in 1 .. n + 1 + m
  BY <1>1
<1>8. n + 1 \in DOMAIN s /\ RemoveAt(s, n + 1) = h \o r
  BY <1>3, <1>4, <1>5, <1>6, <1>7 DEF RemoveAt
<1> QED
  BY <1>8 DEF s, g, n

-------------------------------------------------------------------------------
(* IBytes is an invariant.                                                     *)

\* The ring that is built, with its indices in it.
LEMMA TheRing ==
  ASSUME IInv, Built
  PROVE  /\ size \in RingSizes /\ size \in Nat \ {0, 1}
         /\ queue \in [0 .. size - 1 -> Nat]
         /\ writer \in 0 .. size - 1 /\ reader \in 0 .. size - 1
<1>1. size \in RingSizes /\ size \in Nat \ {0, 1} /\ writer \in Nat /\ reader \in Nat
  BY RingSizesType DEF IInv, TypeOK
<1>2. DOMAIN queue = 0 .. size - 1 /\ writer < size /\ reader < size
  BY DEF IInv, TypeOK
<1>3. PICK n \in RingSizes : queue \in [0 .. n - 1 -> 0 .. MaxBytes]
  BY DEF IInv, TypeOK, Built
<1>4. queue \in [0 .. size - 1 -> Nat]
  <2>1. 0 .. MaxBytes \subseteq Nat
    BY SerialAssumption
  <2> QED
    BY <1>2, <1>3, <2>1
<1> QED
  BY <1>1, <1>2, <1>4

LEMMA ContextVars ==
  ASSUME IInv
  PROVE  pc \in [Contexts -> Labels] /\ byte \in [Contexts -> Nat]
  BY DEF IInv, TypeOK

\* One context moves bytes, and one at most is about to move _reader.
LEMMA OneMoves ==
  ASSUME IInv, NEW x \in Contexts, NEW y \in Contexts
  PROVE  /\ pc[x] \in Drain /\ pc[y] \in Drain => x = y
         /\ pc[x] = "next" /\ pc[y] = "next" => x = y
<1>1. ASSUME pc[x] \in Drain, pc[y] \in Drain PROVE x = y
  <2>1. CASE polling
    BY <1>1, <2>1 DEF IInv, IConfig, IPlace, IMutex, HoldsMutex, InBody
  <2>2. CASE ~polling
    BY <1>1, <2>2 DEF IInv, IFifo, HoldsFifo
  <2> QED
    BY <2>1, <2>2
<1>2. ASSUME pc[x] = "next", pc[y] = "next" PROVE x = y
  BY <1>2 DEF IInv, IMutex, HoldsMutex, InBody
<1> QED
  BY <1>1, <1>2

\* Nobody uses a ring that is not built, or is about to be deleted.
LEMMA NobodyThere ==
  ASSUME IInv, ~Built \/ pc[T] = "delete", NEW x \in Contexts
  PROVE  pc[x] \notin Drain \cup {"next"}
<1>1. CASE ~Built
  BY <1>1, AliveInBody DEF InBody
<1>2. CASE pc[T] = "delete"
  <2>1. HoldsMutex(T) /\ HoldsFifo(T) /\ T \in Contexts
    BY <1>2, ContextFacts DEF HoldsMutex, HoldsFifo
  <2>2. ASSUME pc[x] \in Drain \cup {"next"} PROVE FALSE
    <3>1. HoldsMutex(x) \/ HoldsFifo(x)
      BY <2>2 DEF HoldsMutex, HoldsFifo, InBody
    <3>2. x = T
      BY <2>1, <3>1 DEF IInv, IMutex, IFifo
    <3> QED
      BY <1>2, <2>2, <3>2 DEF Drain
  <2> QED
    BY <2>2
<1> QED
  BY <1>1, <1>2

\* Where the byte a context holds has left the UART and is not in the ring yet.
MovingLabels == {"check", "store", "advance"}

\* A step of x that leaves the bytes in the port alone.
Quiet(x) ==
    /\ UNCHANGED <<rx, arrived, size, queue, writer, reader, got>>
    /\ pc[x] \notin MovingLabels \cup {"indices"} /\ pc'[x] \notin MovingLabels \cup {"indices"}
    /\ \A y \in Contexts \ {x} : pc'[y] = pc[y] /\ byte'[y] = byte[y]

\* ... and does not look for a byte in the ring.
Aside(x) == Quiet(x) /\ pc[x] # "next" /\ pc'[x] # "next"

AsideSteps(x) ==
    \/ CallBegin(x) \/ CallEnd(x) \/ Call(x) \/ Stop(x) \/ Disable(x)
    \/ EndMutex(x) \/ EndFifo(x) \/ Unlock(x) \/ Listen(x) \/ Ready(x)
    \/ TryRefused(x) \/ Try(x) \/ Clear(x) \/ Emptied(x) \/ Exit(x)
    \/ Enter(x) \/ EnterRefused(x) \/ NotRunning(x) \/ Running(x)
    \/ PumpFifo(x) \/ Restore(x) \/ Hold(x) \/ Forget(x) \/ PutByte(x) \/ Leave(x)

\* These steps are aside, and so is the interrupt.
LEMMA StepsAside ==
  ASSUME IInv, NEW x \in Contexts, AsideSteps(x)
  PROVE  Aside(x)
<1> USE ContextVars
<1> USE DEF Aside, Quiet, MovingLabels, Step, Returns, localVars, lockVars, uartVars,
            configVars, ringVars, histVars
<1>1. CASE CallBegin(x)
  BY <1>1 DEF CallBegin
<1>2. CASE CallEnd(x)
  BY <1>2 DEF CallEnd
<1>3. CASE Call(x)
  BY <1>3 DEF Call
<1>4. CASE Stop(x)
  BY <1>4 DEF Stop
<1>5. CASE Disable(x)
  BY <1>5 DEF Disable
<1>6. CASE EndMutex(x)
  BY <1>6 DEF EndMutex
<1>7. CASE EndFifo(x)
  BY <1>7 DEF EndFifo
<1>8. CASE Unlock(x)
  BY <1>8 DEF Unlock
<1>9. CASE Listen(x)
  BY <1>9 DEF Listen
<1>10. CASE Ready(x)
  BY <1>10 DEF Ready
<1>11. CASE TryRefused(x)
  BY <1>11 DEF TryRefused
<1>12. CASE Try(x)
  BY <1>12 DEF Try
<1>13. CASE Clear(x)
  BY <1>13 DEF Clear
<1>14. CASE Emptied(x)
  BY <1>14 DEF Emptied
<1>15. CASE Exit(x)
  BY <1>15 DEF Exit
<1>16. CASE Enter(x)
  BY <1>16 DEF Enter
<1>17. CASE EnterRefused(x)
  BY <1>17 DEF EnterRefused
<1>18. CASE NotRunning(x)
  BY <1>18 DEF NotRunning
<1>19. CASE Running(x)
  BY <1>19 DEF Running
<1>20. CASE PumpFifo(x)
  BY <1>20 DEF PumpFifo
<1>21. CASE Restore(x)
  BY <1>21 DEF Restore
<1>22. CASE Hold(x)
  BY <1>22 DEF Hold
<1>23. CASE Forget(x)
  BY <1>23 DEF Forget
<1>24. CASE PutByte(x)
  BY <1>24 DEF PutByte
<1>25. CASE Leave(x)
  BY <1>25 DEF Leave
<1> QED
  BY <1>1, <1>2, <1>3, <1>4, <1>5, <1>6, <1>7, <1>8, <1>9, <1>10, <1>11, <1>12, <1>13,
     <1>14, <1>15, <1>16, <1>17, <1>18, <1>19, <1>20, <1>21, <1>22, <1>23, <1>24, <1>25
     DEF AsideSteps

LEMMA InterruptAside ==
  ASSUME IInv, NEW c \in Cores, Interrupt(c)
  PROVE  Aside(<<c, "isr">>)
  BY ContextVars, ContextFacts
     DEF Interrupt, Aside, Quiet, MovingLabels, Step, localVars, lockVars, uartVars,
         configVars, ringVars, histVars

\* The steps that do touch the bytes.
ByteSteps(x) ==
    \/ Configure(x) \/ Alloc(x) \/ Indices(x) \/ Delete(x) \/ GetByte(x)
    \/ Room(x) \/ NoRoom(x) \/ Store(x) \/ Advance(x) \/ Result(x) \/ NextReader(x)

\* Every step is one of them.
LEMMA NextIs ==
  ASSUME [Next]_vars
  PROVE  \/ Arrive \/ UNCHANGED vars
         \/ \E c \in Cores : Interrupt(c)
         \/ \E x \in Contexts : AsideSteps(x) \/ ByteSteps(x)
  BY DEF Next, Continue, EndSteps, BeginSteps, DrainSteps, MethodSteps, AsideSteps, ByteSteps

LEMMA BytesInit == Init => IBytes
  BY DEF Init, IBytes, IStored, IFound

\* IBytes is kept while the ring and the bytes held at it do not change.
LEMMA BytesKept ==
  ASSUME IBytes, UNCHANGED <<queue, writer, reader, size>>,
         \A y \in Contexts : pc'[y] \in {"store", "advance", "next"} =>
                                 pc'[y] = pc[y] /\ byte'[y] = byte[y]
  PROVE  IBytes'
  BY DEF IBytes, IStored, IFound, Full, Following

LEMMA BytesStep == IInv /\ IBytes /\ [Next]_vars => IBytes'
<1> SUFFICES ASSUME IInv, IBytes, [Next]_vars PROVE IBytes'
  OBVIOUS
<1> USE ContextVars
<1> USE DEF Step, localVars, lockVars, uartVars, configVars, ringVars, histVars
<1>0. ASSUME NEW x \in Contexts, Aside(x) PROVE IBytes'
  BY <1>0, BytesKept DEF Aside, Quiet, MovingLabels
<1>1. CASE Arrive
  BY <1>1, BytesKept DEF Arrive
<1>2. ASSUME NEW x \in Contexts, Configure(x) PROVE IBytes'
  <2>1. x = T /\ ~Built /\ UNCHANGED pc
    <3>1. x = T
      BY <1>2, Configures DEF Configure
    <3>2. ~up
      BY <1>2, <3>1 DEF Configure, IInv, IConfig, ConfigLabels
    <3> QED
      BY <1>2, <3>1, <3>2 DEF Configure, IInv, IConfig, Built
  <2>2. \A y \in Contexts : pc'[y] \notin {"store", "advance", "next"}
    BY <2>1, NobodyThere DEF Drain
  <2> QED
    BY <2>2 DEF IBytes, IStored, IFound
<1>3. ASSUME NEW x \in Contexts, Alloc(x) \/ Indices(x) \/ Delete(x) PROVE IBytes'
  <2>1. /\ pc[x] \in {"alloc", "indices", "delete"} /\ x = T
        /\ \E m \in {"indices", "ready", "listen", "unlock"} : pc' = [pc EXCEPT ![x] = m]
    BY <1>3 DEF Alloc, Indices, Delete, IInv, IPlace, ConfigLabels
  <2>2. ~Built \/ pc[T] = "delete"
    BY <2>1 DEF IInv, IConfig, Built
  <2>3. \A y \in Contexts : pc[y] \notin {"store", "advance", "next"}
    BY <2>2, NobodyThere DEF Drain
  <2>4. \A y \in Contexts : pc'[y] \notin {"store", "advance", "next"}
    BY <2>1, <2>3
  <2> QED
    BY <2>4 DEF IBytes, IStored, IFound
<1>4. ASSUME NEW x \in Contexts, GetByte(x) PROVE IBytes'
  BY <1>4, BytesKept DEF GetByte
<1>5. ASSUME NEW x \in Contexts, NoRoom(x) PROVE IBytes'
  BY <1>5, BytesKept DEF NoRoom
<1>6. ASSUME NEW x \in Contexts, Room(x) PROVE IBytes'
  BY <1>6 DEF Room, IBytes, IStored, IFound, Full, Following
<1>7. ASSUME NEW x \in Contexts, Store(x) PROVE IBytes'
  <2>1. /\ pc[x] = "store" /\ pc' = [pc EXCEPT ![x] = "advance"]
        /\ queue' = [queue EXCEPT ![writer] = byte[x]]
        /\ UNCHANGED <<byte, writer, reader, size>>
    BY <1>7 DEF Store
  <2>2. /\ queue \in [0 .. size - 1 -> Nat]
        /\ writer \in 0 .. size - 1 /\ reader \in 0 .. size - 1
    BY <2>1, AliveInBody, TheRing DEF Drain
  <2>3. /\ queue'[writer] = byte[x]
        /\ writer # reader => queue'[reader] = queue[reader]
    BY <2>1, <2>2
  <2>4. \A y \in Contexts : pc'[y] \in {"store", "advance"} => y = x
    BY <2>1, OneMoves DEF Drain
  <2>5. IStored'
    BY <2>1, <2>3, <2>4 DEF IBytes, IStored, Full, Following
  <2>6. IFound'
    BY <2>1, <2>3 DEF IBytes, IFound
  <2> QED
    BY <2>5, <2>6 DEF IBytes
<1>8. ASSUME NEW x \in Contexts, Advance(x) PROVE IBytes'
  <2>1. /\ pc[x] = "advance" /\ pc' = [pc EXCEPT ![x] = "poll"]
        /\ writer' = Following(writer)
        /\ \A y \in Contexts \ {x} : byte'[y] = byte[y]
        /\ UNCHANGED <<queue, reader, size>>
    BY <1>8 DEF Advance
  <2>2. writer' # reader
    BY <2>1 DEF IBytes, IStored, Full
  <2>3. \A y \in Contexts : pc'[y] \notin {"store", "advance"}
    BY <2>1, OneMoves DEF Drain
  <2>4. IFound'
    BY <2>1, <2>2 DEF IBytes, IFound
  <2>5. IStored'
    BY <2>3 DEF IStored
  <2> QED
    BY <2>4, <2>5 DEF IBytes
<1>9. ASSUME NEW x \in Contexts, Result(x) PROVE IBytes'
  <2>1. /\ pc[x] = "result" /\ UNCHANGED <<queue, writer, reader, size>>
        /\ pc' = [pc EXCEPT ![x] = IF op[x] = "read" /\ writer # reader THEN "next" ELSE "leave"]
        /\ \A y \in Contexts \ {x} : byte'[y] = byte[y]
        /\ op[x] = "read" /\ writer # reader => byte'[x] = queue[reader]
    BY <1>9 DEF Result
  <2>2. IFound'
    BY <2>1 DEF IBytes, IFound
  <2>3. IStored'
    BY <2>1 DEF IBytes, IStored, Full, Following
  <2> QED
    BY <2>2, <2>3 DEF IBytes
<1>10. ASSUME NEW x \in Contexts, NextReader(x) PROVE IBytes'
  <2>1. /\ pc[x] = "next" /\ pc' = [pc EXCEPT ![x] = "leave"]
        /\ reader' = (reader + 1) % size /\ UNCHANGED <<byte, queue, writer, size>>
    BY <1>10 DEF NextReader
  <2>2. /\ size \in RingSizes /\ size \in Nat \ {0, 1}
        /\ queue \in [0 .. size - 1 -> Nat]
        /\ writer \in 0 .. size - 1 /\ reader \in 0 .. size - 1
    BY <2>1, AliveInBody, TheRing DEF InBody
  <2>3. writer # reader
    BY <2>1 DEF IBytes, IFound
  <2>4. reader' = IF reader + 1 = size THEN 0 ELSE reader + 1
    BY <2>1, <2>2, <2>3, RingNext
  <2>5. Following(writer) # reader'
    BY <2>2, <2>3, <2>4 DEF Following
  <2>6. \A y \in Contexts : pc'[y] # "next"
    BY <2>1, OneMoves
  <2>7. IFound'
    BY <2>6 DEF IFound
  <2>8. IStored'
    BY <2>1, <2>5 DEF IBytes, IStored, Full, Following
  <2> QED
    BY <2>7, <2>8 DEF IBytes
<1>11. CASE UNCHANGED vars
  BY <1>11, BytesKept DEF vars
<1> QED
  BY <1>0, <1>1, <1>2, <1>3, <1>4, <1>5, <1>6, <1>7, <1>8, <1>9, <1>10, <1>11,
     NextIs, StepsAside, InterruptAside, ContextFacts DEF ByteSteps

(* IBytes holds, with IInv, in every reachable state.                          *)
THEOREM BytesInvariance == Spec => [](IInv /\ IBytes)
<1>1. Init => IBytes
  BY BytesInit
<1>2. IInv /\ IBytes /\ [Next]_vars => IBytes'
  BY BytesStep
<1> QED
  BY <1>1, <1>2, Invariance, PTL DEF Spec

-------------------------------------------------------------------------------
(* Each step of the port is a step of the channel, or leaves it as it was.     *)

LEMMA PartTypes ==
  ASSUME IInv
  PROVE  Held \in Seq(Nat) /\ rx \in Seq(Nat)
<1>1. rx \in Seq(Nat)
  <2>1. rx \in Seq(Bytes) /\ Bytes \subseteq Nat
    BY SerialAssumption DEF IInv, TypeOK, Bytes
  <2> QED
    BY <2>1, SeqMonotonic
<1>2. CASE ~Built
  BY <1>1, <1>2, HeldIs, EmptySeq
<1>3. CASE Built
  <2>1. IsRing(RingBytes(queue, writer, reader, size), queue, writer, reader, size)
    BY <1>3, TheRing, RingIs
  <2> QED
    BY <1>1, <1>3, <2>1, HeldIs DEF IsRing
<1> QED
  BY <1>2, <1>3

\* Who is moving a byte.
LEMMA MovingIs ==
  ASSUME IInv
  PROVE  /\ \A x \in Contexts : pc[x] \in MovingLabels => Moving = {x}
         /\ \A x \in Contexts : pc[x] \in Drain \ MovingLabels => Moving = {}
         /\ ~Built \/ pc[T] = "delete" => Moving = {}
         /\ Moving = {} \/ \E x \in Contexts : Moving = {x}
<1>1. MovingLabels \subseteq Drain /\ Moving = {x \in Contexts : pc[x] \in MovingLabels}
  BY DEF MovingLabels, Drain, Moving
<1>2. ASSUME NEW x \in Contexts, pc[x] \in MovingLabels PROVE Moving = {x}
  BY <1>1, <1>2, OneMoves
<1>3. ASSUME NEW x \in Contexts, pc[x] \in Drain \ MovingLabels PROVE Moving = {}
  BY <1>1, <1>3, OneMoves
<1>4. ASSUME ~Built \/ pc[T] = "delete" PROVE Moving = {}
  BY <1>1, <1>4, NobodyThere
<1>5. Moving = {} \/ \E x \in Contexts : Moving = {x}
  BY <1>1, <1>2
<1> QED
  BY <1>2, <1>3, <1>4, <1>5

LEMMA MovedType ==
  ASSUME IInv
  PROVE  MovedByte(Moving, byte) \in Seq(Nat)
<1>1. CASE Moving = {}
  BY <1>1, MovedNone, EmptySeq
<1>2. ASSUME NEW y \in Contexts, Moving = {y} PROVE MovedByte(Moving, byte) \in Seq(Nat)
  <2>1. byte[y] \in Nat
    BY ContextVars
  <2>2. MovedByte({y}, byte) = <<byte[y]>>
    BY MovedOne
  <2>3. <<byte[y]>> \in Seq(Nat)
    BY <2>1
  <2> QED
    BY <1>2, <2>2, <2>3
<1> QED
  BY <1>1, <1>2, MovingIs

\* A quiet step is none of the channel's.
LEMMA QuietStutters ==
  ASSUME IInv, NEW x \in Contexts, Quiet(x)
  PROVE  UNCHANGED <<arrived, Transit, got>>
<1>1. Built' = Built
  BY DEF Quiet, Built
<1>2. Held' = Held
  BY <1>1, HeldIs DEF Quiet
<1>3. Moving' = Moving /\ x \notin Moving
  BY DEF Moving, Quiet, MovingLabels
<1>4. MovedByte(Moving', byte') = MovedByte(Moving, byte)
  <2>1. CASE Moving = {}
    BY <1>3, <2>1, MovedNone
  <2>2. ASSUME NEW y \in Contexts, Moving = {y} PROVE MovedByte(Moving', byte') = MovedByte(Moving, byte)
    <3>1. byte'[y] = byte[y]
      BY <1>3, <2>2 DEF Quiet
    <3>2. MovedByte({y}, byte') = <<byte'[y]>> /\ MovedByte({y}, byte) = <<byte[y]>>
      BY MovedOne
    <3> QED
      BY <1>3, <2>2, <3>1, <3>2
  <2> QED
    BY <2>1, <2>2, MovingIs
<1>5. Transit' = Transit
  BY <1>2, <1>4, TransitIs DEF Quiet, Line
<1> QED
  BY <1>5 DEF Quiet

\* One lemma for each step that touches the bytes, named for what it is to the
\* channel.
LEMMA ArriveIs ==
  ASSUME IInv, Arrive
  PROVE  Port!Arrive
<1>1. /\ arrived' = arrived + 1 /\ got' = got
      /\ UNCHANGED <<pc, byte, queue, writer, reader, size>>
      /\ rx' = Append(rx, arrived') \/ rx' = rx
  BY DEF Arrive, localVars, configVars, ringVars, histVars
<1>2. Held' = Held /\ Moving' = Moving
  <2>1. Built' = Built /\ Moving' = Moving
    BY <1>1 DEF Built, Moving
  <2> QED
    BY <1>1, <2>1, HeldIs
<1>3. Transit' = Line(Held, Moving, byte, rx')
  BY <1>1, <1>2, TransitIs
<1>4. CASE rx' = rx
  BY <1>1, <1>3, <1>4, TransitIs DEF Port!Arrive
<1>5. CASE rx' = Append(rx, arrived')
  <2>1. Held \in Seq(Nat) /\ rx \in Seq(Nat) /\ arrived' \in Nat
    BY <1>1, PartTypes DEF IInv, TypeOK
  <2>2. MovedByte(Moving, byte) \in Seq(Nat)
    BY MovedType
  <2>3. Transit' = Append(Transit, arrived')
    BY <1>3, <1>5, <2>1, <2>2, LineAppend, TransitIs DEF Line
  <2> QED
    BY <1>1, <2>3 DEF Port!Arrive
<1> QED
  BY <1>1, <1>4, <1>5

LEMMA DiscardIs ==
  ASSUME IInv, NEW x \in Contexts, Alloc(x) \/ Delete(x)
  PROVE  Port!Discard
<1>1. /\ pc[x] \in {"alloc", "delete"} /\ x = T /\ rx' = << >> /\ UNCHANGED <<arrived, got, byte>>
      /\ \/ pc' = [pc EXCEPT ![x] = "indices"]
         \/ pc' = [pc EXCEPT ![x] = "unlock"] /\ queue' = Deleted
  BY DEF Alloc, Delete, Step, localVars, histVars, IInv, IPlace, ConfigLabels
<1>2. Moving = {}
  <2>1. ~Built \/ pc[T] = "delete"
    BY <1>1 DEF IInv, IConfig, Built
  <2> QED
    BY <2>1, MovingIs
<1>3. Moving' = {}
  BY <1>1, <1>2, ContextVars DEF Moving
<1>4. ~Built'
  BY <1>1, ContextVars DEF Built
<1>5. Transit' = << >>
  <2>1. << >> \in Seq(Nat) /\ << >> \o << >> = << >>
    BY EmptySeq, ConcatEmptySeq
  <2> QED
    BY <1>1, <1>3, <1>4, <2>1, TransitIs, HeldIs, LineNone
<1> QED
  BY <1>1, <1>5 DEF Port!Discard

LEMMA IndicesStutters ==
  ASSUME IInv, NEW x \in Contexts, Indices(x)
  PROVE  UNCHANGED <<arrived, Transit, got>>
<1>1. /\ pc[x] = "indices" /\ \E m \in {"ready", "listen"} : pc' = [pc EXCEPT ![x] = m]
      /\ writer' = 0 /\ reader' = 0
      /\ UNCHANGED <<rx, arrived, got, byte, queue, size>>
  BY DEF Indices, Step, localVars, uartVars, configVars, histVars
<1>2. ~Built /\ Moving = {} /\ Moving' = {}
  <2>1. ~Built
    BY <1>1 DEF Built
  <2>2. Moving = {}
    BY <2>1, MovingIs
  <2> QED
    BY <1>1, <2>1, <2>2, ContextVars DEF Moving
<1>3. Held = << >> /\ Held' = << >>
  <2>1. RingBytes(queue', 0, 0, size) = << >>
    <3>1. size \in RingSizes
      BY DEF IInv, TypeOK
    <3> QED
      BY <3>1, RingNew
  <2> QED
    BY <1>1, <1>2, <2>1, HeldIs
<1>4. Transit' = Transit
  BY <1>1, <1>2, <1>3, TransitIs DEF Line, MovedByte
<1> QED
  BY <1>1, <1>4

LEMMA ConfigureStutters ==
  ASSUME IInv, NEW x \in Contexts, Configure(x)
  PROVE  UNCHANGED <<arrived, Transit, got>>
<1>1. ~Built /\ UNCHANGED <<pc, byte, queue, rx, arrived, got>>
  <2>1. x = T
    BY Configures DEF Configure
  <2>2. ~up
    BY <2>1 DEF Configure, IInv, IConfig, ConfigLabels
  <2> QED
    BY <2>1, <2>2
       DEF Configure, IInv, IConfig, Built, localVars, uartVars, ringVars, histVars
<1>2. ~Built' /\ Moving' = Moving
  BY <1>1 DEF Built, Moving
<1>3. Transit' = Transit
  BY <1>1, <1>2, TransitIs, HeldIs
<1> QED
  BY <1>1, <1>3

LEMMA GetByteStutters ==
  ASSUME IInv, NEW x \in Contexts, GetByte(x)
  PROVE  UNCHANGED <<arrived, Transit, got>>
<1>1. /\ pc[x] = "poll" /\ pc' = [pc EXCEPT ![x] = "check"] /\ rx # << >>
      /\ byte'[x] = Head(rx) /\ rx' = Tail(rx)
      /\ UNCHANGED <<arrived, got, queue, writer, reader, size>>
  BY ContextVars DEF GetByte, Step, configVars, ringVars, histVars
<1>2. Moving = {} /\ Moving' = {x}
  <2>1. Moving = {}
    BY <1>1, MovingIs DEF Drain, MovingLabels
  <2> QED
    BY <1>1, <2>1, ContextVars DEF Moving
<1>3. Held' = Held
  <2>1. Built' = Built
    BY <1>1, ContextVars DEF Built
  <2> QED
    BY <1>1, <2>1, HeldIs
<1>4. Transit = Held \o rx
  BY <1>2, PartTypes, TransitIs, LineNone
<1>5. Transit' = Held \o <<Head(rx)>> \o Tail(rx)
  <2>1. Line(Held', {x}, byte', rx') = Held' \o <<byte'[x]>> \o rx'
    <3>1. MovedByte({x}, byte') = <<byte'[x]>>
      BY MovedOne
    <3> QED
      BY <3>1 DEF Line
  <2> QED
    BY <1>1, <1>2, <1>3, <2>1, TransitIs
<1>6. Held \o <<Head(rx)>> \o Tail(rx) = Held \o rx
  <2>1. /\ <<Head(rx)>> \in Seq(Nat) /\ Tail(rx) \in Seq(Nat)
        /\ rx = <<Head(rx)>> \o Tail(rx)
    BY <1>1, PartTypes, HeadThenTail
  <2> QED
    BY <2>1, PartTypes, ConcatAssociative
<1> QED
  BY <1>1, <1>4, <1>5, <1>6

LEMMA RoomStutters ==
  ASSUME IInv, NEW x \in Contexts, Room(x)
  PROVE  UNCHANGED <<arrived, Transit, got>>
<1>1. /\ pc[x] = "check" /\ pc' = [pc EXCEPT ![x] = "store"]
      /\ UNCHANGED <<arrived, got, rx, byte, queue, writer, reader, size>>
  BY DEF Room, Step, localVars, uartVars, configVars, ringVars, histVars
<1>2. Moving' = Moving /\ Built' = Built
  BY <1>1, ContextVars DEF Moving, Built
<1>3. Transit' = Transit
  BY <1>1, <1>2, TransitIs, HeldIs
<1> QED
  BY <1>1, <1>3

LEMMA NoRoomIs ==
  ASSUME IInv, NEW x \in Contexts, NoRoom(x)
  PROVE  Port!Lose
<1>1. /\ pc[x] = "check" /\ pc' = [pc EXCEPT ![x] = "poll"]
      /\ UNCHANGED <<arrived, got, rx, queue, writer, reader, size>>
  BY DEF NoRoom, Step, uartVars, configVars, histVars
<1>2. Moving = {x} /\ Moving' = {} /\ Built' = Built
  <2>1. Moving = {x}
    BY <1>1, MovingIs DEF MovingLabels
  <2> QED
    BY <1>1, <2>1, ContextVars DEF Moving, Built
<1>3. Held' = Held
  BY <1>1, <1>2, HeldIs
<1>4. Held \in Seq(Nat) /\ rx \in Seq(Nat) /\ byte[x] \in Nat
  BY PartTypes, ContextVars
<1>5. Transit = Held \o <<byte[x]>> \o rx /\ Transit' = Held \o rx
  <2>1. Line(Held, {x}, byte, rx) = Held \o <<byte[x]>> \o rx
    <3>1. MovedByte({x}, byte) = <<byte[x]>>
      BY MovedOne
    <3> QED
      BY <3>1 DEF Line
  <2>2. Line(Held, {}, byte', rx) = Held \o rx
    BY <1>4, LineNone
  <2> QED
    BY <1>1, <1>2, <1>3, <2>1, <2>2, TransitIs
<1>6. /\ Len(Held) + 1 \in DOMAIN Transit
      /\ Port!RemoveAt(Transit, Len(Held) + 1) = Transit'
  BY <1>4, <1>5, RemoveBetween DEF RemoveAt, Port!RemoveAt
<1> QED
  BY <1>1, <1>6 DEF Port!Lose

LEMMA StoreStutters ==
  ASSUME IInv, NEW x \in Contexts, Store(x)
  PROVE  UNCHANGED <<arrived, Transit, got>>
<1>1. /\ pc[x] = "store" /\ pc' = [pc EXCEPT ![x] = "advance"]
      /\ queue' = [queue EXCEPT ![writer] = byte[x]]
      /\ UNCHANGED <<arrived, got, rx, byte, writer, reader, size>>
  BY DEF Store, Step, localVars, uartVars, configVars, histVars
<1>2. Built
  BY <1>1, AliveInBody DEF Drain
<1>3. /\ size \in RingSizes /\ size \in Nat \ {0, 1} /\ queue \in [0 .. size - 1 -> Nat]
      /\ writer \in 0 .. size - 1 /\ reader \in 0 .. size - 1 /\ byte[x] \in Nat
  BY <1>2, TheRing, ContextVars
<1>4. Built' /\ Moving' = Moving
  <2>1. queue' # Deleted
    <3>1. DOMAIN queue' = 0 .. size - 1 /\ 0 \in 0 .. size - 1 /\ DOMAIN << >> = {}
      BY <1>1, <1>3
    <3> QED
      BY <3>1 DEF Deleted
  <2> QED
    BY <1>1, <1>2, <2>1, ContextVars DEF Moving, Built
<1>5. RingBytes(queue', writer, reader, size) = RingBytes(queue, writer, reader, size)
  <2>1. RingBytes([queue EXCEPT ![writer] = byte[x]], writer, reader, size)
        = RingBytes(queue, writer, reader, size)
    BY <1>3, RingStore, ZenonT(30)
  <2> QED
    BY <1>1, <2>1
<1>6. Transit' = Transit
  BY <1>1, <1>2, <1>4, <1>5, TransitIs, HeldIs
<1> QED
  BY <1>1, <1>6

LEMMA AdvanceStutters ==
  ASSUME IInv, IBytes, NEW x \in Contexts, Advance(x)
  PROVE  UNCHANGED <<arrived, Transit, got>>
<1>1. /\ pc[x] = "advance" /\ pc' = [pc EXCEPT ![x] = "poll"]
      /\ writer' = Following(writer)
      /\ UNCHANGED <<arrived, got, rx, queue, reader, size>>
  BY DEF Advance, Step, uartVars, configVars, histVars
<1>2. Built /\ queue[writer] = byte[x] /\ writer' # reader
  BY <1>1, AliveInBody DEF Drain, IBytes, IStored, Full
<1>3. /\ size \in RingSizes /\ queue \in [0 .. size - 1 -> Nat]
      /\ writer \in 0 .. size - 1 /\ reader \in 0 .. size - 1
      /\ writer' = IF writer + 1 = size THEN 0 ELSE writer + 1
  BY <1>1, <1>2, TheRing DEF Following
<1>4. Moving = {x} /\ Moving' = {} /\ Built'
  <2>1. Moving = {x}
    BY <1>1, MovingIs DEF MovingLabels
  <2> QED
    BY <1>1, <1>2, <2>1, ContextVars DEF Moving, Built
<1>5. RingBytes(queue, writer', reader, size)
      = RingBytes(queue, writer, reader, size) \o <<queue[writer]>>
  BY <1>2, <1>3, RingAdvance
<1>6. Held' = Held \o <<byte[x]>>
  BY <1>1, <1>2, <1>4, <1>5, HeldIs
<1>7. Transit = Held \o <<byte[x]>> \o rx
  <2>1. Line(Held, {x}, byte, rx) = Held \o <<byte[x]>> \o rx
    <3>1. MovedByte({x}, byte) = <<byte[x]>>
      BY MovedOne
    <3> QED
      BY <3>1 DEF Line
  <2> QED
    BY <1>4, <2>1, TransitIs
<1>8. Transit' = Held' \o rx
  <2>1. Held' \in Seq(Nat)
    <3>1. <<byte[x]>> \in Seq(Nat)
      BY ContextVars
    <3> QED
      BY <1>6, <3>1, PartTypes, ConcatProperties
  <2> QED
    BY <1>1, <1>4, <2>1, TransitIs, LineNone
<1> QED
  BY <1>1, <1>6, <1>7, <1>8

LEMMA ResultStutters ==
  ASSUME IInv, NEW x \in Contexts, Result(x)
  PROVE  UNCHANGED <<arrived, Transit, got>>
<1>1. Quiet(x)
  BY ContextVars DEF Result, Step, Quiet, MovingLabels, uartVars, configVars, ringVars, histVars
<1> QED
  BY <1>1, QuietStutters

LEMMA NextReaderIs ==
  ASSUME IInv, IBytes, NEW x \in Contexts, NextReader(x)
  PROVE  Port!Deliver
<1>1. /\ pc[x] = "next" /\ pc' = [pc EXCEPT ![x] = "leave"]
      /\ reader' = (reader + 1) % size /\ got' = Append(got, byte[x])
      /\ UNCHANGED <<arrived, rx, byte, queue, writer, size>>
  BY DEF NextReader, Step, localVars, uartVars, configVars
<1>2. Built /\ writer # reader /\ byte[x] = queue[reader]
  BY <1>1, AliveInBody DEF InBody, IBytes, IFound
<1>3. /\ size \in RingSizes /\ queue \in [0 .. size - 1 -> Nat]
      /\ writer \in 0 .. size - 1 /\ reader \in 0 .. size - 1
  BY <1>2, TheRing
<1>4. Moving' = Moving /\ Built'
  BY <1>1, <1>2, ContextVars DEF Moving, Built
<1> DEFINE g == RingBytes(queue, writer, reader', size)
           m == MovedByte(Moving, byte)
<1>5. Held = <<byte[x]>> \o g /\ Held' = g /\ reader' \in 0 .. size - 1
  <2>1. /\ (reader + 1) % size \in 0 .. size - 1
        /\ RingBytes(queue, writer, reader, size)
           = <<queue[reader]>> \o RingBytes(queue, writer, (reader + 1) % size, size)
    BY <1>2, <1>3, RingNext
  <2> QED
    BY <1>1, <1>2, <1>4, <2>1, HeldIs
<1>6. g \in Seq(Nat) /\ m \in Seq(Nat) /\ rx \in Seq(Nat) /\ byte[x] \in Nat
  <2>1. IsRing(g, queue, writer, reader', size)
    BY <1>3, <1>5, RingIs
  <2>2. m \in Seq(Nat)
    BY MovedType
  <2> QED
    BY <2>1, <2>2, PartTypes, ContextVars DEF IsRing
<1>7. Transit = (<<byte[x]>> \o g) \o m \o rx /\ Transit' = g \o m \o rx
  BY <1>1, <1>4, <1>5, TransitIs DEF Line
<1> HIDE DEF g, m
<1>8. (<<byte[x]>> \o g) \o m \o rx = <<byte[x]>> \o (g \o m \o rx)
  <2>1. <<byte[x]>> \in Seq(Nat) /\ g \o m \in Seq(Nat)
    BY <1>6, ConcatProperties
  <2>2. (<<byte[x]>> \o g) \o m = <<byte[x]>> \o (g \o m)
    BY <1>6, <2>1, ConcatAssociative
  <2>3. (<<byte[x]>> \o (g \o m)) \o rx = <<byte[x]>> \o ((g \o m) \o rx)
    BY <1>6, <2>1, ConcatAssociative
  <2> QED
    BY <2>2, <2>3
<1>9. g \o m \o rx \in Seq(Nat)
  <2>1. g \o m \in Seq(Nat)
    BY <1>6, ConcatProperties
  <2> QED
    BY <1>6, <2>1, ConcatProperties
<1>10. Transit # << >> /\ Head(Transit) = byte[x] /\ Tail(Transit) = Transit'
  BY <1>6, <1>7, <1>8, <1>9, TailAfterHead
<1> QED
  BY <1>1, <1>10 DEF Port!Deliver

\* Every step is one of the channel's, or none.
LEMMA StepIs ==
  ASSUME IInv, IBytes, [Next]_vars
  PROVE  Port!Next \/ UNCHANGED <<arrived, Transit, got>>
<1> DEFINE Maps == Port!Next \/ UNCHANGED <<arrived, Transit, got>>
<1>1. ASSUME NEW x \in Contexts, Aside(x) PROVE Maps
  BY <1>1, QuietStutters DEF Aside
<1>2. ASSUME NEW x \in Contexts, ByteSteps(x) PROVE Maps
  BY <1>2, ConfigureStutters, DiscardIs, IndicesStutters, GetByteStutters, RoomStutters,
     NoRoomIs, StoreStutters, AdvanceStutters, ResultStutters, NextReaderIs
     DEF ByteSteps, Port!Next
<1>3. CASE Arrive
  BY <1>3, ArriveIs DEF Port!Next
<1>4. CASE UNCHANGED vars
  <2>1. UNCHANGED <<pc, byte, rx, arrived, got, queue, writer, reader, size>>
    BY <1>4 DEF vars, localVars, uartVars, configVars, ringVars, histVars
  <2>2. Built' = Built /\ Moving' = Moving
    BY <2>1 DEF Built, Moving
  <2> QED
    BY <2>1, <2>2, TransitIs, HeldIs
<1> QED
  BY <1>1, <1>2, <1>3, <1>4, NextIs, StepsAside, InterruptAside, ContextFacts

LEMMA InitIs == Init => Port!Init
<1> SUFFICES ASSUME Init PROVE Transit = << >>
  BY DEF Init, Port!Init
<1>1. ~Built /\ Moving = {} /\ rx = << >>
  BY DEF Init, Built, Moving
<1>2. << >> \in Seq(Nat) /\ << >> \o << >> = << >>
  BY EmptySeq, ConcatEmptySeq
<1> QED
  BY <1>1, <1>2, TransitIs, HeldIs, LineNone

(* Bytes leave read() (SerialUART.cpp:265-281) in the order they reached the   *)
(* UART, each at most once, although two cores and their interrupt handlers    *)
(* move them (SerialUART.cpp:388-403), and across begin() and end(): the port  *)
(* implements ByteChannel.  A byte is in the channel's line once: in the UART, *)
(* with the context that moves it, or in the ring once _writer has passed it.  *)
THEOREM DeliversCorrect == Spec => Delivers
<1>1. Init => Port!Init
  BY InitIs
<1>2. IInv /\ IBytes /\ [Next]_vars => [Port!Next]_(Port!chanVars)
  BY StepIs DEF Port!chanVars
<1> QED
  BY <1>1, <1>2, BytesInvariance, PTL DEF Spec, Delivers, Port!ChannelSpec

-------------------------------------------------------------------------------
(* available() (SerialUART.cpp:285-296) subtracts in 32 bits before it takes   *)
(* the remainder: it returns the number of bytes in the ring whenever the size *)
(* of the ring divides 2^32, as the initial one of 32 slots does and one more  *)
(* than the argument of setFIFOSize seldom does.                               *)
THEOREM AvailableWhenDivides ==
  ASSUME \A n \in RingSizes : Two32(n) = 0
  PROVE  Spec => AvailableCounts
<1>1. ASSUME IInv, NEW x \in Contexts, Result(x), op[x] = "available"
      PROVE  byte'[x] = Len(Held)
  <2>1. Built
    BY <1>1, AliveInBody DEF Result, Step, InBody
  <2>2. /\ size \in RingSizes /\ size \in Nat \ {0, 1}
        /\ writer \in 0 .. size - 1 /\ reader \in 0 .. size - 1
        /\ queue \in [0 .. size - 1 -> Nat]
    BY <1>1, <2>1, TheRing
  <2>3. Len(Held) = (writer - reader) % size
    <3>1. IsRing(RingBytes(queue, writer, reader, size), queue, writer, reader, size)
      BY <2>2, RingIs
    <3> QED
      BY <2>1, <3>1, HeldIs DEF IsRing
  <2>4. Available = (writer - reader) % size
    <3>1. Two32(size) = 0 /\ writer - reader + 0 = writer - reader
      BY <2>2
    <3> QED
      BY <3>1 DEF Available
  <2>5. byte'[x] = Available
    BY <1>1, ContextVars DEF Result
  <2> QED
    BY <2>3, <2>4, <2>5
<1>2. IInv /\ [Next]_vars
      => [\A x \in Contexts :
             (Result(x) /\ op[x] = "available") => byte'[x] = Len(Held)]_vars
  BY <1>1
<1> QED
  BY <1>2, Invariance, PTL DEF Spec, AvailableCounts
================================================================================
