--------------------------- MODULE UsbDevice_proof ---------------------------
(* Proofs about UsbDevice, for calls of every kind in every context and      *)
(* buffers of any size.                                                      *)
EXTENDS UsbDevice, SequenceTheorems, TLAPS

------------------------------------------------------------------------------
(* The inductive invariant.                                                  *)

\* Contexts, calls and the lock, without the stack.
Control == /\ mutex \in Owners /\ owning \subseteq Ctx
           /\ pc \in [Ctx -> Labels] /\ call \in [Ctx -> Kind \cup {None}]

Inside(c) == pc[c] \notin {"out", "enter"}

\* One context at most owns the mutex, which knows only its core.
IOwner == /\ \A c \in owning : Inside(c) /\ mutex = Core[c]
          /\ \A c, d \in owning : c = d
          /\ mutex # NoCore => owning # {}

\* Who is inside without owning the mutex is a handler that sends a report.
IRefused == \A c \in Ctx : Inside(c) =>
              c \in owning \/ (c \in Handlers /\ call[c] = "report")

IInv == Control /\ IOwner /\ IRefused
------------------------------------------------------------------------------
(* The bytes on their way.                                                   *)

Linked(s) == \A i \in 2 .. Len(s) :
               s[i].n = 1 \/ s[i - 1] = [by |-> s[i].by, n |-> s[i].n - 1]

EndsWith(s, b) == s # <<>> /\ s[Len(s)] = b

Shift(u) == SubSeq(u.tx, 1, Min({Packet, Len(u.tx)}))
Rest(u)  == SubSeq(u.tx, Min({Packet, Len(u.tx)}) + 1, Len(u.tx))

LEMMA ConcatBytes ==
  ASSUME NEW s \in Seq(Byte), NEW t \in Seq(Byte)
  PROVE  /\ s \o t \in Seq(Byte) /\ Len(s \o t) = Len(s) + Len(t)
         /\ \A i \in 1 .. Len(s) + Len(t) :
              (s \o t)[i] = IF i <= Len(s) THEN s[i] ELSE t[i - Len(s)]
  BY ConcatProperties, Zenon

LEMMA AssociativeBytes ==
  ASSUME NEW s \in Seq(Byte), NEW t \in Seq(Byte), NEW u \in Seq(Byte)
  PROVE  (s \o t) \o u = s \o (t \o u)
  BY ConcatAssociative, SMTT(30)

LEMMA AdjacentBytes ==
  ASSUME NEW s \in Seq(Byte), NEW n \in 0 .. Len(s)
  PROVE  SubSeq(s, 1, n) \o SubSeq(s, n + 1, Len(s)) = s
<1>1. Len(s) \in Nat
  BY LenProperties
<1>2. 1 \in 1 .. Len(s) + 1 /\ n \in 1 - 1 .. Len(s) /\ Len(s) \in n .. Len(s)
  BY <1>1
<1>3. SubSeq(s, 1, n) \o SubSeq(s, n + 1, Len(s)) = SubSeq(s, 1, Len(s))
  BY <1>2, ConcatAdjacentSubSeq, Zenon
<1>4. SubSeq(s, 1, Len(s)) = s
  BY <1>1, SubSeqFull
<1> QED
  BY <1>3, <1>4

LEMMA StackFacts ==
  ASSUME NEW u \in Stack
  PROVE  /\ u.tx \in Seq(Byte) /\ u.ep \in Seq(Byte) /\ u.gone \in Seq(Byte)
         /\ u.gone \o u.ep \in Seq(Byte) /\ Bytes(u) \in Seq(Byte)
<1>1. u.tx \in Seq(Byte) /\ u.ep \in Seq(Byte) /\ u.gone \in Seq(Byte)
  BY DEF Stack
<1>2. u.gone \o u.ep \in Seq(Byte)
  BY <1>1, ConcatProperties
<1> QED
  BY <1>1, <1>2, ConcatProperties DEF Bytes

LEMMA MinOfTwo ==
  ASSUME NEW a \in Nat, NEW b \in Nat
  PROVE  Min({a, b}) \in {a, b} /\ Min({a, b}) <= a /\ Min({a, b}) <= b
<1>1. \E x \in {a, b} : \A y \in {a, b} : x <= y
  <2>1. CASE a <= b
    BY <2>1
  <2>2. CASE b <= a
    BY <2>2
  <2> QED
    BY <2>1, <2>2
<1> QED
  BY <1>1 DEF Min

LEMMA ShiftFacts ==
  ASSUME NEW u \in Stack
  PROVE  /\ Shift(u) \in Seq(Byte) /\ Rest(u) \in Seq(Byte)
         /\ Len(Rest(u)) <= Len(u.tx) /\ Shift(u) \o Rest(u) = u.tx
<1> DEFINE n == Min({Packet, Len(u.tx)})
<1>1. u.tx \in Seq(Byte) /\ Len(u.tx) \in Nat /\ \A i \in 1 .. Len(u.tx) : u.tx[i] \in Byte
  BY StackFacts, LenProperties, ElementOfSeq
<1>2. n \in 0 .. Len(u.tx)
  BY <1>1, MinOfTwo, UsbAssumption DEF UsbAssumption
<1> HIDE DEF n
<1>3. SubSeq(u.tx, 1, n) \in Seq(Byte)
  BY <1>1, <1>2, SubSeqProperties
<1>4. SubSeq(u.tx, n + 1, Len(u.tx)) \in Seq(Byte)
      /\ Len(SubSeq(u.tx, n + 1, Len(u.tx))) <= Len(u.tx)
  <2>1. \A i \in n + 1 .. Len(u.tx) : u.tx[i] \in Byte
    BY <1>1, <1>2
  <2>2. /\ SubSeq(u.tx, n + 1, Len(u.tx)) \in Seq(Byte)
        /\ Len(SubSeq(u.tx, n + 1, Len(u.tx)))
             = IF n + 1 <= Len(u.tx) THEN Len(u.tx) - (n + 1) + 1 ELSE 0
    BY <1>1, <1>2, <2>1, SubSeqProperties
  <2> QED
    BY <1>1, <1>2, <2>2
<1>5. SubSeq(u.tx, 1, n) \o SubSeq(u.tx, n + 1, Len(u.tx)) = u.tx
  BY <1>1, <1>2, AdjacentBytes
<1> QED
  BY <1>3, <1>4, <1>5 DEF n, Shift, Rest

\* A flush only moves bytes on.
LEMMA FlushedFacts ==
  ASSUME NEW u \in Stack
  PROVE  /\ Flushed(u) \in Stack /\ Bytes(Flushed(u)) = Bytes(u)
         /\ Len(Flushed(u).tx) <= Len(u.tx)
<1>1. CASE u.link # "on" \/ u.ep # <<>>
  BY <1>1, StackFacts, LenProperties DEF Flushed
<1>2. CASE u.link = "on" /\ u.ep = <<>>
  <2>1. Flushed(u) = [u EXCEPT !.ep = Shift(u), !.tx = Rest(u)]
    BY <1>2 DEF Flushed, Shift, Rest
  <2>2. Flushed(u) \in Stack
    BY <2>1, ShiftFacts DEF Stack
  <2>3. /\ Flushed(u).ep = Shift(u) /\ Flushed(u).tx = Rest(u)
        /\ Flushed(u).gone = u.gone
    BY <2>1 DEF Stack
  <2>4. (u.gone \o Shift(u)) \o Rest(u) = u.gone \o (Shift(u) \o Rest(u))
    BY StackFacts, ShiftFacts, AssociativeBytes, ZenonT(30)
  <2>5. u.gone \o u.ep = u.gone
    BY <1>2, StackFacts, ConcatEmptySeq
  <2> QED
    BY <2>2, <2>3, <2>4, <2>5, ShiftFacts DEF Bytes
<1> QED
  BY <1>1, <1>2

\* The end of the bytes, when the host has got all but the last of a packet.
LEMMA TailFacts ==
  ASSUME NEW u \in Stack, u.ep # <<>>,
         NEW v \in Stack, v.gone = <<u.ep[Len(u.ep)]>>, v.ep = <<>>, v.tx = u.tx
  PROVE  /\ Linked(Bytes(u)) => Linked(Bytes(v))
         /\ \A b : EndsWith(Bytes(u), b) => EndsWith(Bytes(v), b)
<1> DEFINE g == u.gone  e == u.ep  t == u.tx  k == Len(g) + Len(e) - 1
<1>1. g \in Seq(Byte) /\ e \in Seq(Byte) /\ t \in Seq(Byte) /\ g \o e \in Seq(Byte)
  BY StackFacts
<1>2. Len(g) \in Nat /\ Len(e) \in Nat \ {0} /\ Len(t) \in Nat
  BY <1>1, EmptySeq, LenProperties
<1>3. /\ Len(g \o e) = Len(g) + Len(e)
      /\ \A i \in 1 .. Len(g) + Len(e) : (g \o e)[i] = IF i <= Len(g) THEN g[i] ELSE e[i - Len(g)]
  BY <1>1, ConcatBytes, Zenon
<1>4. /\ Len(Bytes(u)) = Len(g) + Len(e) + Len(t)
      /\ \A i \in 1 .. Len(g) + Len(e) + Len(t) :
           Bytes(u)[i] = IF i <= Len(g) + Len(e) THEN (g \o e)[i] ELSE t[i - (Len(g) + Len(e))]
  <2>1. Bytes(u) = (g \o e) \o t
    BY DEF Bytes
  <2> HIDE DEF g, e, t
  <2> DEFINE h == g \o e
  <2>2. h \in Seq(Byte) /\ Len(h) = Len(g) + Len(e)
    BY <1>1, <1>3
  <2> HIDE DEF h
  <2>3. /\ Len(h \o t) = Len(h) + Len(t)
        /\ \A i \in 1 .. Len(h) + Len(t) :
             (h \o t)[i] = IF i <= Len(h) THEN h[i] ELSE t[i - Len(h)]
    BY <1>1, <2>2, ConcatBytes, Zenon
  <2>4. Bytes(u) = h \o t
    BY <2>1 DEF h
  <2> QED
    BY <2>2, <2>3, <2>4, Zenon DEF h
<1>5. Bytes(v) = <<e[Len(e)]>> \o t
  <2>1. v.gone \o v.ep = v.gone
    BY StackFacts, ConcatEmptySeq
  <2> QED
    BY <2>1 DEF Bytes
<1>6. <<e[Len(e)]>> \in Seq(Byte) /\ Len(<<e[Len(e)]>>) = 1
  BY <1>1, <1>2, ElementOfSeq
<1>7. /\ Len(Bytes(v)) = 1 + Len(t)
      /\ \A i \in 1 .. 1 + Len(t) : Bytes(v)[i] = IF i <= 1 THEN e[Len(e)] ELSE t[i - 1]
  BY <1>1, <1>5, <1>6, ConcatProperties
<1> HIDE DEF g, e, t
<1>8. \A i \in 1 .. 1 + Len(t) : Bytes(v)[i] = Bytes(u)[i + k]
  <2>1. TAKE i \in 1 .. 1 + Len(t)
  <2>2. CASE i = 1
    <3>1. i + k = Len(g) + Len(e) /\ i + k \in 1 .. Len(g) + Len(e)
      BY <1>2, <2>2
    <3>2. i + k \in 1 .. Len(g) + Len(e) + Len(t) /\ i + k <= Len(g) + Len(e)
      BY <1>2, <3>1
    <3>3. Bytes(u)[i + k] = (g \o e)[i + k]
      BY <1>4, <3>2, Zenon
    <3>4. ~(i + k <= Len(g)) /\ i + k - Len(g) = Len(e)
      BY <1>2, <2>2, <3>1
    <3>5. (g \o e)[i + k] = e[Len(e)]
      BY <1>3, <3>1, <3>4
    <3> QED
      BY <1>2, <1>7, <2>2, <3>3, <3>5
  <2>3. CASE i # 1
    <3>1. /\ i \in 2 .. 1 + Len(t)
          /\ i + k \in Len(g) + Len(e) + 1 .. Len(g) + Len(e) + Len(t)
          /\ i + k - (Len(g) + Len(e)) = i - 1
      BY <1>2, <2>3
    <3>2. Bytes(u)[i + k] = t[i - 1]
      BY <1>2, <1>4, <3>1
    <3> QED
      BY <1>7, <3>1, <3>2
  <2> QED
    BY <2>2, <2>3
<1>9. Len(Bytes(u)) = Len(Bytes(v)) + k /\ k \in Nat /\ Len(Bytes(v)) \in Nat \ {0}
  BY <1>2, <1>4, <1>7
<1>10. ASSUME Linked(Bytes(u))
       PROVE  Linked(Bytes(v))
  <2>1. SUFFICES ASSUME NEW i \in 2 .. Len(Bytes(v))
                 PROVE  \/ Bytes(v)[i].n = 1
                        \/ Bytes(v)[i - 1] = [by |-> Bytes(v)[i].by, n |-> Bytes(v)[i].n - 1]
    BY DEF Linked
  <2>2. i + k \in 2 .. Len(Bytes(u)) /\ (i - 1) + k = (i + k) - 1
    BY <1>9, <2>1
  <2>3. Bytes(v)[i] = Bytes(u)[i + k] /\ Bytes(v)[i - 1] = Bytes(u)[(i + k) - 1]
    BY <1>7, <1>8, <2>1, <2>2, <1>2
  <2> HIDE DEF k
  <2> QED
    BY <1>10, <2>2, <2>3 DEF Linked
<1>11. Bytes(v)[Len(Bytes(v))] = Bytes(u)[Len(Bytes(u))]
  BY <1>2, <1>7, <1>8, <1>9
<1>12. Bytes(v) # <<>>
  BY <1>9
<1> QED
  BY <1>10, <1>11, <1>12 DEF EndsWith
------------------------------------------------------------------------------
USE UsbAssumption DEF UsbAssumption

LEMMA InitInv == Init => IInv
  BY DEF Init, IInv, Control, IOwner, IRefused, Inside, Owners, NoCore, Ctx,
         Kind, Labels

\* A step of c that stays inside, and leaves lock and call alone.
Stays(c) == /\ Inside(c) /\ pc' \in [Ctx -> Labels]
            /\ pc'[c] \notin {"out", "enter"}
            /\ \A d \in Ctx \ {c} : pc'[d] = pc[d]
            /\ UNCHANGED <<mutex, owning, call>>

LEMMA StaysInv ==
  ASSUME IInv, NEW c \in Ctx, Stays(c)
  PROVE  IInv'
  BY DEF IInv, Control, IOwner, IRefused, Inside, Stays

LEMMA CallInv ==
  ASSUME IInv, NEW c \in Ctx, Call(c)
  PROVE  IInv'
<1>1. Control'
  BY DEF IInv, Control, Call, Goto, At, Labels
<1>2. \A d \in Ctx : Inside(d)' <=> Inside(d)
  BY DEF IInv, Control, Call, Goto, At, Inside
<1> QED
  BY <1>1, <1>2 DEF IInv, IOwner, IRefused, Call, Control

LEMMA EnterInv ==
  ASSUME IInv, NEW c \in Ctx, NEW k \in Kind, Enter(c, k)
  PROVE  IInv'
<1>1. /\ pc[c] = "enter" /\ mutex = NoCore /\ mutex' = Core[c]
      /\ owning' = owning \cup {c} /\ call' = [call EXCEPT ![c] = k]
  BY DEF Enter, At, Taken
<1>2. \E l \in {"copy", "task", "leave"} : pc' = [pc EXCEPT ![c] = l]
  BY DEF Enter, Goto
<1>3. Core[c] \in Cores /\ NoCore \notin Cores
  BY DEF Core, Cores, NoCore, Ctx
<1>4. owning = {}
  BY <1>1, <1>3 DEF IInv, IOwner, Control, Core, Cores, Ctx, NoCore
<1>5. Control'
  BY <1>1, <1>2, <1>3 DEF IInv, Control, Labels, Owners
<1>6. Inside(c)' /\ \A d \in Ctx \ {c} : pc'[d] = pc[d] /\ call'[d] = call[d]
  BY <1>1, <1>2 DEF IInv, Control, Inside
<1>7. IOwner'
  BY <1>1, <1>3, <1>4, <1>6 DEF IOwner
<1>8. IRefused'
  BY <1>1, <1>6 DEF IInv, IRefused, Inside
<1> QED
  BY <1>5, <1>7, <1>8 DEF IInv

\* A thread is never refused: the owner on its core would be a handler, for
\* which it waits.
LEMMA RefusedIsHandler ==
  ASSUME IInv, NEW c \in Ctx, NEW k \in Uses[c], EnterRefused(c, k)
  PROVE  c \in Handlers
<1>1. pc[c] = "enter" /\ (c = "main0" => ~InHandler) /\ TurnedAway(c)
  BY DEF EnterRefused, At, InHandler
<1>2. SUFFICES ASSUME c \in {"main0", "main1"} PROVE FALSE
  BY DEF Ctx, Handlers
<1>3. mutex = Core[c] /\ mutex # NoCore
  BY <1>1, <1>2 DEF TurnedAway, Refused, Core, NoCore, Ctx
<1>4. PICK d \in owning : Inside(d) /\ mutex = Core[d]
  BY <1>3 DEF IInv, IOwner
<1>5. d \in Ctx /\ d # c /\ Core[d] = Core[c]
  BY <1>1, <1>3, <1>4 DEF IInv, Control, Inside
<1>6. c = "main0" /\ d \in Handlers
  BY <1>2, <1>5 DEF Core, Ctx, Handlers
<1> QED
  BY <1>1, <1>4, <1>6 DEF InHandler, Inside

LEMMA EnterRefusedInv ==
  ASSUME IInv, NEW c \in Ctx, NEW k \in Kind, EnterRefused(c, k)
  PROVE  IInv'
<1>1. pc[c] = "enter" /\ k \in Uses[c] /\ UNCHANGED <<mutex, owning>>
  BY DEF EnterRefused, At
<1>2. c \in Handlers
  BY <1>1, RefusedIsHandler
<1>3. \/ k = "report" /\ pc' = [pc EXCEPT ![c] = "task"] /\ call' = [call EXCEPT ![c] = k]
      \/ pc' = [pc EXCEPT ![c] = "out"] /\ call' = call
  BY DEF EnterRefused, CarriesOn, Goto
<1>4. Control'
  BY <1>1, <1>3 DEF IInv, Control, Labels
<1>5. IOwner'
  BY <1>1, <1>3 DEF IInv, Control, IOwner, Inside
<1>6. IRefused'
  BY <1>1, <1>2, <1>3 DEF IInv, Control, IRefused, Inside
<1> QED
  BY <1>4, <1>5, <1>6 DEF IInv

LEMMA LeaveInv ==
  ASSUME IInv, NEW c \in Ctx, Leave(c)
  PROVE  IInv'
<1>1. /\ pc[c] = "leave" /\ pc' = [pc EXCEPT ![c] = "out"] /\ owning' = owning \ {c}
      /\ mutex' = IF c \in owning THEN NoCore ELSE mutex
      /\ call' = [call EXCEPT ![c] = None]
  BY DEF Leave, At, Goto
<1>2. Control'
  BY <1>1 DEF IInv, Control, Labels, Owners
<1>3. \A d \in Ctx \ {c} : pc'[d] = pc[d] /\ call'[d] = call[d]
  BY <1>1 DEF IInv, Control
<1>4. IOwner'
  <2>1. CASE c \in owning
    BY <1>1, <2>1 DEF IInv, IOwner
  <2>2. CASE c \notin owning
    BY <1>1, <1>3, <2>2 DEF IInv, Control, IOwner, Inside
  <2> QED
    BY <2>1, <2>2
<1>5. IRefused'
  BY <1>1, <1>3 DEF IInv, Control, IRefused, Inside
<1> QED
  BY <1>2, <1>4, <1>5 DEF IInv

LEMMA NextInv ==
  ASSUME IInv, [Next]_vars
  PROVE  IInv'
<1>1. CASE Clock \/ Suspend \/ UNCHANGED vars
  BY <1>1 DEF Clock, Suspend, vars, IInv, Control, IOwner, IRefused, Inside
<1>2. ASSUME NEW c \in Ctx, Call(c) \/ Step(c)
      PROVE  IInv'
  <2>1. CASE Call(c)
    BY <2>1, CallInv
  <2>2. ASSUME NEW k \in Kind, Enter(c, k) PROVE IInv'
    BY <2>2, EnterInv
  <2>3. ASSUME NEW k \in Kind, EnterRefused(c, k) PROVE IInv'
    BY <2>3, EnterRefusedInv
  <2>4. CASE Copy(c)
    BY <2>4, StaysInv DEF Copy, At, Goto, Stays, Inside, IInv, Control, Labels
  <2>5. CASE Task(c)
    BY <2>5, StaysInv DEF Task, At, Goto, Stays, Inside, IInv, Control, Labels
  <2>6. CASE Flush(c)
    BY <2>6, StaysInv DEF Flush, At, Goto, Stays, Inside, IInv, Control, Labels
  <2>7. CASE Report(c)
    BY <2>7, StaysInv DEF Report, At, Goto, Stays, Inside, IInv, Control, Labels
  <2>8. CASE Hangs(c)
    BY <2>8, StaysInv DEF Hangs, At, Goto, Stays, Inside, IInv, Control, Labels
  <2>9. CASE Leave(c)
    BY <2>9, LeaveInv
  <2> QED
    BY <1>2, <2>1, <2>2, <2>3, <2>4, <2>5, <2>6, <2>7, <2>8, <2>9 DEF Step
<1> QED
  BY <1>1, <1>2 DEF Next

(* The lock knows only the core, yet one context owns it, and who is inside  *)
(* without owning it is a handler that sends a report.                       *)
THEOREM Invariant == Spec => []IInv
<1>1. IInv /\ [Next]_vars => IInv'
  BY NextInv
<1> QED
  BY InitInv, <1>1, PTL DEF Spec

(* TinyUSB is entered by one context at a time, but for the reports of a     *)
(* handler that was refused the mutex, for every mix of calls.               *)
THEOREM OneInStackCorrect == Spec => []OneInStack
<1>1. IInv => OneInStack
  <2>1. SUFFICES ASSUME IInv, NEW c \in Ctx, NEW d \in Ctx, InStack(c), InStack(d), c # d
                 PROVE  \E b \in {c, d} : call[b] = "report" /\ b \in Handlers /\ b \notin owning
    BY DEF OneInStack
  <2>2. PICK b \in {c, d} : b \notin owning
    BY <2>1 DEF IInv, IOwner
  <2> QED
    BY <2>1, <2>2 DEF IInv, IRefused, Inside, InStack
<1> QED
  BY <1>1, Invariant, PTL

------------------------------------------------------------------------------
(* Steps of the stack.                                                       *)

\* The stack goes from u to w without new bytes.
Keeps(u, w) == /\ Linked(Bytes(u)) => Linked(Bytes(w))
               /\ \A b : EndsWith(Bytes(u), b) => EndsWith(Bytes(w), b)

LEMMA FlushedKeeps ==
  ASSUME NEW u \in Stack
  PROVE  Keeps(u, Flushed(u))
  BY FlushedFacts DEF Keeps

LEMMA ReadFacts ==
  ASSUME NEW u \in Stack
  PROVE  Read(u) \in Stack /\ Keeps(u, Read(u)) /\ Len(Read(u).tx) <= Len(u.tx)
<1> DEFINE x == [u EXCEPT !.ep = <<>>, !.gone = <<u.ep[Len(u.ep)]>>]
<1>1. CASE u.ep = <<>>
  BY <1>1, StackFacts, LenProperties DEF Read, Keeps
<1>2. CASE u.ep # <<>>
  <2>1. u.ep \in Seq(Byte) /\ u.ep[Len(u.ep)] \in Byte
    BY <1>2, StackFacts, EmptySeq, ElementOfSeq
  <2>2. <<u.ep[Len(u.ep)]>> \in Seq(Byte) /\ <<>> \in Seq(Byte)
    BY <2>1
  <2>3. x \in Stack /\ x.gone = <<u.ep[Len(u.ep)]>> /\ x.ep = <<>> /\ x.tx = u.tx
    BY <2>2 DEF Stack
  <2>4. Read(u) = Flushed(x)
    BY <1>2 DEF Read
  <2> HIDE DEF x
  <2>5. Keeps(u, x)
    BY <1>2, <2>3, TailFacts DEF Keeps
  <2>6. Flushed(x) \in Stack /\ Bytes(Flushed(x)) = Bytes(x) /\ Len(Flushed(x).tx) <= Len(u.tx)
    BY <2>3, FlushedFacts
  <2> QED
    BY <2>4, <2>5, <2>6 DEF Keeps
<1> QED
  BY <1>1, <1>2

\* A reset leaves the last byte that was handed over.
LEMMA ResetFacts ==
  ASSUME NEW u \in Stack
  PROVE  Reset(u) \in Stack /\ Keeps(u, Reset(u)) /\ Len(Reset(u).tx) <= Len(u.tx)
<1> DEFINE s == Bytes(u)
           g == IF s = <<>> THEN <<>> ELSE <<s[Len(s)]>>
<1>1. s \in Seq(Byte) /\ Len(u.tx) \in Nat
  BY StackFacts, LenProperties
<1>2. Reset(u) = [u EXCEPT !.tx = <<>>, !.ep = <<>>, !.link = "off", !.line = FALSE, !.gone = g]
  BY DEF Reset
<1> HIDE DEF s
<1>3. g \in Seq(Byte) /\ Len(g) \in {0, 1} /\ \A b : EndsWith(s, b) => EndsWith(g, b)
  <2>1. CASE s = <<>>
    BY <2>1 DEF EndsWith
  <2>2. CASE s # <<>>
    <3>1. s[Len(s)] \in Byte
      BY <1>1, <2>2, EmptySeq, LenProperties, ElementOfSeq
    <3>2. g = <<s[Len(s)]>>
      BY <2>2
    <3> HIDE DEF g
    <3> QED
      BY <3>1, <3>2 DEF EndsWith
  <2> QED
    BY <2>1, <2>2
<1> HIDE DEF g
<1>4. /\ Reset(u) \in Stack /\ Reset(u).gone = g
      /\ Reset(u).ep = <<>> /\ Reset(u).tx = <<>>
  <2>1. <<>> \in Seq(Byte) /\ "off" \in {"off", "on", "asleep"} /\ FALSE \in BOOLEAN
    OBVIOUS
  <2> HIDE DEF Byte
  <2>2. Reset(u) = [tx |-> <<>>, ep |-> <<>>, gone |-> g, link |-> "off", line |-> FALSE]
    BY <1>2, Zenon DEF Stack
  <2> QED
    BY <2>1, <2>2, <1>3 DEF Stack
<1>5. Bytes(Reset(u)) = g
  <2>1. g \o <<>> = g
    BY <1>3, ConcatEmptySeq
  <2> QED
    BY <1>4, <2>1 DEF Bytes
<1>6. Linked(g)
  BY <1>3 DEF Linked
<1> QED
  BY <1>1, <1>3, <1>4, <1>5, <1>6 DEF Keeps, s

LEMMA TaskedFacts ==
  ASSUME NEW u \in Stack, NEW read \in BOOLEAN, NEW reset \in BOOLEAN,
         NEW configured \in BOOLEAN, NEW line \in BOOLEAN
  PROVE  LET w == Tasked(u, read, reset, configured, line)
         IN  w \in Stack /\ Keeps(u, w) /\ Len(w.tx) <= Len(u.tx)
<1> DEFINE v == IF read THEN Read(u) ELSE u
           w == IF reset THEN Reset(v) ELSE v
           l == IF configured /\ w.link = "off" THEN "on" ELSE w.link
           x == [w EXCEPT !.link = l, !.line = line /\ l # "off"]
<1>1. Len(u.tx) \in Nat
  BY StackFacts, LenProperties
<1>2. v \in Stack /\ Keeps(u, v) /\ Len(v.tx) <= Len(u.tx)
  BY <1>1, ReadFacts DEF Keeps
<1>3. Tasked(u, read, reset, configured, line) = x
  BY DEF Tasked
<1> HIDE DEF v
<1>4. Len(v.tx) \in Nat
  BY <1>2, StackFacts, LenProperties
<1>5. w \in Stack /\ Keeps(v, w) /\ Len(w.tx) <= Len(v.tx)
  BY <1>2, <1>4, ResetFacts DEF Keeps
<1> HIDE DEF w
<1>6. Len(w.tx) \in Nat
  BY <1>5, StackFacts, LenProperties
<1>7. w.link \in {"off", "on", "asleep"}
  BY <1>5 DEF Stack
<1>8. l \in {"off", "on", "asleep"} /\ (line /\ l # "off") \in BOOLEAN
  BY <1>7
<1> HIDE DEF l
<1>9. x \in Stack /\ x.tx = w.tx /\ x.ep = w.ep /\ x.gone = w.gone
  BY <1>5, <1>8 DEF Stack
<1>10. Bytes(x) = Bytes(w)
  BY <1>9 DEF Bytes
<1> HIDE DEF x
<1> QED
  BY <1>1, <1>2, <1>3, <1>4, <1>5, <1>6, <1>9, <1>10 DEF Keeps

LEMMA WrittenFacts ==
  ASSUME NEW u \in Stack, NEW bytes \in Seq(Byte),
         Len(u.tx) <= FifoSize, Len(bytes) <= Room(u)
  PROVE  LET w == Written(u, bytes)
         IN  w \in Stack /\ Bytes(w) = Bytes(u) \o bytes /\ Len(w.tx) <= FifoSize
<1> DEFINE v == [u EXCEPT !.tx = @ \o bytes]
<1>1. /\ u.tx \o bytes \in Seq(Byte) /\ Len(u.tx) \in Nat /\ Len(bytes) \in Nat
      /\ Len(u.tx \o bytes) = Len(u.tx) + Len(bytes)
  BY StackFacts, ConcatBytes, LenProperties
<1>2. v \in Stack /\ v.tx = u.tx \o bytes /\ v.ep = u.ep /\ v.gone = u.gone
  BY <1>1 DEF Stack
<1>3. Len(v.tx) <= FifoSize
  BY <1>1, <1>2, UsbAssumption DEF Room, UsbAssumption
<1>4. Bytes(v) = Bytes(u) \o bytes
  <2>1. ((u.gone \o u.ep) \o u.tx) \o bytes = (u.gone \o u.ep) \o (u.tx \o bytes)
    <3> DEFINE a == u.gone \o u.ep
    <3>1. a \in Seq(Byte) /\ u.tx \in Seq(Byte)
      BY StackFacts
    <3> HIDE DEF a
    <3>2. (a \o u.tx) \o bytes = a \o (u.tx \o bytes)
      BY <3>1, AssociativeBytes
    <3> QED
      BY <3>2 DEF a
  <2>2. Bytes(v) = (u.gone \o u.ep) \o (u.tx \o bytes)
    BY <1>2 DEF Bytes
  <2> QED
    BY <2>1, <2>2 DEF Bytes
<1>5. Written(u, bytes) = IF Len(v.tx) >= Packet THEN Flushed(v) ELSE v
  BY DEF Written
<1> HIDE DEF v
<1>6. Len(v.tx) \in Nat /\ Len(Flushed(v).tx) \in Nat /\ FifoSize \in Nat
  BY <1>2, StackFacts, FlushedFacts, LenProperties, UsbAssumption DEF UsbAssumption
<1>7. CASE Len(v.tx) >= Packet
  <2>1. /\ Flushed(v) \in Stack /\ Bytes(Flushed(v)) = Bytes(v)
        /\ Len(Flushed(v).tx) <= Len(v.tx)
    BY <1>2, FlushedFacts
  <2>2. Len(Flushed(v).tx) <= FifoSize
    BY <1>3, <1>6, <2>1
  <2>3. Written(u, bytes) = Flushed(v)
    BY <1>5, <1>7
  <2> QED
    BY <1>4, <2>1, <2>2, <2>3
<1>8. CASE ~(Len(v.tx) >= Packet)
  BY <1>2, <1>3, <1>4, <1>5, <1>8
<1> QED
  BY <1>7, <1>8

\* A write that follows its own last byte, or begins.
LEMMA LinkedConcat ==
  ASSUME NEW s \in Seq(Byte), NEW t \in Seq(Byte), Linked(s), Linked(t), t # <<>>,
         t[1].n = 1 \/ EndsWith(s, [by |-> t[1].by, n |-> t[1].n - 1])
  PROVE  Linked(s \o t) /\ EndsWith(s \o t, t[Len(t)])
<1> DEFINE r == s \o t
<1>1. /\ Len(s) \in Nat /\ Len(t) \in Nat \ {0} /\ Len(r) = Len(s) + Len(t)
      /\ \A i \in 1 .. Len(s) + Len(t) : r[i] = IF i <= Len(s) THEN s[i] ELSE t[i - Len(s)]
  BY ConcatBytes, LenProperties, EmptySeq
<1>2. r # <<>>
  BY <1>1
<1> HIDE DEF r
<1>3. ASSUME NEW i \in 2 .. Len(r)
      PROVE  r[i].n = 1 \/ r[i - 1] = [by |-> r[i].by, n |-> r[i].n - 1]
  <2>1. i \in 1 .. Len(s) + Len(t) /\ i - 1 \in 1 .. Len(s) + Len(t)
    BY <1>1
  <2>2. CASE i <= Len(s)
    <3>1. i \in 2 .. Len(s) /\ i - 1 <= Len(s)
      BY <1>1, <2>2
    <3>2. r[i] = s[i]
      BY <1>1, <2>1, <2>2
    <3>3. r[i - 1] = s[i - 1]
      BY <1>1, <2>1, <3>1
    <3> QED
      BY <3>1, <3>2, <3>3 DEF Linked
  <2>3. CASE i = Len(s) + 1
    <3>1. r[i] = t[1]
      BY <1>1, <2>1, <2>3
    <3>2. i - 1 <= Len(s) /\ i - 1 = Len(s)
      BY <1>1, <2>3
    <3>3. r[i - 1] = s[Len(s)]
      BY <1>1, <2>1, <3>2
    <3> QED
      BY <3>1, <3>3 DEF EndsWith
  <2>4. CASE i > Len(s) + 1
    <3>1. /\ i - Len(s) \in 2 .. Len(t) /\ (i - 1) - Len(s) = (i - Len(s)) - 1
          /\ ~(i <= Len(s)) /\ ~(i - 1 <= Len(s))
      BY <1>1, <2>4
    <3>2. r[i] = t[i - Len(s)] /\ r[i - 1] = t[(i - Len(s)) - 1]
      BY <1>1, <2>1, <3>1
    <3> QED
      BY <3>1, <3>2 DEF Linked
  <2> QED
    BY <1>1, <2>2, <2>3, <2>4
<1>4. r[Len(r)] = t[Len(t)]
  BY <1>1
<1> QED
  BY <1>2, <1>3, <1>4 DEF r, Linked, EndsWith

------------------------------------------------------------------------------
(* Types, and what a write() has handed over.                                *)

\* The loop of write() is the only one that makes bytes.
ILoop == \A c \in Ctx : /\ pc[c] \in {"copy", "flush"} => call[c] = "write"
                        /\ call[c] = "write" => Inside(c)

Writing(c) == Inside(c) /\ pc[c] # "leave" /\ call[c] = "write" /\ left[c] < Length

\* The last byte in the stack is the last one that the writer handed over.
IWhole == /\ Linked(Bytes(usb))
          /\ \A c \in Ctx : Writing(c) =>
               EndsWith(Bytes(usb), [by |-> c, n |-> Length - left[c]])

WInv == IInv /\ TypeOK /\ ILoop /\ IWhole

LEMMA InitWInv == Init => WInv
<1> SUFFICES ASSUME Init PROVE WInv
  OBVIOUS
<1>1. usb \in Stack /\ Len(usb.tx) = 0
  BY DEF Init, Stack
<1>2. TypeOK
  <2>1. Len(usb.tx) <= FifoSize
    BY <1>1, UsbAssumption DEF UsbAssumption
  <2> QED
    BY <1>1, <2>1, UsbAssumption DEF Init, TypeOK, UsbAssumption, Owners, Labels, None
<1>3. Len(Bytes(usb)) = 0
  BY DEF Init, Bytes
<1>4. Linked(Bytes(usb))
  BY <1>3 DEF Linked
<1> QED
  BY <1>2, <1>4, InitInv DEF Init, WInv, ILoop, IWhole, Writing, Inside, None

\* A step that makes no bytes and begins no write in the middle.
LEMMA KeepsWhole ==
  ASSUME IWhole, Keeps(usb, usb'),
         \A c \in Ctx : Writing(c)' => Writing(c) /\ left'[c] = left[c]
  PROVE  IWhole'
  BY DEF IWhole, Keeps

LEMMA ClockWInv ==
  ASSUME WInv, Clock \/ UNCHANGED vars
  PROVE  TypeOK' /\ ILoop' /\ IWhole'
<1>1. since' \in 0 .. Second + 1
  BY UsbAssumption DEF Clock, vars, WInv, TypeOK, UsbAssumption
<1>2. UNCHANGED <<mutex, owning, pc, call, left, wrote, usb>>
  BY DEF Clock, vars
<1> QED
  BY <1>1, <1>2 DEF WInv, TypeOK, ILoop, IWhole, Writing, Inside

LEMMA CallWInv ==
  ASSUME WInv, NEW c \in Ctx, Call(c)
  PROVE  TypeOK' /\ ILoop' /\ IWhole'
<1>1. /\ pc[c] = "out" /\ pc' = [pc EXCEPT ![c] = "enter"]
      /\ UNCHANGED <<mutex, owning, call, left, wrote, usb, since>>
  BY DEF Call, At, Goto
<1>2. TypeOK'
  BY <1>1 DEF WInv, TypeOK, Labels
<1>3. \A d \in Ctx : Inside(d)' <=> Inside(d)
  BY <1>1 DEF WInv, TypeOK, Inside
<1>4. ILoop'
  BY <1>1, <1>3 DEF WInv, TypeOK, ILoop
<1>5. \A d \in Ctx : Writing(d)' => Writing(d)
  BY <1>1, <1>3 DEF WInv, TypeOK, Writing, Inside
<1> QED
  BY <1>1, <1>2, <1>4, <1>5 DEF WInv, IWhole

LEMMA EnterWInv ==
  ASSUME WInv, NEW c \in Ctx, NEW k \in Kind, Enter(c, k)
  PROVE  TypeOK' /\ ILoop' /\ IWhole'
<1>1. /\ pc[c] = "enter" /\ call' = [call EXCEPT ![c] = k]
      /\ mutex' = Core[c] /\ owning' = owning \cup {c} /\ wrote' = wrote
      /\ since' \in {Second + 1, since} /\ usb' \in {usb, Flushed(usb)}
  BY DEF Enter, At
<1>2. \/ /\ k = "write" /\ pc' = [pc EXCEPT ![c] = "copy"]
         /\ left' = [left EXCEPT ![c] = Length]
      \/ pc' = [pc EXCEPT ![c] = "task"] /\ k # "write" /\ left' = left
      \/ pc' = [pc EXCEPT ![c] = "leave"] /\ left' = left
  BY DEF Enter, Goto
<1>3. usb' \in Stack /\ Len(usb'.tx) <= FifoSize /\ Keeps(usb, usb')
  <2>1. usb \in Stack /\ Len(usb.tx) <= FifoSize /\ Len(usb.tx) \in Nat /\ FifoSize \in Nat
    BY StackFacts, LenProperties, UsbAssumption DEF WInv, TypeOK, UsbAssumption
  <2>2. CASE usb' = usb
    BY <2>1, <2>2 DEF Keeps
  <2>3. CASE usb' = Flushed(usb)
    <3>1. Flushed(usb) \in Stack /\ Len(Flushed(usb).tx) <= Len(usb.tx)
      BY <2>1, FlushedFacts
    <3>2. Len(Flushed(usb).tx) \in Nat
      BY <3>1, StackFacts, LenProperties
    <3> QED
      BY <2>1, <2>3, <3>1, <3>2, FlushedKeeps
  <2> QED
    BY <1>1, <2>2, <2>3
<1>4. TypeOK'
  <2>1. mutex' \in Owners
    BY <1>1 DEF Core, Ctx, Owners, Cores
  <2>2. left' \in [Ctx -> 0 .. Length]
    BY <1>2, UsbAssumption, SMTT(30) DEF WInv, TypeOK, UsbAssumption
  <2>3. since' \in 0 .. Second + 1
    BY <1>1, UsbAssumption DEF WInv, TypeOK, UsbAssumption
  <2>4. pc' \in [Ctx -> Labels] /\ call' \in [Ctx -> Kind \cup {None}]
    BY <1>1, <1>2 DEF WInv, TypeOK, Labels
  <2> QED
    BY <1>1, <1>3, <2>1, <2>2, <2>3, <2>4 DEF WInv, TypeOK
<1>5. \A d \in Ctx \ {c} : pc'[d] = pc[d] /\ call'[d] = call[d] /\ left'[d] = left[d]
  BY <1>1, <1>2 DEF WInv, TypeOK
<1>6. call'[c] = k /\ Inside(c)'
  BY <1>1, <1>2 DEF WInv, TypeOK, Inside
<1>7. pc'[c] \in {"copy", "flush"} => k = "write"
  BY <1>2 DEF WInv, TypeOK
<1>8. ILoop'
  BY <1>5, <1>6, <1>7 DEF WInv, ILoop, Inside
<1>9. ~Writing(c)'
  <2>1. CASE pc' = [pc EXCEPT ![c] = "copy"] /\ left' = [left EXCEPT ![c] = Length]
    BY <2>1, UsbAssumption DEF WInv, TypeOK, Writing, UsbAssumption
  <2>2. CASE pc' = [pc EXCEPT ![c] = "task"] /\ k # "write"
    BY <2>2, <1>6 DEF Writing
  <2>3. CASE pc' = [pc EXCEPT ![c] = "leave"]
    BY <2>3 DEF WInv, TypeOK, Writing
  <2> QED
    BY <1>2, <2>1, <2>2, <2>3
<1>10. \A d \in Ctx : Writing(d)' => Writing(d) /\ left'[d] = left[d]
  BY <1>5, <1>9 DEF Writing, Inside
<1> QED
  BY <1>3, <1>4, <1>8, <1>10, KeepsWhole DEF WInv

LEMMA EnterRefusedWInv ==
  ASSUME WInv, NEW c \in Ctx, NEW k \in Kind, EnterRefused(c, k)
  PROVE  TypeOK' /\ ILoop' /\ IWhole'
<1>1. /\ pc[c] = "enter" /\ UNCHANGED <<mutex, owning, left, wrote, usb, since>>
      /\ \/ k = "report" /\ pc' = [pc EXCEPT ![c] = "task"] /\ call' = [call EXCEPT ![c] = k]
         \/ pc' = [pc EXCEPT ![c] = "out"] /\ call' = call
  BY DEF EnterRefused, CarriesOn, At, Goto
<1>2. TypeOK'
  BY <1>1 DEF WInv, TypeOK, Labels
<1>3. \A d \in Ctx \ {c} : pc'[d] = pc[d] /\ call'[d] = call[d]
  BY <1>1 DEF WInv, TypeOK
<1>4. pc'[c] \in {"task", "out"} /\ call'[c] # "write"
  BY <1>1 DEF WInv, TypeOK, ILoop, Inside
<1>5. ILoop'
  BY <1>3, <1>4 DEF WInv, ILoop, Inside
<1>6. \A d \in Ctx : Writing(d)' => Writing(d) /\ left'[d] = left[d]
  BY <1>1, <1>3, <1>4 DEF Writing, Inside
<1> QED
  BY <1>1, <1>2, <1>5, <1>6, KeepsWhole DEF WInv, Keeps

\* Two writes are not under way at once.
LEMMA OneWriter ==
  ASSUME WInv, NEW c \in Ctx, NEW d \in Ctx,
         Inside(c), call[c] = "write", Inside(d), call[d] = "write"
  PROVE  c = d
  BY DEF WInv, IInv, IOwner, IRefused

\* The bytes that one turn of the loop hands over.
LEMMA CopiedBytes ==
  ASSUME NEW c \in Ctx, NEW l \in 0 .. Length, NEW n \in 1 .. l
  PROVE  LET bytes == [i \in 1 .. n |-> [by |-> c, n |-> Length - l + i]]
         IN  /\ bytes \in Seq(Byte) /\ Len(bytes) = n /\ Linked(bytes) /\ bytes # <<>>
             /\ bytes[1] = [by |-> c, n |-> Length - l + 1]
             /\ bytes[n] = [by |-> c, n |-> Length - (l - n)]
<1> DEFINE byte(i) == [by |-> c, n |-> Length - l + i]
           bytes   == [i \in 1 .. n |-> byte(i)]
<1>1. Length \in Nat /\ l \in Nat /\ n \in Nat \ {0} /\ n <= l /\ l <= Length
  BY UsbAssumption DEF UsbAssumption
<1>2. \A i \in 1 .. n : byte(i) \in Byte
  <2>1. TAKE i \in 1 .. n
  <2>2. Length - l + i \in 1 .. Length
    BY <1>1
  <2> QED
    BY <2>2 DEF Byte
<1> HIDE DEF byte
<1>3. bytes \in Seq(Byte) /\ Len(bytes) = n
  BY <1>1, <1>2
<1>4. Linked(bytes)
  <2>1. SUFFICES ASSUME NEW i \in 2 .. n
                 PROVE  bytes[i - 1] = [by |-> bytes[i].by, n |-> bytes[i].n - 1]
    BY <1>3 DEF Linked
  <2>2. i \in 1 .. n /\ i - 1 \in 1 .. n /\ Length - l + (i - 1) = (Length - l + i) - 1
    BY <1>1
  <2> QED
    BY <2>2 DEF byte
<1>5. bytes[1] = [by |-> c, n |-> Length - l + 1] /\ 1 \in 1 .. n /\ n \in 1 .. n
  BY <1>1 DEF byte
<1>6. bytes[n] = [by |-> c, n |-> Length - (l - n)]
  <2>1. Length - l + n = Length - (l - n)
    BY <1>1
  <2> QED
    BY <1>5, <2>1 DEF byte
<1>7. bytes # <<>>
  BY <1>1, <1>3
<1> QED
  BY <1>3, <1>4, <1>5, <1>6, <1>7 DEF byte

LEMMA CopyWInv ==
  ASSUME WInv, NEW c \in Ctx, Copy(c)
  PROVE  TypeOK' /\ ILoop' /\ IWhole'
<1> DEFINE n == Min({left[c], Room(usb)})
           bytes == [i \in 1 .. n |-> [by |-> c, n |-> Length - left[c] + i]]
<1>1. /\ pc[c] = "copy" /\ UNCHANGED <<mutex, owning, call, since>>
      /\ pc' = [pc EXCEPT ![c] = IF left[c] = 0 THEN "leave" ELSE "task"]
      /\ left' = [left EXCEPT ![c] = @ - n] /\ wrote' = [wrote EXCEPT ![c] = n > 0]
      /\ usb' = IF n > 0 THEN Written(usb, bytes) ELSE usb
  BY DEF Copy, At, Goto
<1>2. /\ usb \in Stack /\ Len(usb.tx) <= FifoSize /\ Len(usb.tx) \in Nat
      /\ left[c] \in 0 .. Length /\ FifoSize \in Nat /\ Length \in Nat
  BY StackFacts, LenProperties, UsbAssumption DEF WInv, TypeOK, UsbAssumption
<1>3. n \in 0 .. left[c] /\ n <= Room(usb)
  <2>1. Room(usb) \in Nat /\ left[c] \in Nat
    BY <1>2 DEF Room
  <2> QED
    BY <2>1, MinOfTwo
<1>4. call[c] = "write" /\ Inside(c) /\ \A d \in Ctx \ {c} : ~Writing(d)
  BY <1>1, OneWriter DEF WInv, ILoop, Inside, Writing
<1> HIDE DEF n
<1>5. /\ usb' \in Stack /\ Len(usb'.tx) <= FifoSize /\ Linked(Bytes(usb'))
      /\ left'[c] < Length => EndsWith(Bytes(usb'), [by |-> c, n |-> Length - left'[c]])
  <2>1. left'[c] = left[c] - n
    BY <1>1 DEF WInv, TypeOK
  <2>2. CASE n = 0
    <3>1. usb' = usb /\ left'[c] = left[c]
      BY <1>1, <1>2, <2>1, <2>2
    <3>2. left[c] < Length => EndsWith(Bytes(usb), [by |-> c, n |-> Length - left[c]])
      BY <1>1, <1>4 DEF WInv, IWhole, Writing
    <3> QED
      BY <1>2, <3>1, <3>2 DEF WInv, IWhole
  <2>3. CASE n # 0
    <3>1. n \in 1 .. left[c] /\ n > 0
      BY <1>2, <1>3, <2>3
    <3>2. usb' = Written(usb, bytes)
      BY <1>1, <3>1
    <3>3. /\ bytes \in Seq(Byte) /\ Len(bytes) = n /\ Linked(bytes) /\ bytes # <<>>
          /\ bytes[1] = [by |-> c, n |-> Length - left[c] + 1]
          /\ bytes[n] = [by |-> c, n |-> Length - (left[c] - n)]
      BY <1>2, <3>1, CopiedBytes, ZenonT(30)
    <3> HIDE DEF bytes
    <3>4. usb' \in Stack /\ Bytes(usb') = Bytes(usb) \o bytes /\ Len(usb'.tx) <= FifoSize
      BY <1>2, <1>3, <3>2, <3>3, WrittenFacts
    <3>5. Bytes(usb) \in Seq(Byte) /\ Linked(Bytes(usb))
      BY <1>2, StackFacts DEF WInv, IWhole
    <3>6. bytes[1].n = 1 \/ EndsWith(Bytes(usb), [by |-> bytes[1].by, n |-> bytes[1].n - 1])
      <4>1. CASE left[c] = Length
        BY <1>2, <3>3, <4>1
      <4>2. CASE left[c] < Length
        <5>1. EndsWith(Bytes(usb), [by |-> c, n |-> Length - left[c]])
          BY <1>1, <1>4, <4>2 DEF WInv, IWhole, Writing
        <5>2. (Length - left[c] + 1) - 1 = Length - left[c]
          BY <1>2
        <5>3. bytes[1].by = c /\ bytes[1].n - 1 = Length - left[c]
          BY <3>3, <5>2
        <5> QED
          BY <5>1, <5>3
      <4> QED
        BY <1>2, <4>1, <4>2
    <3>7. Linked(Bytes(usb')) /\ EndsWith(Bytes(usb'), bytes[n])
      BY <3>3, <3>4, <3>5, <3>6, LinkedConcat
    <3> QED
      BY <2>1, <3>3, <3>4, <3>7
  <2> QED
    BY <2>2, <2>3
<1>6. \A d \in Ctx \ {c} : pc'[d] = pc[d] /\ left'[d] = left[d]
  BY <1>1 DEF WInv, TypeOK
<1>7. pc'[c] \in {"leave", "task"} /\ pc' \in [Ctx -> Labels]
  BY <1>1 DEF WInv, TypeOK, Labels
<1>8. TypeOK'
  <2>1. left[c] - n \in 0 .. Length
    BY <1>2, <1>3
  <2>2. left' \in [Ctx -> 0 .. Length] /\ wrote' \in [Ctx -> BOOLEAN]
    BY <1>1, <2>1 DEF WInv, TypeOK
  <2> QED
    BY <1>1, <1>5, <1>7, <2>2 DEF WInv, TypeOK
<1>9. ILoop'
  BY <1>1, <1>6, <1>7 DEF WInv, ILoop, Inside
<1>10. IWhole'
  <2>1. \A d \in Ctx \ {c} : ~Writing(d)'
    BY <1>1, <1>4, <1>6 DEF Writing, Inside
  <2> QED
    BY <1>5, <2>1 DEF IWhole, Writing
<1> QED
  BY <1>8, <1>9, <1>10

\* A step of c inside its call that makes no bytes.
LEMMA MovesWInv ==
  ASSUME WInv, NEW c \in Ctx, Inside(c), pc[c] # "leave",
         usb' \in Stack, Len(usb'.tx) <= FifoSize, Keeps(usb, usb'),
         UNCHANGED <<mutex, owning, call, left>>, wrote' \in [Ctx -> BOOLEAN],
         since' \in 0 .. Second + 1,
         NEW l \in Labels \ {"out", "enter"}, pc' = [pc EXCEPT ![c] = l],
         l \in {"copy", "flush"} => call[c] = "write"
  PROVE  TypeOK' /\ ILoop' /\ IWhole'
<1>1. TypeOK'
  BY DEF WInv, TypeOK
<1>2. pc'[c] = l /\ \A d \in Ctx \ {c} : pc'[d] = pc[d]
  BY DEF WInv, TypeOK
<1>3. ILoop'
  BY <1>2 DEF WInv, ILoop, Inside
<1>4. \A d \in Ctx : Writing(d)' => Writing(d) /\ left'[d] = left[d]
  BY <1>2 DEF Writing, Inside
<1> QED
  BY <1>1, <1>3, <1>4, KeepsWhole DEF WInv

LEMMA StackTypes ==
  ASSUME WInv, NEW w \in Stack, Len(w.tx) <= Len(usb.tx)
  PROVE  Len(w.tx) <= FifoSize
  BY StackFacts, LenProperties, UsbAssumption DEF WInv, TypeOK, UsbAssumption

LEMMA TaskWInv ==
  ASSUME WInv, NEW c \in Ctx, Task(c)
  PROVE  TypeOK' /\ ILoop' /\ IWhole'
<1>1. usb' \in Stack /\ Keeps(usb, usb') /\ Len(usb'.tx) <= Len(usb.tx)
  <2>1. usb \in Stack /\ {FALSE, usb.ep # <<>>} \subseteq BOOLEAN
    BY DEF WInv, TypeOK
  <2>2. PICK read \in BOOLEAN, reset \in BOOLEAN, configured \in BOOLEAN, line \in BOOLEAN :
          usb' = Tasked(usb, read, reset, configured, line)
    BY <2>1, Zenon DEF Task
  <2> QED
    BY <2>1, <2>2, TaskedFacts
<1>2. pc[c] \in {"task", "last"} /\ UNCHANGED <<mutex, owning, call, left, wrote, since>>
  BY DEF Task, At
<1>3. PICK l \in {"leave", "flush", "report"} :
        pc' = [pc EXCEPT ![c] = l] /\ (l = "flush" => call[c] = "write")
  BY DEF Task, Goto
<1>4. wrote' \in [Ctx -> BOOLEAN] /\ since' \in 0 .. Second + 1
  BY <1>2 DEF WInv, TypeOK
<1> QED
  BY <1>1, <1>2, <1>3, <1>4, StackTypes, MovesWInv DEF Labels, Inside

LEMMA FlushWInv ==
  ASSUME WInv, NEW c \in Ctx, Flush(c)
  PROVE  TypeOK' /\ ILoop' /\ IWhole'
<1>1. usb' \in Stack /\ Keeps(usb, usb') /\ Len(usb'.tx) <= Len(usb.tx)
  BY FlushedFacts, FlushedKeeps DEF Flush, WInv, TypeOK
<1>2. /\ pc[c] = "flush" /\ UNCHANGED <<mutex, owning, call, left>>
      /\ call[c] = "write"
  BY DEF Flush, At, WInv, ILoop
<1>3. PICK l \in {"leave", "copy"} : pc' = [pc EXCEPT ![c] = l]
  BY DEF Flush, Goto
<1>4. wrote' \in [Ctx -> BOOLEAN] /\ since' \in 0 .. Second + 1
  BY UsbAssumption DEF Flush, WInv, TypeOK, UsbAssumption
<1> QED
  BY <1>1, <1>2, <1>3, <1>4, StackTypes, MovesWInv DEF Labels, Inside

LEMMA ReportWInv ==
  ASSUME WInv, NEW c \in Ctx, Report(c) \/ Hangs(c)
  PROVE  TypeOK' /\ ILoop' /\ IWhole'
<1>1. /\ pc[c] \in {"task", "report", "last"}
      /\ UNCHANGED <<mutex, owning, call, left, wrote, usb, since>>
  BY DEF Report, Hangs, At
<1>2. PICK l \in {"last", "hangs"} : pc' = [pc EXCEPT ![c] = l]
  BY DEF Report, Hangs, Goto
<1>3. usb' \in Stack /\ Keeps(usb, usb') /\ Len(usb'.tx) <= FifoSize
  <2>1. usb' = usb
    BY <1>1
  <2>2. Keeps(usb, usb)
    BY DEF Keeps
  <2>3. usb \in Stack /\ Len(usb.tx) <= FifoSize
    BY DEF WInv, TypeOK
  <2> QED
    BY <2>1, <2>2, <2>3
<1>4. wrote' \in [Ctx -> BOOLEAN] /\ since' \in 0 .. Second + 1
  BY <1>1 DEF WInv, TypeOK
<1> QED
  BY <1>1, <1>2, <1>3, <1>4, MovesWInv DEF Labels, Inside

LEMMA SuspendWInv ==
  ASSUME WInv, Suspend
  PROVE  TypeOK' /\ ILoop' /\ IWhole'
<1>1. UNCHANGED <<mutex, owning, pc, call, left, wrote, since>>
  BY DEF Suspend
<1>2. PICK l \in {"on", "asleep"} : usb' = [usb EXCEPT !.link = l]
  BY DEF Suspend
<1>3. usb' \in Stack /\ usb'.tx = usb.tx /\ usb'.ep = usb.ep /\ usb'.gone = usb.gone
  BY <1>2 DEF Stack, WInv, TypeOK
<1>4. Bytes(usb') = Bytes(usb)
  BY <1>3 DEF Bytes
<1>5. TypeOK'
  BY <1>1, <1>3 DEF WInv, TypeOK
<1>6. ILoop'
  BY <1>1 DEF WInv, ILoop, Inside
<1>7. IWhole'
  BY <1>1, <1>4, KeepsWhole DEF WInv, Keeps, Writing, Inside
<1> QED
  BY <1>5, <1>6, <1>7

LEMMA LeaveWInv ==
  ASSUME WInv, NEW c \in Ctx, Leave(c)
  PROVE  TypeOK' /\ ILoop' /\ IWhole'
<1>1. /\ pc[c] = "leave" /\ pc' = [pc EXCEPT ![c] = "out"]
      /\ call' = [call EXCEPT ![c] = None] /\ left' = [left EXCEPT ![c] = 0]
      /\ UNCHANGED <<usb, since>>
  BY DEF Leave, At, Goto
<1>2. TypeOK'
  <2>1. mutex' \in Owners /\ owning' \subseteq Ctx /\ wrote' \in [Ctx -> BOOLEAN]
    BY DEF Leave, WInv, TypeOK, Owners
  <2>2. left' \in [Ctx -> 0 .. Length]
    BY <1>1, UsbAssumption DEF WInv, TypeOK, UsbAssumption
  <2>3. pc' \in [Ctx -> Labels] /\ call' \in [Ctx -> Kind \cup {None}]
    BY <1>1 DEF WInv, TypeOK, Labels
  <2> QED
    BY <1>1, <2>1, <2>2, <2>3 DEF WInv, TypeOK
<1>3. \A d \in Ctx \ {c} : pc'[d] = pc[d] /\ call'[d] = call[d] /\ left'[d] = left[d]
  BY <1>1 DEF WInv, TypeOK
<1>4. pc'[c] = "out" /\ call'[c] = None
  BY <1>1 DEF WInv, TypeOK
<1>5. ILoop'
  BY <1>3, <1>4 DEF WInv, ILoop, Inside, None
<1>6. \A d \in Ctx : Writing(d)' => Writing(d) /\ left'[d] = left[d]
  BY <1>3, <1>4 DEF Writing, Inside
<1> QED
  BY <1>1, <1>2, <1>5, <1>6, KeepsWhole DEF WInv, Keeps

LEMMA NextWInv ==
  ASSUME WInv, [Next]_vars
  PROVE  WInv'
<1>1. IInv'
  BY NextInv DEF WInv
<1>2. CASE Clock \/ UNCHANGED vars
  BY <1>1, <1>2, ClockWInv DEF WInv
<1>3. ASSUME NEW c \in Ctx, Call(c) \/ Step(c)
      PROVE  TypeOK' /\ ILoop' /\ IWhole'
  BY <1>3, CallWInv, EnterWInv, EnterRefusedWInv, CopyWInv, TaskWInv,
     FlushWInv, ReportWInv, LeaveWInv DEF Step
<1>4. CASE Suspend
  BY <1>1, <1>4, SuspendWInv DEF WInv
<1> QED
  BY <1>1, <1>2, <1>3, <1>4 DEF Next, WInv

(* The bytes on their way are linked, and end where the write() that goes on *)
(* has stopped.                                                              *)
THEOREM WholeInvariant == Spec => []WInv
<1>1. WInv /\ [Next]_vars => WInv'
  BY NextWInv
<1> QED
  BY InitWInv, <1>1, PTL DEF Spec

(* Every variable keeps its type: no more bytes are handed to TinyUSB than   *)
(* its FIFO has room for.                                                    *)
THEOREM TypeCorrect == Spec => []TypeOK
<1>1. WInv => TypeOK
  BY DEF WInv
<1> QED
  BY <1>1, WholeInvariant, PTL

(* The bytes of a write() stay together and in order, for writes and buffers *)
(* of any length and every mix of calls.                                     *)
THEOREM WholeCorrect == Spec => []Whole
<1>1. WInv => Whole
  BY DEF WInv, IWhole, Linked, Whole
<1> QED
  BY <1>1, WholeInvariant, PTL
==============================================================================
