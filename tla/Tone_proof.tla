------------------------------ MODULE Tone_proof ------------------------------
(* Proofs about Tone, for any number of pins, Tones, alarms and machines.      *)
EXTENDS Tone, FiniteSetTheorems, TLAPS

-------------------------------------------------------------------------------
(* The inductive invariant.                                                    *)

Inside(c) == pc[c] \notin {"out", "enter"}

\* One context at most is between Enter and Leave.
IMutex == /\ \A c \in Caller : Inside(c) => mutex # NoCore
          /\ \A c, d \in Caller : Inside(c) /\ Inside(d) => c = d

\* The map names live Tones, each once.
IMap == /\ \A p \in Pin : toneMap[p] # 0 => tone[toneMap[p]].live
        /\ \A p, q \in Pin : toneMap[p] # 0 /\ toneMap[p] = toneMap[q] => p = q

\* What a call is about, from step to step.
HasTone  == job.pin \in Pin /\ job.at # 0 /\ toneMap[job.pin] = job.at
HasNone  == job.pin \in Pin /\ toneMap[job.pin] = 0
Acts     == /\ job.pin \in Pin /\ job.at # 0 /\ tone[job.at].live
            /\ toneMap[job.pin] \in {0, job.at}
            /\ \A q \in Pin \ {job.pin} : toneMap[q] # job.at
IPlace == \A c \in Caller :
  /\ pc[c] \in {"find", "cancel", "add", "store"} => HasTone
  /\ pc[c] = "new" => HasNone
  /\ pc[c] = "act" => Acts

\* The state machines of the live Tones and the free ones; the others leaked.
Live   == {t \in Address : tone[t].live}
ICount == free + Cardinality(Live) <= Machines

\* A pending alarm is the one that its Tone, or the call about to store it, knows.
IKnown == /\ \A i, j \in Pending : heap[i] = heap[j] => i = j
          /\ \A i \in Pending :
               \/ tone[heap[i]].alarm = i
               \/ \E c \in Caller : pc[c] = "store" /\ job.at = heap[i] /\ job.id = i
          /\ irq # Idle => \A i \in Pending : heap[i] # irq.at

\* What a call has seen of the alarms of its Tone.
ISeen == \A c \in Caller :
  /\ pc[c] = "cancel" => tone[job.at].alarm \in {0, job.id}
  /\ pc[c] \in {"act", "add"} => \A i \in Pending : heap[i] # job.at
  /\ pc[c] = "add" => irq.at # job.at
  /\ pc[c] = "store" => \A i \in Pending : heap[i] = job.at => i = job.id

IAlarm == raced \/ (ToneAlive /\ IKnown /\ ISeen)

Static == TypeOK /\ ICount /\ IMutex /\ IMap /\ IPlace

IInv == Static /\ IAlarm

-------------------------------------------------------------------------------
(* Types.                                                                      *)

LEMMA InitInv == Init => IInv
<1> SUFFICES ASSUME Init PROVE IInv
  OBVIOUS
<1>1. TypeOK
  <2>1. Blank \in Cell
    BY DEF Blank, Cell
  <2>2. tone \in [Address -> Cell] /\ toneMap \in [Pin -> Address \cup {0}]
    BY <2>1 DEF Init
  <2>3. job \in Job
    BY DEF Init, Job, NoJob, Want
  <2>4. Pending = {} /\ heap \in [Pending -> Address]
    BY DEF Init, Pending
  <2>5. pc \in [Caller -> Labels] /\ mutex \in Owners /\ free \in 0 .. Machines
    BY ToneAssumption DEF Init, Labels, Owners, ToneAssumption
  <2> QED
    BY <2>2, <2>3, <2>4, <2>5 DEF Init, TypeOK
<1>2. Live = {}
  BY DEF Init, Live, Blank
<1>3. ICount
  BY <1>2, FS_EmptySet, ToneAssumption DEF Init, ICount, ToneAssumption
<1>4. IMutex /\ IMap /\ IPlace
  BY DEF Init, IMutex, IMap, IPlace, Inside
<1>5. IAlarm
  BY DEF Init, IAlarm, ToneAlive, IKnown, ISeen, Pending
<1> QED
  BY <1>1, <1>3, <1>4, <1>5 DEF IInv, Static

LEMMA TonesFinite ==
  ASSUME NEW S \in SUBSET Address
  PROVE  IsFiniteSet(S) /\ Cardinality(S) \in Nat
  BY FS_Subset, FS_CardinalityType, ToneAssumption DEF ToneAssumption

\* What is inside is one caller, and it has a job.
LEMMA OneInside ==
  ASSUME Static, NEW c \in Caller, Inside(c)
  PROVE  /\ mutex # NoCore /\ \A d \in Caller \ {c} : pc[d] \in {"out", "enter"}
         /\ tone \in [Address -> Cell] /\ pc \in [Caller -> Labels]
         /\ toneMap \in [Pin -> Address \cup {0}] /\ job \in Job /\ 0 \notin Address
  BY ToneAssumption DEF Static, TypeOK, IMutex, Inside, ToneAssumption

\* A step that leaves tones, map and job alone, and takes no call further.
LEMMA QuietStatic ==
  ASSUME Static, TypeOK', UNCHANGED <<mutex, job, toneMap, free>>,
         \A t \in Address : tone'[t].live = tone[t].live,
         \A c \in Caller : pc'[c] = pc[c] \/ (~Inside(c) /\ pc'[c] \in {"out", "enter"})
  PROVE  Static'
<1>1. Live' = Live
  BY DEF Live
<1>2. ICount'
  BY <1>1 DEF Static, ICount
<1>3. IMutex'
  BY DEF Static, IMutex, Inside
<1>4. IMap'
  BY DEF Static, IMap, TypeOK
<1>5. IPlace'
  BY DEF Static, IPlace, HasTone, HasNone, Acts, TypeOK, Job, Inside
<1> QED
  BY <1>2, <1>3, <1>4, <1>5 DEF Static

LEMMA CallStatic ==
  ASSUME Static, NEW c \in Caller, Call(c)
  PROVE  Static'
<1>1. /\ pc[c] = "out" /\ pc' = [pc EXCEPT ![c] = "enter"]
      /\ UNCHANGED <<mutex, job, toneMap, tone, heap, irq, free, loaded, raced>>
  BY DEF Call, At, Goto
<1>2. TypeOK'
  BY <1>1 DEF Static, TypeOK, Labels, Pending
<1>3. \A d \in Caller : pc'[d] = pc[d] \/ (~Inside(d) /\ pc'[d] \in {"out", "enter"})
  BY <1>1 DEF Static, TypeOK, Inside
<1> QED
  BY <1>1, <1>2, <1>3, QuietStatic

LEMMA EnterRefusedStatic ==
  ASSUME Static, NEW c \in Caller, EnterRefused(c)
  PROVE  Static'
<1>1. /\ pc[c] = "enter" /\ pc' = [pc EXCEPT ![c] = "out"]
      /\ UNCHANGED <<mutex, job, toneMap, tone, heap, irq, free, loaded, raced>>
  BY DEF EnterRefused, At, Goto
<1>2. TypeOK'
  BY <1>1 DEF Static, TypeOK, Labels, Pending
<1>3. \A d \in Caller : pc'[d] = pc[d] \/ (~Inside(d) /\ pc'[d] \in {"out", "enter"})
  BY <1>1 DEF Static, TypeOK, Inside
<1> QED
  BY <1>1, <1>2, <1>3, QuietStatic

LEMMA EnterStatic ==
  ASSUME Static, NEW c \in Caller, NEW p \in Pin, NEW want \in Want, Enter(c, p, want)
  PROVE  Static'
<1>1. /\ pc[c] = "enter" /\ mutex = NoCore /\ mutex' = Core[c]
      /\ job' = [pin |-> p, want |-> want, at |-> toneMap[p], id |-> 0]
      /\ pc' = [pc EXCEPT ![c] = IF toneMap[p] # 0 THEN "find"
                                 ELSE IF want = "stop" THEN "leave" ELSE "new"]
      /\ UNCHANGED <<toneMap, tone, heap, irq, free, loaded, raced>>
  BY DEF Enter, At, Taken, Goto
<1>2. /\ \A d \in Caller \ {c} : pc'[d] = pc[d] /\ ~Inside(d)
      /\ pc' \in [Caller -> Labels] /\ mutex' \in Owners \ {NoCore}
  BY <1>1, ToneAssumption
  DEF Static, TypeOK, IMutex, Core, Owners, Cores, NoCore, Labels, ToneAssumption
<1>3. job' \in Job
  BY <1>1 DEF Job, Static, TypeOK
<1>4. TypeOK'
  BY <1>1, <1>2, <1>3 DEF Static, TypeOK, Pending
<1>5. IMutex'
  BY <1>2 DEF IMutex, Inside
<1>6. IMap' /\ ICount'
  BY <1>1 DEF Static, IMap, ICount, Live
<1>7. IPlace'
  <2>1. /\ job'.pin = p /\ job'.at = toneMap[p]
        /\ pc'[c] \in {"find", "leave", "new"} /\ (pc'[c] = "find" <=> toneMap[p] # 0)
    BY <1>1 DEF Static, TypeOK
  <2> QED
    BY <1>1, <1>2, <2>1 DEF IPlace, HasTone, HasNone, Inside
<1> QED
  BY <1>4, <1>5, <1>6, <1>7 DEF Static

LEMMA NewStatic ==
  ASSUME Static, NEW c \in Caller, New(c)
  PROVE  Static'
<1>1. /\ pc[c] = "new" /\ UNCHANGED <<mutex, toneMap, heap, irq, raced>>
      /\ free \in 0 .. Machines /\ Machines \in Nat
  BY ToneAssumption DEF New, At, Static, TypeOK, ToneAssumption
<1>2. /\ \A d \in Caller \ {c} : ~Inside(d)
      /\ mutex # NoCore /\ 0 \notin Address /\ job \in Job /\ tone \in [Address -> Cell]
  BY <1>1, OneInside DEF Inside
<1>3. CASE /\ pc' = [pc EXCEPT ![c] = "leave"] /\ UNCHANGED <<job, tone>>
           /\ free' \in {free, free - 1} /\ free' >= 0 /\ loaded' = loaded
  <2>1. TypeOK'
    BY <1>1, <1>3 DEF Static, TypeOK, Pending, Labels
  <2>2. ICount'
    <3>1. Live' = Live /\ Cardinality(Live) \in Nat
      BY <1>3, TonesFinite DEF Live
    <3> QED
      BY <1>1, <1>3, <3>1 DEF Static, ICount
  <2>3. \A d \in Caller \ {c} : pc'[d] = pc[d]
    BY <1>3 DEF Static, TypeOK
  <2>4. pc'[c] = "leave"
    BY <1>3 DEF Static, TypeOK
  <2>5. IMutex' /\ IPlace'
    BY <1>1, <1>2, <2>3, <2>4 DEF IMutex, IPlace, Inside
  <2>6. IMap'
    BY <1>1, <1>3 DEF Static, IMap
  <2> QED
    BY <2>1, <2>2, <2>5, <2>6 DEF Static
<1>4. ASSUME NEW t \in Address, ~tone[t].live, free > 0, free' = free - 1, loaded' = TRUE,
             tone' = [tone EXCEPT ![t] = [Blank EXCEPT !.live = TRUE]],
             job' = [job EXCEPT !.at = t], pc' = [pc EXCEPT ![c] = "act"]
      PROVE  Static'
  <2>1. /\ \A d \in Caller \ {c} : pc'[d] = pc[d]
        /\ pc'[c] = "act" /\ pc' \in [Caller -> Labels]
    BY <1>4 DEF Static, TypeOK, Labels
  <2>2. /\ tone'[t].live /\ \A s \in Address \ {t} : tone'[s] = tone[s]
        /\ tone' \in [Address -> Cell]
    BY <1>2, <1>4 DEF Blank, Cell
  <2>3. job' \in Job /\ job'.at = t /\ job'.pin = job.pin
    BY <1>2, <1>4 DEF Job
  <2>4. free' \in 0 .. Machines
    BY <1>1, <1>4
  <2>5. TypeOK'
    BY <1>1, <1>4, <2>1, <2>2, <2>3, <2>4 DEF Static, TypeOK, Pending
  <2>6. ICount'
    <3>1. Live' = Live \cup {t} /\ t \notin Live
      BY <1>4, <2>2 DEF Live
    <3>2. IsFiniteSet(Live) /\ Cardinality(Live) \in Nat
      BY TonesFinite DEF Live
    <3>3. Cardinality(Live') = Cardinality(Live) + 1
      BY <3>1, <3>2, FS_AddElement
    <3> QED
      BY <1>1, <1>4, <3>2, <3>3 DEF Static, ICount
  <2>7. IMutex'
    BY <1>1, <1>2, <2>1 DEF IMutex, Inside
  <2>8. \A p \in Pin : toneMap[p] # t /\ toneMap[p] \in Address \cup {0}
    BY <1>2, <1>4 DEF Static, IMap, TypeOK
  <2>9. IMap'
    BY <1>1, <2>2, <2>8 DEF Static, IMap
  <2>10. IPlace'
    <3>1. job.pin \in Pin /\ toneMap[job.pin] = 0
      BY <1>1 DEF Static, IPlace, HasNone
    <3>2. \A d \in Caller \ {c} : pc'[d] \in {"out", "enter"}
      BY <1>2, <2>1 DEF Inside
    <3>3. /\ job'.pin \in Pin /\ job'.at # 0 /\ tone'[job'.at].live
          /\ toneMap'[job'.pin] = 0 /\ \A q \in Pin : toneMap'[q] # job'.at
      BY <1>1, <1>2, <2>2, <2>3, <2>8, <3>1
    <3>4. Acts'
      BY <3>3 DEF Acts
    <3> QED
      BY <2>1, <3>2, <3>4 DEF IPlace
  <2> QED
    BY <2>5, <2>6, <2>7, <2>9, <2>10 DEF Static
<1> QED
  <2>1. CASE free = 0 /\ Goto(c, "leave") /\ UNCHANGED <<job, tone, free, loaded>>
    BY <1>1, <1>3, <2>1 DEF Goto
  <2>2. CASE /\ free > 0 /\ ~loaded /\ free' = free - 1 /\ Goto(c, "leave")
             /\ UNCHANGED <<job, tone, loaded>>
    BY <1>1, <1>3, <2>2 DEF Goto
  <2>3. CASE /\ free > 0 /\ free' = free - 1 /\ loaded' = TRUE
             /\ \E t \in Address :
                  /\ ~tone[t].live /\ tone' = [tone EXCEPT ![t] = [Blank EXCEPT !.live = TRUE]]
                  /\ job' = [job EXCEPT !.at = t]
             /\ Goto(c, "act")
    BY <1>4, <2>3 DEF Goto
  <2> QED
    BY <2>1, <2>2, <2>3 DEF New

\* A step of the one inside that neither makes nor deletes a Tone.
LEMMA MovesStatic ==
  ASSUME Static, NEW c \in Caller, Inside(c), TypeOK', mutex' = mutex, free' = free,
         NEW l \in Labels, pc' = [pc EXCEPT ![c] = l],
         \A t \in Address : tone'[t].live = tone[t].live, IMap',
         l \in {"find", "cancel", "add", "store"} => HasTone',
         l # "new", l = "act" => Acts'
  PROVE  Static'
<1>1. Live' = Live
  BY DEF Live
<1>2. ICount'
  BY <1>1 DEF Static, ICount
<1>3. /\ pc'[c] = l
      /\ \A d \in Caller \ {c} : pc'[d] = pc[d] /\ pc[d] \in {"out", "enter"}
  BY OneInside DEF Static, TypeOK
<1>4. IMutex'
  BY <1>3, OneInside DEF IMutex, Inside
<1>5. IPlace'
  BY <1>3 DEF IPlace
<1> QED
  BY <1>2, <1>4, <1>5 DEF Static

\* Steps of the one inside that change neither the map nor the job's Tone.
LEMMA SameMap ==
  ASSUME Static, UNCHANGED toneMap, \A t \in Address : tone'[t].live = tone[t].live
  PROVE  IMap'
  BY DEF Static, IMap, TypeOK

LEMMA HasToneActs ==
  ASSUME Static, HasTone
  PROVE  Acts
  BY DEF Static, IMap, HasTone, Acts

LEMMA FindStatic ==
  ASSUME Static, NEW c \in Caller, Find(c)
  PROVE  Static'
<1>1. /\ pc[c] = "find" /\ job' = [job EXCEPT !.id = tone[job.at].alarm]
      /\ UNCHANGED <<mutex, toneMap, tone, heap, irq, free, loaded, raced>>
  BY DEF Find, At
<1>2. PICK l \in {"act", "cancel"} : pc' = [pc EXCEPT ![c] = l]
  BY DEF Find, Goto
<1>3. HasTone /\ Inside(c)
  BY <1>1 DEF Static, IPlace, Inside
<1>4. job.at \in Address /\ job \in Job /\ tone[job.at].alarm \in Alarm \cup {0}
  BY <1>3 DEF Static, TypeOK, Job, HasTone, Cell
<1>5. job' \in Job /\ job'.at = job.at /\ job'.pin = job.pin
  BY <1>1, <1>4 DEF Job
<1>6. TypeOK'
  BY <1>1, <1>2, <1>5 DEF Static, TypeOK, Labels, Pending
<1>7. HasTone' /\ Acts'
  BY <1>1, <1>3, <1>5, HasToneActs DEF HasTone, Acts
<1>8. l \in Labels /\ l # "new"
  BY <1>2 DEF Labels
<1> QED
  BY <1>1, <1>2, <1>3, <1>6, <1>7, <1>8, SameMap, MovesStatic

LEMMA CancelStatic ==
  ASSUME Static, NEW c \in Caller, Cancel(c)
  PROVE  Static'
<1>1. /\ pc[c] = "cancel" /\ pc' = [pc EXCEPT ![c] = "act"]
      /\ heap' = Without(job.id) /\ tone' = [tone EXCEPT ![job.at].alarm = 0]
      /\ UNCHANGED <<mutex, job, toneMap, irq, free, loaded, raced>>
  BY DEF Cancel, At, Goto
<1>2. HasTone /\ Inside(c)
  BY <1>1 DEF Static, IPlace, Inside
<1>3. tone' \in [Address -> Cell] /\ \A t \in Address : tone'[t].live = tone[t].live
  BY <1>1, ZenonT(30) DEF Static, TypeOK, Cell
<1>4. Pending' \subseteq Alarm /\ heap' \in [Pending' -> Address]
  BY <1>1 DEF Static, TypeOK, Without, Pending
<1>5. TypeOK'
  BY <1>1, <1>3, <1>4 DEF Static, TypeOK, Labels
<1>6. Acts'
  <2>1. Acts /\ job.at \in Address
    BY <1>2, HasToneActs DEF Static, TypeOK, Job, HasTone
  <2> QED
    BY <1>1, <1>3, <2>1 DEF Acts
<1>7. "act" \in Labels
  BY DEF Labels
<1> QED
  BY <1>1, <1>2, <1>3, <1>5, <1>6, <1>7, SameMap, MovesStatic

\* The memory y differs from x in flags only.
SameBut(x, y) == /\ y \in [Address -> Cell]
                 /\ \A u \in Address : y[u].live = x[u].live /\ y[u].alarm = x[u].alarm

LEMMA FlagSet ==
  ASSUME NEW x \in [Address -> Cell], NEW t, NEW b \in BOOLEAN,
         NEW y, y = [x EXCEPT ![t].on = b] \/ y = [x EXCEPT ![t].timed = b]
  PROVE  SameBut(x, y)
<1>1. ASSUME NEW m \in Cell
      PROVE  /\ [m EXCEPT !.on = b] \in Cell /\ [m EXCEPT !.timed = b] \in Cell
             /\ [m EXCEPT !.on = b].live = m.live /\ [m EXCEPT !.timed = b].live = m.live
             /\ [m EXCEPT !.on = b].alarm = m.alarm /\ [m EXCEPT !.timed = b].alarm = m.alarm
  BY DEF Cell
<1> DEFINE z(m) == IF y = [x EXCEPT ![t].on = b] THEN [m EXCEPT !.on = b]
                                                 ELSE [m EXCEPT !.timed = b]
<1>2. y = [x EXCEPT ![t] = z(x[t])]
  OBVIOUS
<1>3. \A m \in Cell : z(m) \in Cell /\ z(m).live = m.live /\ z(m).alarm = m.alarm
  BY <1>1
<1> HIDE DEF z
<1>4. \A u \in Address : x[u] \in Cell /\ y[u] = IF u = t THEN z(x[u]) ELSE x[u]
  BY <1>2
<1>5. y \in [Address -> Cell]
  BY <1>2, <1>3
<1> QED
  BY <1>3, <1>4, <1>5 DEF SameBut

LEMMA Flags ==
  ASSUME NEW x \in [Address -> Cell], NEW t, NEW b \in BOOLEAN
  PROVE  SameBut(x, [x EXCEPT ![t].on = b]) /\ SameBut(x, [x EXCEPT ![t].timed = b])
  BY FlagSet, Zenon

LEMMA StartStatic ==
  ASSUME Static, NEW c \in Caller, Start(c)
  PROVE  Static'
<1>1. /\ pc[c] = "act" /\ toneMap' = [toneMap EXCEPT ![job.pin] = job.at]
      /\ tone' = [tone EXCEPT ![job.at].on = TRUE, ![job.at].timed = job.want = "timed"]
      /\ raced' = (raced \/ irq.at = job.at)
      /\ UNCHANGED <<mutex, job, heap, irq, free, loaded>>
  BY DEF Start, At
<1>2. PICK l \in {"add", "leave"} : pc' = [pc EXCEPT ![c] = l]
  BY DEF Start, Goto
<1>3. Acts /\ Inside(c) /\ job.at \in Address
  BY <1>1 DEF Static, IPlace, Inside, Acts, TypeOK, Job
<1>4. tone' \in [Address -> Cell] /\ \A t \in Address : tone'[t].live = tone[t].live
  <2> DEFINE x == [tone EXCEPT ![job.at].on = TRUE]
  <2>1. SameBut(tone, x)
    BY Flags, Zenon DEF Static, TypeOK
  <2>2. PICK b \in BOOLEAN : tone' = [x EXCEPT ![job.at].timed = b]
    BY <1>1
  <2> HIDE DEF x
  <2>3. SameBut(x, tone')
    <3>1. x \in [Address -> Cell]
      BY <2>1 DEF SameBut
    <3>2. SameBut(x, [x EXCEPT ![job.at].timed = b])
      BY <3>1, Flags, Zenon
    <3> QED
      BY <2>2, <3>2, Zenon
  <2> QED
    BY <2>1, <2>3 DEF SameBut
<1>5. /\ toneMap' \in [Pin -> Address \cup {0}] /\ toneMap'[job.pin] = job.at
      /\ \A q \in Pin \ {job.pin} : toneMap'[q] = toneMap[q]
  BY <1>1, <1>3 DEF Static, TypeOK, Acts
<1>6. TypeOK'
  <2>1. raced' \in BOOLEAN
    BY <1>1 DEF Static, TypeOK
  <2> QED
    BY <1>1, <1>2, <1>4, <1>5, <2>1 DEF Static, TypeOK, Labels, Pending
<1>7. IMap'
  <2>1. \A p \in Pin : toneMap'[p] # 0 => tone'[toneMap'[p]].live
    BY <1>3, <1>4, <1>5 DEF Static, IMap, Acts, TypeOK
  <2>2. \A p, q \in Pin : toneMap'[p] # 0 /\ toneMap'[p] = toneMap'[q] => p = q
    BY <1>3, <1>5 DEF Static, IMap, Acts
  <2> QED
    BY <2>1, <2>2 DEF IMap
<1>8. HasTone'
  BY <1>1, <1>3, <1>5 DEF HasTone, Acts
<1>9. l \in Labels /\ l # "new" /\ l # "act"
  BY <1>2 DEF Labels
<1> QED
  BY <1>1, <1>2, <1>3, <1>4, <1>6, <1>7, <1>8, <1>9, MovesStatic

LEMMA DeleteStatic ==
  ASSUME Static, NEW c \in Caller, Delete(c)
  PROVE  Static'
<1>1. /\ pc[c] = "act" /\ toneMap' = [toneMap EXCEPT ![job.pin] = 0]
      /\ tone' = [tone EXCEPT ![job.at] = Blank] /\ free' = free + 1
      /\ raced' = (raced \/ irq.at = job.at) /\ pc' = [pc EXCEPT ![c] = "leave"]
      /\ UNCHANGED <<mutex, job, heap, irq, loaded>>
  BY DEF Delete, At, Goto
<1>2. Acts /\ Inside(c) /\ job.at \in Address
  BY <1>1 DEF Static, IPlace, Inside, Acts, TypeOK, Job
<1>3. /\ tone' \in [Address -> Cell] /\ ~tone'[job.at].live
      /\ \A t \in Address \ {job.at} : tone'[t] = tone[t]
  BY <1>1, <1>2 DEF Static, TypeOK, Cell, Blank
<1>4. /\ toneMap' \in [Pin -> Address \cup {0}] /\ toneMap'[job.pin] = 0
      /\ \A q \in Pin \ {job.pin} : toneMap'[q] = toneMap[q]
  BY <1>1, <1>2 DEF Static, TypeOK, Acts
<1>5. ICount' /\ free' \in 0 .. Machines
  <2>1. Live' = Live \ {job.at} /\ job.at \in Live
    BY <1>2, <1>3 DEF Live, Acts
  <2>2. IsFiniteSet(Live) /\ Cardinality(Live) \in Nat /\ Cardinality(Live') \in Nat
    BY <2>1, TonesFinite DEF Live
  <2>3. Cardinality(Live') = Cardinality(Live) - 1
    BY <2>1, <2>2, FS_RemoveElement
  <2> QED
    BY <1>1, <2>2, <2>3, ToneAssumption DEF Static, TypeOK, ICount, ToneAssumption
<1>6. TypeOK'
  <2>1. raced' \in BOOLEAN
    BY <1>1 DEF Static, TypeOK
  <2> QED
    BY <1>1, <1>3, <1>4, <1>5, <2>1 DEF Static, TypeOK, Labels, Pending
<1>7. IMap'
  <2>1. \A p \in Pin : toneMap'[p] # 0 => tone'[toneMap'[p]].live
    BY <1>2, <1>3, <1>4 DEF Static, IMap, Acts, TypeOK
  <2>2. \A p, q \in Pin : toneMap'[p] # 0 /\ toneMap'[p] = toneMap'[q] => p = q
    BY <1>2, <1>4 DEF Static, IMap, Acts
  <2> QED
    BY <2>1, <2>2 DEF IMap
<1>8. /\ pc'[c] = "leave"
      /\ \A d \in Caller \ {c} : pc'[d] = pc[d] /\ pc[d] \in {"out", "enter"}
  BY <1>1, <1>2, OneInside DEF Static, TypeOK
<1>9. IMutex' /\ IPlace'
  BY <1>1, <1>2, <1>8, OneInside DEF IMutex, IPlace, Inside
<1> QED
  BY <1>5, <1>6, <1>7, <1>9 DEF Static

LEMMA AddStatic ==
  ASSUME Static, NEW c \in Caller, Add(c)
  PROVE  Static'
<1>1. /\ pc[c] = "add" /\ pc' = [pc EXCEPT ![c] = "store"]
      /\ UNCHANGED <<mutex, toneMap, tone, irq, free, loaded, raced>>
  BY DEF Add, At, Goto
<1>2. PICK id \in FreshIds :
        /\ heap' = [i \in Pending \cup {id} |-> IF i = id THEN job.at ELSE heap[i]]
        /\ job' = [job EXCEPT !.id = id]
  BY DEF Add
<1>3. HasTone /\ Inside(c) /\ job.at \in Address /\ id \in Alarm
  BY <1>1, <1>2 DEF Static, IPlace, Inside, HasTone, TypeOK, Job, FreshIds
<1>4. job' \in Job /\ job'.at = job.at /\ job'.pin = job.pin
  BY <1>2, <1>3 DEF Static, TypeOK, Job
<1>5. Pending' = Pending \cup {id} /\ heap' \in [Pending' -> Address] /\ Pending' \subseteq Alarm
  BY <1>2, <1>3 DEF Static, TypeOK, Pending
<1>6. TypeOK'
  BY <1>1, <1>4, <1>5 DEF Static, TypeOK, Labels
<1>7. HasTone'
  BY <1>1, <1>3, <1>4 DEF HasTone
<1>8. "store" \in Labels
  BY DEF Labels
<1> QED
  BY <1>1, <1>3, <1>6, <1>7, <1>8, SameMap, MovesStatic

\* The ends of tone(): only fields of the Tone change.
LEMMA EndStatic ==
  ASSUME Static, NEW c \in Caller, AddMissed(c) \/ AddFailed(c) \/ Store(c)
  PROVE  Static'
<1>1. /\ pc[c] \in {"add", "store"} /\ pc' = [pc EXCEPT ![c] = "leave"]
      /\ UNCHANGED <<mutex, job, toneMap, heap, irq, free, loaded, raced>>
  BY DEF AddMissed, AddFailed, Store, At, Goto
<1>2. Inside(c)
  BY <1>1 DEF Inside
<1>3. tone' \in [Address -> Cell] /\ \A t \in Address : tone'[t].live = tone[t].live
  <2>1. CASE AddMissed(c)
    <3>1. \A m \in Cell : Missed(m) \in Cell /\ Missed(m).live = m.live
      BY DEF Missed, Cell
    <3>2. tone' = [tone EXCEPT ![job.at] = Missed(tone[job.at])]
      BY <2>1 DEF AddMissed
    <3> QED
      BY <3>1, <3>2 DEF Static, TypeOK
  <2>2. CASE AddFailed(c)
    <3>1. SameBut(tone, tone')
      BY <2>2, Flags, Zenon DEF AddFailed, Static, TypeOK
    <3> QED
      BY <3>1 DEF SameBut
  <2>3. CASE Store(c)
    <3>1. tone' = [tone EXCEPT ![job.at].alarm = job.id] /\ job.id \in Alarm \cup {0}
      BY <2>3 DEF Store, Static, TypeOK, Job
    <3> QED
      BY <3>1, ZenonT(30) DEF Static, TypeOK, Cell
  <2> QED
    BY <2>1, <2>2, <2>3
<1>4. TypeOK'
  BY <1>1, <1>3 DEF Static, TypeOK, Labels, Pending
<1>5. "leave" \in Labels
  BY DEF Labels
<1> QED
  BY <1>1, <1>2, <1>3, <1>4, <1>5, SameMap, MovesStatic

LEMMA LeaveStatic ==
  ASSUME Static, NEW c \in Caller, Leave(c)
  PROVE  Static'
<1>1. /\ pc[c] = "leave" /\ pc' = [pc EXCEPT ![c] = "out"] /\ mutex' = NoCore
      /\ job' = NoJob /\ UNCHANGED <<toneMap, tone, heap, irq, free, loaded, raced>>
  BY DEF Leave, At, Goto
<1>2. \A d \in Caller : pc'[d] \in {"out", "enter"}
  BY <1>1, OneInside DEF Inside
<1>3. TypeOK'
  <2>1. NoJob \in Job /\ NoCore \in Owners
    BY DEF NoJob, Job, Want, Owners
  <2> QED
    BY <1>1, <2>1 DEF Static, TypeOK, Labels, Pending
<1>4. IMutex' /\ IPlace'
  BY <1>2 DEF IMutex, IPlace, Inside
<1>5. IMap' /\ ICount'
  BY <1>1 DEF Static, IMap, ICount, Live
<1> QED
  BY <1>3, <1>4, <1>5 DEF Static

LEMMA FireStatic ==
  ASSUME Static, NEW id \in Alarm, Fire(id)
  PROVE  Static'
<1>1. /\ id \in Pending /\ heap' = Without(id)
      /\ irq' = [id |-> id, at |-> heap[id], pc |-> "alarm"]
      /\ UNCHANGED <<mutex, pc, job, toneMap, tone, free, loaded, raced>>
  BY DEF Fire
<1>2. Pending' \subseteq Alarm /\ heap' \in [Pending' -> Address]
  BY <1>1 DEF Static, TypeOK, Without, Pending
<1>3. TypeOK'
  BY <1>1, <1>2 DEF Static, TypeOK
<1> QED
  BY <1>1, <1>3, QuietStatic

LEMMA CallbackStatic ==
  ASSUME Static, StopAlarm \/ StopTone
  PROVE  Static'
<1>1. UNCHANGED <<mutex, pc, job, toneMap, heap, free, loaded, raced>>
  BY DEF StopAlarm, StopTone
<1>2. irq \in [id : Alarm, at : Address, pc : {"alarm", "stop"}]
  BY DEF StopAlarm, StopTone, Static, TypeOK, Idle
<1>3. irq' = Idle \/ irq' \in [id : Alarm, at : Address, pc : {"alarm", "stop"}]
  BY <1>2 DEF StopAlarm, StopTone
<1>4. tone' \in [Address -> Cell] /\ \A t \in Address : tone'[t].live = tone[t].live
  <2>1. CASE StopAlarm
    BY <2>1, ZenonT(30) DEF StopAlarm, Static, TypeOK, Cell
  <2>2. CASE StopTone
    <3>1. SameBut(tone, tone')
      BY <2>2, Flags, Zenon DEF StopTone, Static, TypeOK
    <3> QED
      BY <3>1 DEF SameBut
  <2> QED
    BY <2>1, <2>2
<1>5. TypeOK'
  BY <1>1, <1>3, <1>4 DEF Static, TypeOK, Pending
<1> QED
  BY <1>1, <1>4, <1>5, QuietStatic

LEMMA StepStatic ==
  ASSUME Static, [Next]_vars
  PROVE  Static'
<1>1. CASE UNCHANGED vars
  <2>1. TypeOK'
    BY <1>1 DEF vars, Static, TypeOK, Pending
  <2> QED
    BY <1>1, <2>1, QuietStatic DEF vars
<1>2. ASSUME NEW c \in Caller, Step(c)
      PROVE  Static'
  BY <1>2, EnterStatic, EnterRefusedStatic, NewStatic, FindStatic, CancelStatic,
     StartStatic, DeleteStatic, AddStatic, EndStatic, LeaveStatic DEF Step
<1> QED
  BY <1>1, <1>2, CallStatic, FireStatic, CallbackStatic DEF Next

-------------------------------------------------------------------------------
(* Alarms and their Tones, as long as no callback met core 1 on its Tone.      *)

Fine == ~raced /\ ToneAlive /\ IKnown /\ ISeen

Calm == {"out", "enter", "find", "new", "leave"}

\* What a Tone that is live, or awaited by an alarm, has kept.
Kept == /\ \A t \in Address : tone[t].live => tone'[t].live
        /\ \A i \in Pending : tone'[heap[i]].alarm = tone[heap[i]].alarm

LEMMA CellOf ==
  ASSUME TypeOK
  PROVE  /\ \A i \in Pending : heap[i] \in Address /\ i \in Alarm /\ i # 0
         /\ irq # Idle => irq.at \in Address /\ irq.id \in Alarm
         /\ Idle.at = 0 /\ 0 \notin Address /\ 0 \notin Alarm
  BY ToneAssumption DEF TypeOK, ToneAssumption, Idle

\* No caller sees or stores an alarm, before and after.
LEMMA CalmFine ==
  ASSUME Static, Fine, ~raced', UNCHANGED <<heap, irq>>, Kept,
         \A d \in Caller : pc'[d] \in Calm /\ pc[d] # "store"
  PROVE  Fine'
<1>1. Pending' = Pending
  BY DEF Pending
<1>2. ToneAlive'
  BY <1>1, CellOf DEF Static, Fine, ToneAlive, Kept
<1>3. IKnown'
  BY <1>1 DEF Fine, IKnown, Kept
<1>4. ISeen'
  BY DEF ISeen, Calm
<1> QED
  BY <1>2, <1>3, <1>4 DEF Fine

\* The one inside takes a step that sees and stores no alarm.
LEMMA CalmStep ==
  ASSUME Static, Fine, ~raced', UNCHANGED <<heap, irq>>, Kept,
         NEW c \in Caller, Inside(c), pc[c] # "store",
         NEW l \in Calm, pc' = [pc EXCEPT ![c] = l]
  PROVE  Fine'
<1>1. \A d \in Caller : pc'[d] \in Calm /\ pc[d] # "store"
  BY OneInside DEF Calm
<1> QED
  BY <1>1, CalmFine

LEMMA OutsideFine ==
  ASSUME Static, Fine, NEW c \in Caller, Call(c) \/ EnterRefused(c)
  PROVE  Fine'
<1>1. /\ pc[c] \in {"out", "enter"} /\ UNCHANGED <<job, tone, heap, irq, raced>>
      /\ \E l \in {"out", "enter"} : pc' = [pc EXCEPT ![c] = l]
  BY DEF Call, EnterRefused, At, Goto
<1>2. \A d \in Caller : pc'[d] = pc[d] \/ (d = c /\ pc'[d] \in {"out", "enter"})
  BY <1>1 DEF Static, TypeOK
<1>3. Pending' = Pending
  BY <1>1 DEF Pending
<1>4. ToneAlive'
  BY <1>1, <1>3 DEF Fine, ToneAlive
<1>5. IKnown'
  <2>1. \A d \in Caller : pc[d] = "store" => pc'[d] = "store"
    BY <1>1, <1>2
  <2> QED
    BY <1>1, <1>3, <2>1 DEF Fine, IKnown
<1>6. ISeen'
  BY <1>1, <1>2, <1>3 DEF Fine, ISeen
<1> QED
  BY <1>1, <1>4, <1>5, <1>6 DEF Fine

LEMMA EnterFine ==
  ASSUME Static, Fine, NEW c \in Caller, NEW p \in Pin, NEW want \in Want, Enter(c, p, want)
  PROVE  Fine'
<1>1. /\ pc[c] = "enter" /\ mutex = NoCore /\ UNCHANGED <<tone, heap, irq, raced>>
      /\ \E l \in {"find", "new", "leave"} : pc' = [pc EXCEPT ![c] = l]
  BY DEF Enter, At, Taken, Goto
<1>2. \A d \in Caller : pc'[d] \in Calm /\ pc[d] # "store"
  BY <1>1 DEF Static, TypeOK, IMutex, Inside, Calm
<1>3. Kept /\ ~raced'
  BY <1>1 DEF Kept, Fine
<1> QED
  BY <1>1, <1>2, <1>3, CalmFine

LEMMA LeaveFine ==
  ASSUME Static, Fine, NEW c \in Caller, Leave(c)
  PROVE  Fine'
<1>1. /\ pc[c] = "leave" /\ pc' = [pc EXCEPT ![c] = "out"]
      /\ UNCHANGED <<tone, heap, irq, raced>>
  BY DEF Leave, At, Goto
<1>2. Kept /\ ~raced' /\ Inside(c) /\ "out" \in Calm
  BY <1>1 DEF Kept, Fine, Inside, Calm
<1> QED
  BY <1>1, <1>2, CalmStep

LEMMA NewFine ==
  ASSUME Static, Fine, NEW c \in Caller, New(c)
  PROVE  Fine'
<1>1. pc[c] = "new" /\ UNCHANGED <<heap, irq, raced>> /\ Inside(c)
  BY DEF New, At, Inside
<1>2. CASE pc' = [pc EXCEPT ![c] = "leave"] /\ tone' = tone
  <2>1. Kept /\ ~raced' /\ "leave" \in Calm
    BY <1>1, <1>2 DEF Kept, Fine, Calm
  <2> QED
    BY <1>1, <1>2, <2>1, CalmStep
<1>3. ASSUME NEW t \in Address, ~tone[t].live, pc' = [pc EXCEPT ![c] = "act"],
             tone' = [tone EXCEPT ![t] = [Blank EXCEPT !.live = TRUE]],
             job' = [job EXCEPT !.at = t]
      PROVE  Fine'
  <2>1. /\ \A d \in Caller \ {c} : pc'[d] \in Calm
        /\ \A d \in Caller : pc[d] # "store"
        /\ pc'[c] = "act" /\ job'.at = t
    BY <1>1, <1>3, OneInside DEF Calm, Job
  <2>2. Pending' = Pending /\ \A i \in Pending : heap[i] # t
    BY <1>1, <1>3 DEF Pending, Fine, ToneAlive
  <2>3. tone'[t].live /\ \A s \in Address \ {t} : tone'[s] = tone[s]
    BY <1>3 DEF Static, TypeOK, Blank
  <2>4. ToneAlive'
    BY <1>1, <1>3, <2>2, <2>3, CellOf DEF Static, Fine, ToneAlive
  <2>5. IKnown'
    BY <1>1, <2>1, <2>2, <2>3, CellOf DEF Static, Fine, IKnown
  <2>6. ISeen'
    BY <1>1, <2>1, <2>2 DEF ISeen, Calm
  <2> QED
    BY <1>1, <2>4, <2>5, <2>6 DEF Fine
<1> QED
  BY <1>2, <1>3 DEF New, Goto

LEMMA FindFine ==
  ASSUME Static, Fine, NEW c \in Caller, Find(c)
  PROVE  Fine'
<1>1. /\ pc[c] = "find" /\ job' = [job EXCEPT !.id = tone[job.at].alarm]
      /\ pc' = [pc EXCEPT ![c] = IF NoAlarm THEN "act" ELSE "cancel"]
      /\ UNCHANGED <<tone, heap, irq, raced>> /\ Inside(c)
  BY DEF Find, At, Goto, Inside
<1>2. /\ job'.at = job.at /\ job'.id = tone[job.at].alarm
      /\ \A d \in Caller : pc[d] # "store"
      /\ \A d \in Caller \ {c} : pc'[d] \in Calm
      /\ pc'[c] = IF NoAlarm THEN "act" ELSE "cancel"
  BY <1>1, OneInside DEF Job, Calm
<1>3. Pending' = Pending
  BY <1>1 DEF Pending
<1>4. ToneAlive' /\ IKnown'
  BY <1>1, <1>2, <1>3 DEF Fine, ToneAlive, IKnown
<1>5. NoAlarm => \A i \in Pending : heap[i] # job.at
  BY <1>2, CellOf DEF Static, Fine, IKnown, NoAlarm
<1>6. ISeen'
  BY <1>1, <1>2, <1>3, <1>5 DEF ISeen, Calm
<1> QED
  BY <1>1, <1>4, <1>6 DEF Fine

LEMMA CancelFine ==
  ASSUME Static, Fine, NEW c \in Caller, Cancel(c)
  PROVE  Fine'
<1>1. /\ pc[c] = "cancel" /\ pc' = [pc EXCEPT ![c] = "act"]
      /\ heap' = Without(job.id) /\ tone' = [tone EXCEPT ![job.at].alarm = 0]
      /\ UNCHANGED <<job, irq, raced>> /\ Inside(c)
  BY DEF Cancel, At, Goto, Inside
<1>2. \A d \in Caller : pc[d] # "store"
  BY <1>1, OneInside
<1>3. \A d \in Caller \ {c} : pc'[d] \in Calm
  BY <1>1, OneInside DEF Calm
<1>4. pc'[c] = "act"
  BY <1>1 DEF Static, TypeOK
<1>5. Pending' = Pending \ {job.id} /\ \A i \in Pending' : heap'[i] = heap[i]
  BY <1>1 DEF Without, Pending
<1>6. \A i \in Pending' : heap[i] # job.at
  <2>1. tone[job.at].alarm \in {0, job.id}
    BY <1>1 DEF Fine, ISeen
  <2> QED
    BY <1>2, <1>5, <2>1, CellOf DEF Static, Fine, IKnown
<1>7. /\ \A t \in Address : tone'[t].live = tone[t].live
      /\ \A t \in Address \ {job.at} : tone'[t].alarm = tone[t].alarm
  BY <1>1 DEF Static, TypeOK, Cell
<1>8. ToneAlive'
  BY <1>1, <1>5, <1>7, CellOf DEF Static, Fine, ToneAlive
<1>9. IKnown'
  BY <1>1, <1>2, <1>5, <1>6, <1>7, CellOf DEF Static, Fine, IKnown
<1>10. ISeen'
  BY <1>1, <1>3, <1>4, <1>5, <1>6 DEF ISeen, Calm
<1> QED
  BY <1>1, <1>8, <1>9, <1>10 DEF Fine

LEMMA StartFine ==
  ASSUME Static, Static', Fine, ~raced', NEW c \in Caller, Start(c)
  PROVE  Fine'
<1>1. /\ pc[c] = "act" /\ irq.at # job.at /\ Inside(c)
      /\ tone' = [tone EXCEPT ![job.at].on = TRUE, ![job.at].timed = job.want = "timed"]
      /\ UNCHANGED <<job, heap, irq>>
      /\ \E l \in {"add", "leave"} : pc' = [pc EXCEPT ![c] = l]
  BY DEF Start, At, Goto, Inside
<1>2. /\ \A d \in Caller \ {c} : pc'[d] \in Calm
      /\ \A d \in Caller : pc[d] # "store"
      /\ pc'[c] \in {"add", "leave"}
  BY <1>1, OneInside DEF Calm
<1>3. \A t \in Address : tone'[t].live = tone[t].live /\ tone'[t].alarm = tone[t].alarm
  <2> DEFINE x == [tone EXCEPT ![job.at].on = TRUE]
  <2>1. SameBut(tone, x)
    BY Flags, Zenon DEF Static, TypeOK
  <2>2. PICK b \in BOOLEAN : tone' = [x EXCEPT ![job.at].timed = b]
    BY <1>1
  <2> HIDE DEF x
  <2>3. x \in [Address -> Cell]
    BY <2>1 DEF SameBut
  <2>4. SameBut(x, [x EXCEPT ![job.at].timed = b])
    BY <2>3, Flags, Zenon
  <2>5. SameBut(x, tone')
    BY <2>2, <2>4, Zenon
  <2> QED
    BY <2>1, <2>5 DEF SameBut
<1>4. Pending' = Pending
  BY <1>1 DEF Pending
<1>5. ToneAlive'
  BY <1>1, <1>3, <1>4, CellOf DEF Static, Fine, ToneAlive
<1>6. IKnown'
  <2>1. \A i \in Pending : tone[heap[i]].alarm = i
    BY <1>2 DEF Fine, IKnown
  <2>2. \A i \in Pending : tone'[heap[i]].alarm = i
    BY <1>3, <2>1, CellOf DEF Static
  <2> QED
    BY <1>1, <1>4, <2>2 DEF Fine, IKnown
<1>7. ISeen'
  BY <1>1, <1>2, <1>4 DEF Fine, ISeen, Calm
<1> QED
  BY <1>5, <1>6, <1>7 DEF Fine

LEMMA DeleteFine ==
  ASSUME Static, Fine, ~raced', NEW c \in Caller, Delete(c)
  PROVE  Fine'
<1>1. /\ pc[c] = "act" /\ irq.at # job.at /\ Inside(c)
      /\ tone' = [tone EXCEPT ![job.at] = Blank] /\ UNCHANGED <<heap, irq>>
      /\ pc' = [pc EXCEPT ![c] = "leave"]
  BY DEF Delete, At, Goto, Inside
<1>2. \A d \in Caller : pc'[d] \in Calm /\ pc[d] # "store"
  BY <1>1, OneInside DEF Calm
<1>3. \A i \in Pending : heap[i] # job.at
  BY <1>1 DEF Fine, ISeen
<1>4. \A t \in Address \ {job.at} : tone'[t] = tone[t]
  BY <1>1 DEF Static, TypeOK
<1>5. Pending' = Pending
  BY <1>1 DEF Pending
<1>6. ToneAlive'
  BY <1>1, <1>3, <1>4, <1>5, CellOf DEF Static, Fine, ToneAlive
<1>7. IKnown'
  BY <1>1, <1>2, <1>3, <1>4, <1>5, CellOf DEF Static, Fine, IKnown
<1>8. ISeen'
  BY <1>2 DEF ISeen, Calm
<1> QED
  BY <1>6, <1>7, <1>8 DEF Fine

LEMMA AddFine ==
  ASSUME Static, Fine, NEW c \in Caller, Add(c)
  PROVE  Fine'
<1>1. /\ pc[c] = "add" /\ pc' = [pc EXCEPT ![c] = "store"] /\ Inside(c)
      /\ UNCHANGED <<tone, irq, raced, toneMap>>
  BY DEF Add, At, Goto, Inside
<1>2. PICK id \in FreshIds :
        /\ heap' = [i \in Pending \cup {id} |-> IF i = id THEN job.at ELSE heap[i]]
        /\ job' = [job EXCEPT !.id = id]
  BY DEF Add
<1>3. /\ Pending' = Pending \cup {id} /\ id \notin Pending /\ heap'[id] = job.at
      /\ \A i \in Pending : heap'[i] = heap[i]
  BY <1>2 DEF Pending, FreshIds
<1>4. job'.id = id /\ job'.at = job.at
  BY <1>1, <1>2, OneInside DEF Job
<1>5. /\ \A d \in Caller \ {c} : pc'[d] \in Calm
      /\ \A d \in Caller : pc[d] # "store"
      /\ pc'[c] = "store"
  BY <1>1, OneInside DEF Calm
<1>6. /\ tone[job.at].live /\ irq.at # job.at
      /\ \A i \in Pending : heap[i] # job.at
  <2>1. HasTone
    BY <1>1 DEF Static, IPlace
  <2>2. Acts
    BY <2>1, HasToneActs
  <2> QED
    BY <1>1, <2>2 DEF Fine, ISeen, Acts
<1>7. ToneAlive'
  BY <1>1, <1>3, <1>6 DEF Fine, ToneAlive
<1>8. IKnown'
  <2>1. \A i, j \in Pending' : heap'[i] = heap'[j] => i = j
    BY <1>3, <1>6 DEF Fine, IKnown
  <2>2. \A i \in Pending' : \/ tone'[heap'[i]].alarm = i
                           \/ \E d \in Caller : pc'[d] = "store" /\ job'.at = heap'[i] /\ job'.id = i
    BY <1>1, <1>3, <1>4, <1>5 DEF Fine, IKnown
  <2>3. irq' # Idle => \A i \in Pending' : heap'[i] # irq'.at
    BY <1>1, <1>3, <1>6 DEF Fine, IKnown
  <2> QED
    BY <2>1, <2>2, <2>3 DEF IKnown
<1>9. ISeen'
  BY <1>3, <1>4, <1>5, <1>6 DEF ISeen, Calm
<1> QED
  BY <1>1, <1>7, <1>8, <1>9 DEF Fine

LEMMA AddEndsFine ==
  ASSUME Static, Fine, NEW c \in Caller, AddMissed(c) \/ AddFailed(c)
  PROVE  Fine'
<1>1. /\ pc[c] = "add" /\ Inside(c) /\ UNCHANGED <<heap, irq, raced>>
      /\ pc' = [pc EXCEPT ![c] = "leave"]
  BY DEF AddMissed, AddFailed, At, Goto, Inside
<1>2. Kept
  <2>1. CASE AddMissed(c)
    <3>1. tone' = [tone EXCEPT ![job.at] = Missed(tone[job.at])]
      BY <2>1 DEF AddMissed
    <3>2. \A m \in Cell : Missed(m).live = m.live
      BY DEF Missed, Cell
    <3>3. \A i \in Pending : heap[i] # job.at
      BY <1>1 DEF Fine, ISeen
    <3> QED
      BY <3>1, <3>2, <3>3, CellOf DEF Static, TypeOK, Kept
  <2>2. CASE AddFailed(c)
    <3>1. SameBut(tone, tone')
      BY <2>2, Flags, Zenon DEF AddFailed, Static, TypeOK
    <3> QED
      BY <3>1, CellOf DEF SameBut, Static, Kept
  <2> QED
    BY <2>1, <2>2
<1>3. ~raced' /\ "leave" \in Calm
  BY <1>1 DEF Fine, Calm
<1> QED
  BY <1>1, <1>2, <1>3, CalmStep

LEMMA StoreFine ==
  ASSUME Static, Fine, NEW c \in Caller, Store(c)
  PROVE  Fine'
<1>1. /\ pc[c] = "store" /\ pc' = [pc EXCEPT ![c] = "leave"] /\ Inside(c)
      /\ tone' = [tone EXCEPT ![job.at].alarm = job.id]
      /\ UNCHANGED <<job, heap, irq, raced>>
  BY DEF Store, At, Goto, Inside
<1>2. \A d \in Caller : pc'[d] \in Calm
  BY <1>1, OneInside DEF Calm
<1>3. /\ \A t \in Address : tone'[t].live = tone[t].live
      /\ \A t \in Address \ {job.at} : tone'[t].alarm = tone[t].alarm
      /\ job.at \in Address => tone'[job.at].alarm = job.id
  BY <1>1 DEF Static, TypeOK, Cell
<1>4. Pending' = Pending
  BY <1>1 DEF Pending
<1>5. \A i \in Pending : tone'[heap[i]].alarm = i
  <2>1. TAKE i \in Pending
  <2>2. CASE heap[i] = job.at
    BY <1>1, <1>3, <2>2, CellOf DEF Static, Fine, ISeen
  <2>3. CASE heap[i] # job.at
    BY <1>3, <2>3, CellOf DEF Static, Fine, IKnown
  <2> QED
    BY <2>2, <2>3
<1>6. ToneAlive'
  BY <1>1, <1>3, <1>4, CellOf DEF Static, Fine, ToneAlive
<1>7. IKnown'
  BY <1>1, <1>4, <1>5 DEF Fine, IKnown
<1>8. ISeen'
  BY <1>2 DEF ISeen, Calm
<1> QED
  BY <1>1, <1>6, <1>7, <1>8 DEF Fine

LEMMA FireFine ==
  ASSUME Static, Fine, NEW id \in Alarm, Fire(id)
  PROVE  Fine'
<1>1. /\ id \in Pending /\ heap' = Without(id) /\ irq = Idle
      /\ irq' = [id |-> id, at |-> heap[id], pc |-> "alarm"]
      /\ UNCHANGED <<pc, job, tone, raced>>
  BY DEF Fire, InHandler
<1>2. Pending' = Pending \ {id} /\ \A i \in Pending' : heap'[i] = heap[i]
  BY <1>1 DEF Without, Pending
<1>3. irq'.at = heap[id]
  BY <1>1
<1>4. ToneAlive'
  BY <1>1, <1>2, <1>3 DEF Fine, ToneAlive
<1>5. IKnown'
  <2>1. \A i, j \in Pending' : heap'[i] = heap'[j] => i = j
    BY <1>2 DEF Fine, IKnown
  <2>2. \A i \in Pending' : \/ tone'[heap'[i]].alarm = i
                           \/ \E d \in Caller : pc'[d] = "store" /\ job'.at = heap'[i] /\ job'.id = i
    BY <1>1, <1>2 DEF Fine, IKnown
  <2>3. \A i \in Pending' : heap'[i] # irq'.at
    BY <1>1, <1>2, <1>3 DEF Fine, IKnown
  <2> QED
    BY <2>1, <2>2, <2>3 DEF IKnown
<1>6. ISeen'
  BY <1>1, <1>2, <1>3 DEF Fine, ISeen
<1> QED
  BY <1>1, <1>4, <1>5, <1>6 DEF Fine

LEMMA StopAlarmFine ==
  ASSUME Static, Fine, StopAlarm
  PROVE  Fine'
<1>1. /\ irq.pc = "alarm" /\ irq' = [irq EXCEPT !.pc = "stop"]
      /\ tone' = [tone EXCEPT ![irq.at].alarm = 0]
      /\ UNCHANGED <<pc, job, heap, raced>>
  BY DEF StopAlarm
<1>2. irq # Idle /\ irq \in [id : Alarm, at : Address, pc : {"alarm", "stop"}]
  BY <1>1 DEF Idle, Static, TypeOK
<1>3. irq'.at = irq.at
  BY <1>1, <1>2
<1>4. Pending' = Pending
  BY <1>1 DEF Pending
<1>5. /\ \A t \in Address : tone'[t].live = tone[t].live
      /\ \A t \in Address \ {irq.at} : tone'[t].alarm = tone[t].alarm
      /\ tone'[irq.at].alarm = 0
  BY <1>1, <1>2 DEF Static, TypeOK, Cell
<1>6. \A i \in Pending : heap[i] \in Address \ {irq.at}
  BY <1>2, CellOf DEF Static, Fine, IKnown
<1>7. ToneAlive'
  BY <1>1, <1>2, <1>3, <1>4, <1>5, <1>6 DEF Fine, ToneAlive
<1>8. IKnown'
  BY <1>1, <1>3, <1>4, <1>5, <1>6 DEF Fine, IKnown
<1>9. ISeen'
  <2>1. ASSUME NEW d \in Caller, pc[d] = "cancel"
        PROVE  tone'[job.at].alarm \in {0, job.id}
    <3>1. job.at \in Address
      BY <2>1 DEF Static, IPlace, HasTone, TypeOK, Job
    <3>2. tone[job.at].alarm \in {0, job.id}
      BY <2>1 DEF Fine, ISeen
    <3> QED
      BY <1>5, <3>1, <3>2
  <2> QED
    BY <1>1, <1>3, <1>4, <2>1 DEF Fine, ISeen
<1> QED
  BY <1>1, <1>7, <1>8, <1>9 DEF Fine

LEMMA StopToneFine ==
  ASSUME Static, Fine, StopTone
  PROVE  Fine'
<1>1. irq' = Idle /\ UNCHANGED <<pc, job, heap, raced, toneMap>>
  BY DEF StopTone
<1>2. SameBut(tone, tone')
  BY Flags, Zenon DEF StopTone, Static, TypeOK
<1>3. Pending' = Pending
  BY <1>1 DEF Pending
<1>4. ToneAlive'
  BY <1>1, <1>2, <1>3, CellOf DEF Static, Fine, ToneAlive, SameBut
<1>5. IKnown'
  BY <1>1, <1>2, <1>3, CellOf DEF Static, Fine, IKnown, SameBut
<1>6. ISeen'
  <2>1. \A d \in Caller : pc[d] \in {"cancel", "add"} => job.at \in Address /\ job.at # 0
    BY DEF Static, IPlace, HasTone, TypeOK, Job
  <2> QED
    BY <1>1, <1>2, <1>3, <2>1, CellOf DEF Static, Fine, ISeen, SameBut
<1> QED
  BY <1>1, <1>4, <1>5, <1>6 DEF Fine

LEMMA NextInv ==
  ASSUME IInv, [Next]_vars
  PROVE  IInv'
<1>1. Static /\ Static'
  BY StepStatic DEF IInv
<1>2. SUFFICES ASSUME ~raced' PROVE Fine'
  BY <1>1 DEF IInv, IAlarm, Fine
<1>3. ~raced
  <2>1. raced => raced'
    BY DEF Next, Step, Call, Enter, EnterRefused, New, Find, Cancel, Start, Delete, Add,
       AddMissed, AddFailed, Store, Leave, Fire, StopAlarm, StopTone, vars
  <2> QED
    BY <1>2, <2>1
<1>4. Fine
  BY <1>3 DEF IInv, IAlarm, Fine
<1>5. CASE UNCHANGED vars
  BY <1>4, <1>5 DEF vars, Fine, ToneAlive, IKnown, ISeen, Pending
<1>6. ASSUME NEW c \in Caller, Step(c)
      PROVE  Fine'
  BY <1>1, <1>2, <1>4, <1>6, EnterFine, OutsideFine, NewFine, FindFine, CancelFine, StartFine,
     DeleteFine, AddFine, AddEndsFine, StoreFine, LeaveFine DEF Step
<1> QED
  BY <1>1, <1>4, <1>5, <1>6, OutsideFine, FireFine, StopAlarmFine, StopToneFine DEF Next

(* One call inside, a map of live Tones, no more machines than were claimed,   *)
(* and one pending alarm per Tone that its Tone or its call knows.             *)
THEOREM Invariant == Spec => []IInv
<1>1. IInv /\ [Next]_vars => IInv'
  BY NextInv
<1> QED
  BY InitInv, <1>1, PTL DEF Spec

(* Every variable keeps its type: no more state machines are freed than were   *)
(* claimed, and every alarm is for a Tone.                                     *)
THEOREM TypeCorrect == Spec => []TypeOK
<1>1. IInv => TypeOK
  BY DEF IInv, Static
<1> QED
  BY <1>1, Invariant, PTL

(* An alarm finds the Tone it was set for, for any number of pins and alarms,  *)
(* unless core 1 acted on a Tone whose callback was running.                   *)
THEOREM ToneAliveCorrect == Spec => []ToneAlive
<1>1. IInv => ToneAlive
  BY DEF IInv, IAlarm, ToneAlive
<1> QED
  BY <1>1, Invariant, PTL
===============================================================================
