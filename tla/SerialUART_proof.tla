--------------------------- MODULE SerialUART_proof ---------------------------
(* Proofs about SerialUART, for any ring sizes, any depth of the UART's FIFO,  *)
(* any number of bytes and calls, and any methods called from each context     *)
(* (begin() and end() from one thread only).                                   *)
EXTENDS SerialUART, SequenceTheorems, TLAPS

-------------------------------------------------------------------------------
(* The inductive invariant.                                                    *)

\* The thread that begins and ends the port.
T == <<0, "thread">>

ConfigLabels == {"alloc", "indices", "listen", "ready", "stop", "disable",
                 "endMutex", "endFifo", "delete", "unlock"}

\* x is past the test of _running in a method, and uses the port.
InBody(x) ==
    \/ pc[x] \in {"fifo", "restore", "result", "next", "hold", "forget", "putc"}
    \/ pc[x] \in Drain \cup {"exit"} /\ op[x] # "uart"

HoldsMutex(x) ==
    InBody(x) \/ pc[x] \in {"running", "leave", "endFifo", "delete", "unlock"}

HoldsFifo(x) ==
    \/ pc[x] \in {"exit", "delete", "unlock"}
    \/ pc[x] \in Drain /\ (op[x] = "uart" \/ ~polling)

\* A context past the lock owns it, and is alone past it.
IMutex == \A x \in Contexts : HoldsMutex(x) =>
    mutex = CoreOf(x) /\ \A y \in Contexts : HoldsMutex(y) => x = y
IFifo == \A x \in Contexts : HoldsFifo(x) =>
    fifoMutex = CoreOf(x) /\ \A y \in Contexts : HoldsFifo(y) => x = y

\* Who can be where: one thread configures; the UART interrupt is taken on its
\* core, when it is enabled in the UART; nobody takes _fifoMutex to poll.
IPlace == \A x \in Contexts :
    /\ pc[x] \in ConfigLabels => x = T
    /\ pc[x] = "try" => op[x] = "uart"
    /\ op[x] = "uart" => x = <<0, "isr">> /\ unmasked /\ pc[x] \in Drain \cup {"try", "exit"}
    /\ pc[x] = "idle" => op[x] = "none"
    /\ pc[x] \in {"exit", "fifo", "restore"} => ~polling
    /\ CoreOf(x) = 1 => ~wasOn[x]

\* When the port exists and when it runs.
IConfig ==
    /\ ~nvic[1]
    /\ unmasked => up /\ ~polling
    /\ queue = Deleted <=> ~up
    /\ running => pc[T] \notin ConfigLabels \ {"stop"}
    /\ pc[T] = "stop" => running
    /\ running \/ unmasked \/ pc[T] \in {"disable", "endMutex", "endFifo", "delete",
                                         "listen", "ready"} => Built
    /\ ~running /\ pc[T] \notin ConfigLabels => ~up
    /\ pc[T] \in {"alloc", "unlock"} => ~up
    /\ pc[T] \in {"indices", "listen"} => ~unmasked
    /\ pc[T] = "indices" => DOMAIN queue = 0 .. size - 1
    /\ pc[T] \in {"listen", "disable"} => ~polling
    /\ \A x \in Contexts : InBody(x) => running \/ pc[T] \in {"disable", "endMutex"}

\* A write() in progress.
IWrite == \A x \in Contexts :
    /\ left[x] > 0 => op[x] = "write" /\ pc[x] \in Drain \cup {"putc"}
    /\ pc[x] = "putc" => left[x] > 0
    /\ pc[x] = "fifo" => op[x] # "write"
    /\ pc[x] \in Drain /\ op[x] = "write" => left[x] > 0 /\ polling

\* x is inside _pumpFIFO.
Pumps(x) ==
    \/ pc[x] \in {"fifo", "restore"}
    \/ pc[x] \in Drain \cup {"exit"} /\ op[x] # "uart" /\ ~polling

\* The interrupt enable of the port that runs.
IEnabled ==
    /\ StaysEnabled
    /\ pc[T] = "ready" /\ ~polling => nvic[0]
    /\ \A x \in Contexts : Pumps(x) => ~nvic[CoreOf(x)]

\* A byte being moved is a byte.
IByte == \A x \in Contexts : pc[x] \in {"check", "store", "advance"} => byte[x] \in Bytes

\* The byte waiting in the UART has raised the interrupt, or somebody will look.
IRaised == rx # <<>> => raised \/ \E x \in Contexts : pc[x] \in Drain

IInv == /\ TypeOK /\ IMutex /\ IFifo /\ IPlace /\ IConfig /\ IWrite /\ IEnabled
        /\ IByte /\ IRaised

\* What the step lemma proves besides the types of the variables.
IRest == /\ IMutex /\ IFifo /\ IPlace /\ IConfig /\ IWrite /\ IEnabled /\ IByte /\ IRaised
         /\ Built => DOMAIN queue = 0 .. size - 1 /\ writer < size /\ reader < size

-------------------------------------------------------------------------------
(* Types.                                                                      *)
USE DEF Cores, NoCore, Owners

\* A ring has at least two slots.
LEMMA RingSizesType == RingSizes \subseteq Nat \ {0, 1}
  BY SerialAssumption DEF RingSizes

LEMMA TypeInit == Init => TypeOK
<1> SUFFICES ASSUME Init PROVE TypeOK
  OBVIOUS
<1>1. << >> \in Seq(Bytes) /\ << >> \in Seq(Nat) /\ Len(<< >>) = 0
  BY EmptySeq
<1>2. ~Built
  BY DEF Init, Built
<1>3. "idle" \in Labels
  BY DEF Labels
<1>4. DOMAIN calls = Contexts /\ \A x \in Contexts : calls[x] \in 0 .. MaxCalls[x]
  BY SerialAssumption DEF Init
<1>5. /\ rx \in Seq(Bytes) /\ Len(rx) <= HwDepth /\ arrived \in 0 .. MaxBytes
      /\ got \in Seq(Nat)
  BY <1>1, SerialAssumption DEF Init
<1>6. size \in RingSizes /\ queue = Deleted /\ writer \in Nat /\ reader \in Nat
  BY SerialAssumption DEF Init, RingSizes
<1>7. /\ pc \in [Contexts -> Labels] /\ op \in [Contexts -> Methods \cup {"none", "uart"}]
      /\ byte \in [Contexts -> Nat] /\ left \in [Contexts -> 0 .. MessageLength]
      /\ wasOn \in [Contexts -> BOOLEAN] /\ nvic \in [Cores -> BOOLEAN]
  BY <1>3 DEF Init, NoByte, MessageLength
<1> QED
  BY <1>2, <1>4, <1>5, <1>6, <1>7 DEF Init, TypeOK

\* The parts of TypeOK.
ContextTypes ==
    /\ pc \in [Contexts -> Labels]
    /\ op \in [Contexts -> Methods \cup {"none", "uart"}]
    /\ byte \in [Contexts -> Nat]
    /\ wasOn \in [Contexts -> BOOLEAN]
    /\ left \in [Contexts -> 0 .. MessageLength]
    /\ nvic \in [Cores -> BOOLEAN]
    /\ mutex \in Owners /\ fifoMutex \in Owners
FlagTypes ==
    /\ up \in BOOLEAN /\ raised \in BOOLEAN /\ unmasked \in BOOLEAN
    /\ running \in BOOLEAN /\ polling \in BOOLEAN /\ overflow \in BOOLEAN
RxTypes == rx \in Seq(Bytes) /\ Len(rx) <= HwDepth /\ arrived \in 0 .. MaxBytes
RingTypes ==
    /\ size \in RingSizes
    /\ queue = Deleted \/ \E n \in RingSizes : queue \in [0 .. n - 1 -> 0 .. MaxBytes]
    /\ writer \in Nat /\ reader \in Nat
IndexTypes == Built => DOMAIN queue = 0 .. size - 1 /\ writer < size /\ reader < size
HistTypes ==
    /\ got \in Seq(Nat)
    /\ DOMAIN calls = Contexts
    /\ \A x \in Contexts : calls[x] \in 0 .. MaxCalls[x]

LEMMA TypeParts == TypeOK <=> /\ ContextTypes /\ FlagTypes /\ RxTypes /\ RingTypes
                              /\ IndexTypes /\ HistTypes
  BY DEF TypeOK, ContextTypes, FlagTypes, RxTypes, RingTypes, IndexTypes, HistTypes

LEMMA ContextFacts ==
  /\ \A x \in Contexts : CoreOf(x) \in Cores
  /\ \A c \in Cores : <<c, "isr">> \in Contexts
  /\ T \in Contexts
  BY DEF Contexts, CoreOf, T, Kinds

LEMMA TailBytes ==
  ASSUME rx \in Seq(Bytes), rx # << >>
  PROVE  Head(rx) \in Bytes /\ Tail(rx) \in Seq(Bytes) /\ Len(Tail(rx)) = Len(rx) - 1
  BY HeadTailProperties

LEMMA AppendByte ==
  ASSUME rx \in Seq(Bytes), NEW b \in Bytes
  PROVE  Append(rx, b) \in Seq(Bytes) /\ Len(Append(rx, b)) = Len(rx) + 1
  BY AppendProperties

LEMMA Remainder ==
  ASSUME NEW a \in Int, NEW n \in RingSizes
  PROVE  a % n \in Nat /\ a % n < n /\ a % n >= 0
<1>1. n \in Nat \ {0}
  BY RingSizesType
<1> QED
  BY <1>1

\* The ring exists for whoever is in a method, or moves a byte.
LEMMA AliveInBody ==
  ASSUME IInv, NEW x \in Contexts,
         InBody(x) \/ pc[x] \in Drain
  PROVE  Built /\ DOMAIN queue = 0 .. size - 1 /\ writer < size /\ reader < size
<1>1. running \/ unmasked \/ pc[T] \in {"disable", "endMutex"}
  BY DEF IInv, IConfig, IPlace, InBody
<1>2. Built
  BY <1>1 DEF IInv, IConfig
<1> QED
  BY <1>2 DEF IInv, TypeOK

LEMMA AppendGot ==
  ASSUME got \in Seq(Nat), NEW b \in Nat
  PROVE  Append(got, b) \in Seq(Nat)
  BY AppendProperties

LEMMA ContextTypesStep == IInv /\ [Next]_vars => ContextTypes'
<1> SUFFICES ASSUME IInv, [Next]_vars PROVE ContextTypes'
  OBVIOUS
<1>a. ContextTypes
  BY TypeParts DEF IInv
<1> USE <1>a DEF ContextTypes, Labels, Drain, Methods, Step, localVars, lockVars, uartVars, configVars, ringVars, histVars
<1>1. ASSUME NEW c \in Cores, Interrupt(c) PROVE ContextTypes'
  BY <1>1, ContextFacts DEF Interrupt
<1>2. ASSUME NEW x \in Contexts, CallBegin(x) PROVE ContextTypes'
  BY <1>2, ContextFacts DEF CallBegin
<1>3. ASSUME NEW x \in Contexts, CallEnd(x) PROVE ContextTypes'
  BY <1>3, ContextFacts DEF CallEnd
<1>4. ASSUME NEW x \in Contexts, Call(x) PROVE ContextTypes'
  <2>1. PICK m \in Calls[x] \ {"begin", "end"} : op' = [op EXCEPT ![x] = m]
    BY <1>4 DEF Call
  <2>2. m \in Methods
    BY <2>1, SerialAssumption
  <2> QED
    BY <1>4, <2>1, <2>2 DEF Call
<1>5. ASSUME NEW x \in Contexts, Stop(x) PROVE ContextTypes'
  BY <1>5, ContextFacts DEF Stop
<1>6. ASSUME NEW x \in Contexts, Disable(x) PROVE ContextTypes'
  BY <1>6, ContextFacts DEF Disable
<1>7. ASSUME NEW x \in Contexts, EndMutex(x) PROVE ContextTypes'
  BY <1>7, ContextFacts DEF EndMutex, EndsWhenFree
<1>8. ASSUME NEW x \in Contexts, EndFifo(x) PROVE ContextTypes'
  BY <1>8, ContextFacts DEF EndFifo
<1>9. ASSUME NEW x \in Contexts, Delete(x) PROVE ContextTypes'
  BY <1>9, ContextFacts DEF Delete
<1>10. ASSUME NEW x \in Contexts, Unlock(x) PROVE ContextTypes'
  <2>1. /\ op' = op \/ op' = [op EXCEPT ![x] = "none"]
        /\ byte' = byte \/ byte' = [byte EXCEPT ![x] = 0]
    BY <1>10 DEF Unlock, Returns, NoByte
  <2>2. /\ pc' \in [Contexts -> Labels]
        /\ UNCHANGED <<nvic, wasOn, left>> /\ mutex' \in Owners /\ fifoMutex' \in Owners
    BY <1>10 DEF Unlock
  <2> QED
    BY <2>1, <2>2
<1>11. ASSUME NEW x \in Contexts, Alloc(x) PROVE ContextTypes'
  BY <1>11, ContextFacts DEF Alloc
<1>12. ASSUME NEW x \in Contexts, Indices(x) PROVE ContextTypes'
  BY <1>12, ContextFacts DEF Indices
<1>13. ASSUME NEW x \in Contexts, Listen(x) PROVE ContextTypes'
  BY <1>13, ContextFacts DEF Listen
<1>14. ASSUME NEW x \in Contexts, Ready(x) PROVE ContextTypes'
  BY <1>14, ContextFacts DEF Ready, Returns, NoByte
<1>15. ASSUME NEW x \in Contexts, TryRefused(x) PROVE ContextTypes'
  BY <1>15, ContextFacts DEF TryRefused, Returns, RefusedLeaves, NoByte
<1>16. ASSUME NEW x \in Contexts, Try(x) PROVE ContextTypes'
  BY <1>16, ContextFacts DEF Try, HandlerMayDrain
<1>17. ASSUME NEW x \in Contexts, Clear(x) PROVE ContextTypes'
  BY <1>17, ContextFacts DEF Clear
<1>18. ASSUME NEW x \in Contexts, GetByte(x) PROVE ContextTypes'
  <2>1. Head(rx) \in Bytes
    BY <1>18, TailBytes, TypeParts DEF IInv, RxTypes, GetByte
  <2>2. Head(rx) \in Nat
    BY <2>1 DEF Bytes
  <2> QED
    BY <1>18, <2>2, ContextFacts DEF GetByte
<1>19. ASSUME NEW x \in Contexts, Emptied(x) PROVE ContextTypes'
  BY <1>19, ContextFacts DEF Emptied
<1>20. ASSUME NEW x \in Contexts, Room(x) PROVE ContextTypes'
  BY <1>20, ContextFacts DEF Room, Full
<1>21. ASSUME NEW x \in Contexts, NoRoom(x) PROVE ContextTypes'
  BY <1>21, ContextFacts DEF NoRoom, Full, NoByte
<1>22. ASSUME NEW x \in Contexts, Store(x) PROVE ContextTypes'
  BY <1>22, ContextFacts DEF Store
<1>23. ASSUME NEW x \in Contexts, Advance(x) PROVE ContextTypes'
  BY <1>23, ContextFacts DEF Advance, Following, NoByte
<1>24. ASSUME NEW x \in Contexts, Exit(x) PROVE ContextTypes'
  <2>1. /\ op' = op \/ op' = [op EXCEPT ![x] = "none"]
        /\ byte' = byte \/ byte' = [byte EXCEPT ![x] = 0]
    BY <1>24 DEF Exit, Returns, NoByte
  <2>2. /\ pc' \in [Contexts -> Labels]
        /\ UNCHANGED <<nvic, wasOn, left>> /\ mutex' \in Owners /\ fifoMutex' \in Owners
    BY <1>24 DEF Exit
  <2> QED
    BY <2>1, <2>2
<1>25. ASSUME NEW x \in Contexts, Enter(x) PROVE ContextTypes'
  BY <1>25, ContextFacts DEF Enter, Taken
<1>26. ASSUME NEW x \in Contexts, EnterRefused(x) PROVE ContextTypes'
  BY <1>26, ContextFacts DEF EnterRefused, TurnedAway, Refused, Returns,
         NoByte
<1>27. ASSUME NEW x \in Contexts, NotRunning(x) PROVE ContextTypes'
  BY <1>27, ContextFacts DEF NotRunning
<1>28. ASSUME NEW x \in Contexts, Running(x) PROVE ContextTypes'
  <2>1. pc' \in [Contexts -> Labels]
    BY <1>28 DEF Running
  <2>2. /\ nvic' = nvic \/ nvic' = [nvic EXCEPT ![CoreOf(x)] = FALSE]
        /\ wasOn' = wasOn \/ wasOn' = [wasOn EXCEPT ![x] = nvic[CoreOf(x)]]
        /\ \/ left' = left
           \/ left' = [left EXCEPT ![x] = 0]
           \/ left' = [left EXCEPT ![x] = 2]
    BY <1>28 DEF Running, Found, MessageLength
  <2>4. left' \in [Contexts -> 0 .. MessageLength]
    BY <2>2 DEF MessageLength
  <2>5. nvic[CoreOf(x)] \in BOOLEAN
    BY ContextFacts
  <2>6. nvic' \in [Cores -> BOOLEAN]
    BY <2>2
  <2>7. wasOn' \in [Contexts -> BOOLEAN]
    BY <2>2, <2>5
  <2>3. UNCHANGED <<op, byte, mutex, fifoMutex>>
    BY <1>28 DEF Running
  <2> QED
    BY <2>1, <2>3, <2>4, <2>6, <2>7
<1>29. ASSUME NEW x \in Contexts, PumpFifo(x) PROVE ContextTypes'
  BY <1>29, ContextFacts DEF PumpFifo
<1>30. ASSUME NEW x \in Contexts, Restore(x) PROVE ContextTypes'
  BY <1>30, ContextFacts DEF Restore
<1>31. ASSUME NEW x \in Contexts, Result(x) PROVE ContextTypes'
  <2>1. Built /\ DOMAIN queue = 0 .. size - 1 /\ reader < size
    BY <1>31, AliveInBody DEF Result, InBody
  <2>2. queue[reader] \in Nat
    <3>1. PICK n \in RingSizes : queue \in [0 .. n - 1 -> 0 .. MaxBytes]
      BY <2>1, TypeParts DEF IInv, RingTypes, Built
    <3>2. reader \in DOMAIN queue
      <4>1. reader \in Nat /\ size \in Nat
        BY RingSizesType, TypeParts DEF IInv, RingTypes
      <4>2. reader \in 0 .. size - 1
        BY <2>1, <4>1
      <4> QED
        BY <2>1, <4>2
    <3> QED
      BY <3>1, <3>2
  <2>3. Available \in Nat
    <3>0. size \in RingSizes /\ writer \in Nat /\ reader \in Nat
      BY TypeParts DEF IInv, RingTypes
    <3>1. Two32(size) \in Nat
      <4>1. 65536 % size \in Nat
        BY <3>0, Remainder
      <4> QED
        BY <3>0, <4>1, Remainder DEF Two32
    <3> QED
      BY <3>0, <3>1, Remainder DEF Available
  <2> QED
    BY <1>31, <2>2, <2>3 DEF Result, NoByte
<1>32. ASSUME NEW x \in Contexts, NextReader(x) PROVE ContextTypes'
  BY <1>32, ContextFacts DEF NextReader
<1>33. ASSUME NEW x \in Contexts, Hold(x) PROVE ContextTypes'
  BY <1>33, ContextFacts DEF Hold
<1>34. ASSUME NEW x \in Contexts, Forget(x) PROVE ContextTypes'
  BY <1>34, ContextFacts DEF Forget
<1>35. ASSUME NEW x \in Contexts, PutByte(x) PROVE ContextTypes'
  <2>1. left[x] \in 1 .. MessageLength
    BY <1>35 DEF PutByte, IInv, IWrite, MessageLength
  <2>2. left' = [left EXCEPT ![x] = left[x] - 1] /\ left[x] - 1 \in 0 .. MessageLength
    BY <1>35, <2>1 DEF PutByte, MessageLength
  <2> QED
    BY <1>35, <2>2 DEF PutByte
<1>36. ASSUME NEW x \in Contexts, Leave(x) PROVE ContextTypes'
  BY <1>36, ContextFacts DEF Leave, Returns, NoByte
<1>37. CASE Arrive
  BY <1>37 DEF Arrive
<1>38. ASSUME NEW x \in Contexts,
               Configure(x)
      PROVE  ContextTypes'
  <2>1. UNCHANGED <<pc, op, nvic, localVars, lockVars>>
    BY <1>38 DEF Configure
  <2> QED
    BY <2>1
<1>39. CASE UNCHANGED vars
  BY <1>39 DEF vars
<1> QED
  BY <1>1, <1>2, <1>3, <1>4, <1>5, <1>6, <1>7, <1>8, <1>9, <1>10, <1>11,
     <1>12, <1>13, <1>14, <1>15, <1>16, <1>17, <1>18, <1>19, <1>20, <1>21,
     <1>22, <1>23, <1>24, <1>25, <1>26, <1>27, <1>28, <1>29, <1>30, <1>31,
     <1>32, <1>33, <1>34, <1>35, <1>36, <1>37, <1>38, <1>39
     DEF Next, Continue, EndSteps, BeginSteps, DrainSteps, MethodSteps

LEMMA FlagTypesStep == IInv /\ [Next]_vars => FlagTypes'
<1> SUFFICES ASSUME IInv, [Next]_vars PROVE FlagTypes'
  OBVIOUS
<1>a. FlagTypes
  BY TypeParts DEF IInv
<1> USE <1>a DEF FlagTypes, Step, localVars, lockVars, uartVars, configVars, ringVars, histVars
<1>1. CASE Arrive
  BY <1>1 DEF Arrive
<1>2. ASSUME NEW x \in Contexts, Configure(x) PROVE FlagTypes'
  BY <1>2, SerialAssumption DEF Configure
<1>3. ASSUME NEW x \in Contexts, Alloc(x) PROVE FlagTypes'
  BY <1>3 DEF Alloc
<1>4. ASSUME NEW x \in Contexts, Listen(x) PROVE FlagTypes'
  BY <1>4 DEF Listen
<1>5. ASSUME NEW x \in Contexts, Ready(x) PROVE FlagTypes'
  BY <1>5 DEF Ready
<1>6. ASSUME NEW x \in Contexts, Stop(x) PROVE FlagTypes'
  BY <1>6 DEF Stop
<1>7. ASSUME NEW x \in Contexts, Delete(x) PROVE FlagTypes'
  BY <1>7 DEF Delete
<1>8. ASSUME NEW x \in Contexts, TryRefused(x) PROVE FlagTypes'
  BY <1>8 DEF TryRefused, RefusedLeaves
<1>9. ASSUME NEW x \in Contexts, Clear(x) PROVE FlagTypes'
  BY <1>9 DEF Clear
<1>10. ASSUME NEW x \in Contexts, GetByte(x) PROVE FlagTypes'
  BY <1>10 DEF GetByte
<1>11. ASSUME NEW x \in Contexts, NoRoom(x) PROVE FlagTypes'
  BY <1>11 DEF NoRoom
<1>12. ASSUME NEW x \in Contexts, Forget(x) PROVE FlagTypes'
  BY <1>12 DEF Forget
<1>13. ASSUME NEW c \in Cores, Interrupt(c) PROVE FlagTypes'
  BY <1>13 DEF Interrupt
<1>14. ASSUME NEW x \in Contexts,
               CallBegin(x) \/ CallEnd(x) \/ Call(x) \/ Disable(x) \/
               EndMutex(x) \/ EndFifo(x) \/ Unlock(x) \/ Indices(x) \/
               Try(x) \/ Emptied(x) \/ Room(x) \/ Store(x) \/ Advance(x) \/
               Exit(x) \/ Enter(x) \/ EnterRefused(x) \/ NotRunning(x) \/
               Running(x) \/ PumpFifo(x) \/ Restore(x) \/ Result(x) \/
               NextReader(x) \/ Hold(x) \/ PutByte(x) \/ Leave(x)
      PROVE  FlagTypes'
  <2>1. UNCHANGED <<up, raised, unmasked, running, polling, overflow>>
    BY <1>14 DEF CallBegin, CallEnd, Call, Disable, EndMutex, EndFifo,
           Unlock, Indices, Try, Emptied, Room, Store, Advance, Exit, Enter,
           EnterRefused, NotRunning, Running, PumpFifo, Restore, Result,
           NextReader, Hold, PutByte, Leave
  <2> QED
    BY <2>1
<1>15. CASE UNCHANGED vars
  BY <1>15 DEF vars
<1> QED
  BY <1>1, <1>2, <1>3, <1>4, <1>5, <1>6, <1>7, <1>8, <1>9, <1>10, <1>11,
     <1>12, <1>13, <1>14, <1>15
     DEF Next, Continue, EndSteps, BeginSteps, DrainSteps, MethodSteps

LEMMA RxTypesStep == IInv /\ [Next]_vars => RxTypes'
<1> SUFFICES ASSUME IInv, [Next]_vars PROVE RxTypes'
  OBVIOUS
<1>a. RxTypes
  BY TypeParts DEF IInv
<1> USE <1>a DEF RxTypes, Step, localVars, lockVars, uartVars, configVars, ringVars, histVars
<1>1. CASE Arrive
  <2>1. arrived + 1 \in Bytes /\ arrived + 1 \in 0 .. MaxBytes
    BY <1>1, SerialAssumption DEF Arrive, Bytes
  <2> QED
    BY <1>1, <2>1, AppendByte, SerialAssumption, SMTT(30) DEF Arrive
<1>2. ASSUME NEW x \in Contexts, GetByte(x) PROVE RxTypes'
  BY <1>2, TailBytes, SerialAssumption DEF GetByte
<1>3. ASSUME NEW x \in Contexts, Alloc(x) PROVE RxTypes'
  BY <1>3, EmptySeq, SerialAssumption DEF Alloc
<1>4. ASSUME NEW x \in Contexts, Delete(x) PROVE RxTypes'
  BY <1>4, EmptySeq, SerialAssumption DEF Delete
<1>5. ASSUME NEW c \in Cores, Interrupt(c) PROVE RxTypes'
  BY <1>5 DEF Interrupt
<1>6. ASSUME NEW x \in Contexts,
               Configure(x) \/ CallBegin(x) \/ CallEnd(x) \/ Call(x) \/
               Stop(x) \/ Disable(x) \/ EndMutex(x) \/ EndFifo(x) \/
               Unlock(x) \/ Indices(x) \/ Listen(x) \/ Ready(x) \/
               TryRefused(x) \/ Try(x) \/ Clear(x) \/ Emptied(x) \/
               Room(x) \/ NoRoom(x) \/ Store(x) \/ Advance(x) \/ Exit(x) \/
               Enter(x) \/ EnterRefused(x) \/ NotRunning(x) \/ Running(x) \/
               PumpFifo(x) \/ Restore(x) \/ Result(x) \/ NextReader(x) \/
               Hold(x) \/ Forget(x) \/ PutByte(x) \/ Leave(x)
      PROVE  RxTypes'
  <2>1. UNCHANGED <<rx, arrived>>
    BY <1>6 DEF Configure, CallBegin, CallEnd, Call, Stop, Disable, EndMutex,
           EndFifo, Unlock, Indices, Listen, Ready, TryRefused, Try, Clear,
           Emptied, Room, NoRoom, Store, Advance, Exit, Enter, EnterRefused,
           NotRunning, Running, PumpFifo, Restore, Result, NextReader, Hold,
           Forget, PutByte, Leave
  <2> QED
    BY <2>1
<1>7. CASE UNCHANGED vars
  BY <1>7 DEF vars
<1> QED
  BY <1>1, <1>2, <1>3, <1>4, <1>5, <1>6, <1>7
     DEF Next, Continue, EndSteps, BeginSteps, DrainSteps, MethodSteps

LEMMA RingTypesStep == IInv /\ [Next]_vars => RingTypes'
<1> SUFFICES ASSUME IInv, [Next]_vars PROVE RingTypes'
  OBVIOUS
<1>a. RingTypes
  BY TypeParts DEF IInv
<1> USE <1>a DEF RingTypes, Step, localVars, lockVars, uartVars, configVars, ringVars, histVars
<1>1. ASSUME NEW x \in Contexts, Configure(x) PROVE RingTypes'
  BY <1>1 DEF Configure, RingSizes
<1>2. ASSUME NEW x \in Contexts, Alloc(x) PROVE RingTypes'
  BY <1>2, RingSizesType, SerialAssumption DEF Alloc, NoByte
<1>3. ASSUME NEW x \in Contexts, Indices(x) PROVE RingTypes'
  BY <1>3 DEF Indices
<1>4. ASSUME NEW x \in Contexts, Delete(x) PROVE RingTypes'
  BY <1>4 DEF Delete
<1>5. ASSUME NEW x \in Contexts, Store(x) PROVE RingTypes'
  <2>1. PICK n \in RingSizes : queue \in [0 .. n - 1 -> 0 .. MaxBytes]
    BY <1>5, AliveInBody DEF Store, Built, Drain
  <2>2. byte[x] \in 0 .. MaxBytes
    BY <1>5 DEF Store, IInv, IByte, Bytes
  <2>3. [queue EXCEPT ![writer] = byte[x]] \in [0 .. n - 1 -> 0 .. MaxBytes]
    BY <2>1, <2>2
  <2> QED
    BY <1>5, <2>3 DEF Store
<1>6. ASSUME NEW x \in Contexts, Advance(x) PROVE RingTypes'
  BY <1>6 DEF Advance, Following
<1>7. ASSUME NEW x \in Contexts, NextReader(x) PROVE RingTypes'
  BY <1>7, Remainder DEF NextReader
<1>8. CASE Arrive
  BY <1>8 DEF Arrive
<1>9. ASSUME NEW c \in Cores, Interrupt(c) PROVE RingTypes'
  BY <1>9 DEF Interrupt
<1>10. ASSUME NEW x \in Contexts,
               CallBegin(x) \/ CallEnd(x) \/ Call(x) \/ Stop(x) \/
               Disable(x) \/ EndMutex(x) \/ EndFifo(x) \/ Unlock(x) \/
               Listen(x) \/ Ready(x) \/ TryRefused(x) \/ Try(x) \/
               Clear(x) \/ GetByte(x) \/ Emptied(x) \/ Room(x) \/
               NoRoom(x) \/ Exit(x) \/ Enter(x) \/ EnterRefused(x) \/
               NotRunning(x) \/ Running(x) \/ PumpFifo(x) \/ Restore(x) \/
               Result(x) \/ Hold(x) \/ Forget(x) \/ PutByte(x) \/ Leave(x)
      PROVE  RingTypes'
  <2>1. UNCHANGED <<size, queue, writer, reader>>
    BY <1>10 DEF CallBegin, CallEnd, Call, Stop, Disable, EndMutex, EndFifo,
           Unlock, Listen, Ready, TryRefused, Try, Clear, GetByte, Emptied,
           Room, NoRoom, Exit, Enter, EnterRefused, NotRunning, Running,
           PumpFifo, Restore, Result, Hold, Forget, PutByte, Leave
  <2> QED
    BY <2>1
<1>11. CASE UNCHANGED vars
  BY <1>11 DEF vars
<1> QED
  BY <1>1, <1>2, <1>3, <1>4, <1>5, <1>6, <1>7, <1>8, <1>9, <1>10, <1>11
     DEF Next, Continue, EndSteps, BeginSteps, DrainSteps, MethodSteps

LEMMA HistTypesStep == IInv /\ [Next]_vars => HistTypes'
<1> SUFFICES ASSUME IInv, [Next]_vars PROVE HistTypes'
  OBVIOUS
<1>a. HistTypes
  BY TypeParts DEF IInv
<1> USE <1>a DEF HistTypes, Step, localVars, lockVars, uartVars, configVars, ringVars, histVars
<1>1. ASSUME NEW x \in Contexts, CallBegin(x) PROVE HistTypes'
  <2>1. calls[x] + 1 \in 0 .. MaxCalls[x]
    <3>1. calls[x] \in 0 .. MaxCalls[x] /\ MaxCalls[x] \in Nat /\ calls[x] < MaxCalls[x]
      BY <1>1, SerialAssumption DEF CallBegin
    <3> QED
      BY <3>1
  <2>2. calls' = [calls EXCEPT ![x] = calls[x] + 1] /\ UNCHANGED got
    BY <1>1 DEF CallBegin
  <2> QED
    BY <2>1, <2>2
<1>2. ASSUME NEW x \in Contexts, CallEnd(x) PROVE HistTypes'
  <2>1. calls[x] + 1 \in 0 .. MaxCalls[x]
    <3>1. calls[x] \in 0 .. MaxCalls[x] /\ MaxCalls[x] \in Nat /\ calls[x] < MaxCalls[x]
      BY <1>2, SerialAssumption DEF CallEnd
    <3> QED
      BY <3>1
  <2>2. calls' = [calls EXCEPT ![x] = calls[x] + 1] /\ UNCHANGED got
    BY <1>2 DEF CallEnd
  <2> QED
    BY <2>1, <2>2
<1>3. ASSUME NEW x \in Contexts, Call(x) PROVE HistTypes'
  <2>1. calls[x] + 1 \in 0 .. MaxCalls[x]
    <3>1. calls[x] \in 0 .. MaxCalls[x] /\ MaxCalls[x] \in Nat /\ calls[x] < MaxCalls[x]
      BY <1>3, SerialAssumption DEF Call
    <3> QED
      BY <3>1
  <2>2. calls' = [calls EXCEPT ![x] = calls[x] + 1] /\ UNCHANGED got
    BY <1>3 DEF Call
  <2> QED
    BY <2>1, <2>2
<1>4. ASSUME NEW x \in Contexts, NextReader(x) PROVE HistTypes'
  <2>1. byte[x] \in Nat
    BY <1>4, TypeParts DEF IInv, ContextTypes
  <2> QED
    BY <1>4, <2>1, AppendGot DEF NextReader
<1>5. CASE Arrive
  BY <1>5 DEF Arrive
<1>6. ASSUME NEW c \in Cores, Interrupt(c) PROVE HistTypes'
  BY <1>6 DEF Interrupt
<1>7. ASSUME NEW x \in Contexts,
               Configure(x) \/ Stop(x) \/ Disable(x) \/ EndMutex(x) \/
               EndFifo(x) \/ Delete(x) \/ Unlock(x) \/ Alloc(x) \/
               Indices(x) \/ Listen(x) \/ Ready(x) \/ TryRefused(x) \/
               Try(x) \/ Clear(x) \/ GetByte(x) \/ Emptied(x) \/ Room(x) \/
               NoRoom(x) \/ Store(x) \/ Advance(x) \/ Exit(x) \/ Enter(x) \/
               EnterRefused(x) \/ NotRunning(x) \/ Running(x) \/
               PumpFifo(x) \/ Restore(x) \/ Result(x) \/ Hold(x) \/
               Forget(x) \/ PutByte(x) \/ Leave(x)
      PROVE  HistTypes'
  <2>1. UNCHANGED <<got, calls>>
    BY <1>7 DEF Configure, Stop, Disable, EndMutex, EndFifo, Delete, Unlock,
           Alloc, Indices, Listen, Ready, TryRefused, Try, Clear, GetByte,
           Emptied, Room, NoRoom, Store, Advance, Exit, Enter, EnterRefused,
           NotRunning, Running, PumpFifo, Restore, Result, Hold, Forget,
           PutByte, Leave
  <2> QED
    BY <2>1
<1>8. CASE UNCHANGED vars
  BY <1>8 DEF vars
<1> QED
  BY <1>1, <1>2, <1>3, <1>4, <1>5, <1>6, <1>7, <1>8
     DEF Next, Continue, EndSteps, BeginSteps, DrainSteps, MethodSteps

\* The four contexts.
I  == <<0, "isr">>
T1 == <<1, "thread">>
I1 == <<1, "isr">>

LEMMA FourContexts ==
  /\ Contexts = {T, I, T1, I1}
  /\ T # I /\ T # T1 /\ T # I1 /\ I # T1 /\ I # I1 /\ T1 # I1
  /\ CoreOf(T) = 0 /\ CoreOf(I) = 0 /\ CoreOf(T1) = 1 /\ CoreOf(I1) = 1
  /\ I = <<0, "isr">> /\ I1 = <<1, "isr">>
  BY DEF Contexts, Kinds, T, I, T1, I1, CoreOf

LEMMA WhoRuns ==
  /\ Runs(T) <=> pc[I] = "idle"
  /\ Runs(T1) <=> pc[I1] = "idle"
  BY DEF Runs, T, I, T1, I1, CoreOf

\* Only T calls begin() and end().
LEMMA Configures ==
  ASSUME NEW x \in Contexts, Calls[x] \cap {"begin", "end"} # {}
  PROVE  x = T
  BY OneConfigures DEF T

LEMMA InvStep == IInv /\ [Next]_vars => IRest'
<1> SUFFICES ASSUME IInv, [Next]_vars PROVE IRest'
  OBVIOUS
<1> USE FourContexts, WhoRuns, TypeParts
<1> USE DEF IInv, IMutex, IFifo, IPlace, IConfig, IWrite, IEnabled, IByte, IRaised, IndexTypes,
            StaysEnabled, Pumps, HoldsMutex, HoldsFifo, InBody, Drain, ConfigLabels, Built,
            ContextTypes, FlagTypes, Step, localVars, lockVars, uartVars, configVars,
            ringVars, histVars
<1>1. CASE Arrive
  <2>0. /\ UNCHANGED <<pc, op, nvic, byte, wasOn, left, mutex, fifoMutex, up, unmasked, running,
                  polling, size, queue, writer, reader>>
        /\ raised' \/ (rx' = rx /\ raised' = raised)
    BY <1>1, SMTT(60) DEF Arrive
  <2> QED
    BY <2>0, SMTT(60) DEF IRest, IndexTypes
<1>2. ASSUME NEW c \in Cores, Interrupt(c) PROVE IRest'
  <2>1. IMutex'
    BY <1>2, SMTT(60) DEF Interrupt
  <2>2. IFifo'
    BY <1>2, SMTT(60) DEF Interrupt
  <2>3. IPlace'
    BY <1>2, SMTT(60) DEF Interrupt
  <2>4. IConfig'
    BY <1>2, SMTT(60) DEF Interrupt
  <2>5. IWrite'
    BY <1>2, SMTT(60) DEF Interrupt
  <2>6. IEnabled'
    BY <1>2, SMTT(60) DEF Interrupt
  <2>7. (IByte /\ IRaised)'
    BY <1>2, SMTT(60) DEF Interrupt
  <2>8. IndexTypes'
    BY <1>2, SMTT(60) DEF Interrupt
  <2> QED
    BY <2>1, <2>2, <2>3, <2>4, <2>5, <2>6, <2>7, <2>8, SMTT(60) DEF IRest, IndexTypes
<1>3. ASSUME NEW x \in Contexts, Configure(x) PROVE IRest'
  <2>0. /\ x = T /\ pc[T] = "idle" /\ ~running /\ ~up /\ ~unmasked /\ queue = Deleted /\ polling' \in BOOLEAN
        /\ \A y \in Contexts : pc[y] \notin Drain \cup {"exit", "fifo", "restore"} /\ op[y] # "uart"
        /\ UNCHANGED pc
        /\ UNCHANGED <<op, nvic, byte, wasOn, left, mutex, fifoMutex, rx, up>>
        /\ UNCHANGED <<raised, unmasked, running, queue, writer, reader>>
    BY <1>3, Configures, SerialAssumption, SMTT(60) DEF Configure
  <2> QED
    BY <2>0, SMTT(60) DEF IRest, IndexTypes
<1>4. ASSUME NEW x \in Contexts, CallBegin(x) PROVE IRest'
  <2>0. /\ x = T /\ pc[T] = "idle" /\ Runs(T) /\ op' = [op EXCEPT ![T] = "begin"]
        /\ pc' = [pc EXCEPT ![T] = IF running THEN "stop" ELSE "alloc"]
        /\ UNCHANGED <<nvic, byte, wasOn, left, mutex, fifoMutex, rx, up, raised>>
        /\ UNCHANGED <<unmasked, running, polling, size, queue, writer, reader>>
    BY <1>4, Configures, ZenonT(60) DEF CallBegin
  <2> QED
    BY <2>0, SMTT(60) DEF IRest, IndexTypes
<1>5. ASSUME NEW x \in Contexts, CallEnd(x) PROVE IRest'
  <2>0. /\ x = T /\ pc[T] = "idle" /\ running /\ pc' = [pc EXCEPT ![T] = "stop"] /\ Runs(T)
        /\ op' = [op EXCEPT ![T] = "end"]
        /\ UNCHANGED <<nvic, byte, wasOn, left, mutex, fifoMutex, rx, up, raised>>
        /\ UNCHANGED <<unmasked, running, polling, size, queue, writer, reader>>
    BY <1>5, Configures, ZenonT(60) DEF CallEnd
  <2> QED
    BY <2>0, SMTT(60) DEF IRest, IndexTypes
<1>6. ASSUME NEW x \in Contexts, Call(x) PROVE IRest'
  <2>1. (IMutex /\ IFifo /\ IConfig /\ IWrite /\ IEnabled /\ IByte /\ IRaised /\ IndexTypes)'
    BY <1>6, SMTT(60) DEF Call
  <2>2. IPlace'
    <3>1. PICK m \in Calls[x] \ {"begin", "end"} : op' = [op EXCEPT ![x] = m]
      BY <1>6, ZenonT(60) DEF Call
    <3>2. m # "uart"
      BY <3>1, SerialAssumption, SMTT(60) DEF Methods
    <3> QED
      BY <1>6, <3>1, <3>2, SMTT(60) DEF Call
  <2> QED
    BY <2>1, <2>2, SMTT(60) DEF IRest, IndexTypes
<1>7. ASSUME NEW x \in Contexts, Stop(x) PROVE IRest'
  BY <1>7, SMTT(60) DEF Stop, IRest, IndexTypes
<1>8. ASSUME NEW x \in Contexts, Disable(x) PROVE IRest'
  BY <1>8, SMTT(60) DEF Disable, IRest, IndexTypes
<1>9. ASSUME NEW x \in Contexts, EndMutex(x) PROVE IRest'
  BY <1>9, SMTT(60) DEF EndMutex, EndsWhenFree, IRest, IndexTypes
<1>10. ASSUME NEW x \in Contexts, EndFifo(x) PROVE IRest'
  BY <1>10, SMTT(60) DEF EndFifo, IRest, IndexTypes
<1>11. ASSUME NEW x \in Contexts, Delete(x) PROVE IRest'
  BY <1>11, SMTT(60) DEF Delete, IRest, IndexTypes
<1>12. ASSUME NEW x \in Contexts, Unlock(x) PROVE IRest'
  BY <1>12, SMTT(60) DEF Unlock, Returns, IRest, IndexTypes
<1>13. ASSUME NEW x \in Contexts, Alloc(x) PROVE IRest'
  <2>0. /\ x = T /\ pc[T] = "alloc" /\ pc' = [pc EXCEPT ![T] = "indices"] /\ pc[I] = "idle"
        /\ queue' = [i \in 0 .. size - 1 |-> NoByte]
        /\ queue' # Deleted /\ DOMAIN queue' = 0 .. size - 1
        /\ up' /\ rx' = << >> /\ ~raised' /\ ~unmasked'
        /\ UNCHANGED <<op, nvic, byte, wasOn, left, mutex, fifoMutex, running, polling>>
        /\ UNCHANGED <<size, writer, reader>>
    <3>1. x = T /\ pc[I] = "idle"
      BY <1>13, SMTT(60) DEF Alloc
    <3>2. queue' = [i \in 0 .. size - 1 |-> NoByte] /\ size \in Nat \ {0, 1}
      BY <1>13, RingSizesType, ZenonT(60) DEF Alloc, RingTypes
    <3>3. DOMAIN queue' = 0 .. size - 1 /\ size \in Nat \ {0, 1}
      BY <3>2, SMTT(60)
    <3>4. queue' # Deleted
      BY <3>3, SMTT(60) DEF Deleted
    <3> QED
      BY <1>13, <3>1, <3>2, <3>3, <3>4, SMTT(60) DEF Alloc
  <2> QED
    BY <2>0, SMTT(60) DEF IRest, IndexTypes
<1>14. ASSUME NEW x \in Contexts, Indices(x) PROVE IRest'
  <2>0. /\ x = T /\ pc[T] = "indices" /\ pc[I] = "idle"
        /\ pc' = [pc EXCEPT ![T] = IF polling THEN "ready" ELSE "listen"]
        /\ writer' = 0 /\ reader' = 0 /\ size > 0 /\ up /\ queue # Deleted /\ DOMAIN queue = 0 .. size - 1
        /\ UNCHANGED <<op, nvic, byte, wasOn, left, mutex, fifoMutex, rx, up>>
        /\ UNCHANGED <<raised, unmasked, running, polling, size, queue>>
    <3>1. x = T /\ DOMAIN queue = 0 .. size - 1
      BY <1>14, SMTT(60) DEF Indices
    <3>2. size \in Nat \ {0, 1}
      BY RingSizesType DEF RingTypes
    <3>3. queue # Deleted /\ size > 0
      BY <3>1, <3>2, SMTT(60) DEF Deleted
    <3> QED
      BY <1>14, <3>1, <3>3, SMTT(60) DEF Indices
  <2> QED
    BY <2>0, SMTT(60) DEF IRest, IndexTypes
<1>15. ASSUME NEW x \in Contexts, Listen(x) PROVE IRest'
  BY <1>15, SMTT(60) DEF Listen, IRest, IndexTypes
<1>16. ASSUME NEW x \in Contexts, Ready(x) PROVE IRest'
  BY <1>16, SMTT(60) DEF Ready, Returns, IRest, IndexTypes
<1>17. ASSUME NEW x \in Contexts, TryRefused(x) PROVE IRest'
  BY <1>17, SMTT(60) DEF TryRefused, Returns, RefusedLeaves, IRest, IndexTypes
<1>18. ASSUME NEW x \in Contexts, Try(x) PROVE IRest'
  BY <1>18, SMTT(60) DEF Try, HandlerMayDrain, IRest, IndexTypes
<1>19. ASSUME NEW x \in Contexts, Clear(x) PROVE IRest'
  <2>0. /\ pc[x] = "clear" /\ pc' = [pc EXCEPT ![x] = "poll"] /\ Runs(x)
        /\ UNCHANGED <<op, nvic, byte, wasOn, left, mutex, fifoMutex, rx, up>>
        /\ UNCHANGED <<unmasked, running, polling, size, queue, writer, reader>>
    BY <1>19, SMTT(60) DEF Clear
  <2> QED
    BY <2>0, SMTT(60) DEF IRest, IndexTypes
<1>20. ASSUME NEW x \in Contexts, GetByte(x) PROVE IRest'
  <2>0. /\ pc[x] = "poll" /\ pc' = [pc EXCEPT ![x] = "check"] /\ Runs(x)
        /\ byte' = [byte EXCEPT ![x] = Head(rx)] /\ Head(rx) \in Bytes
        /\ UNCHANGED <<op, nvic, wasOn, left, mutex, fifoMutex, up, unmasked, running>>
        /\ UNCHANGED <<polling, size, queue, writer, reader>>
    BY <1>20, TailBytes, TypeParts, SMTT(60) DEF GetByte, RxTypes
  <2> QED
    BY <2>0, SMTT(60) DEF IRest, IndexTypes
<1>21. ASSUME NEW x \in Contexts, Emptied(x) PROVE IRest'
  BY <1>21, SMTT(60) DEF Emptied, IRest, IndexTypes
<1>22. ASSUME NEW x \in Contexts, Room(x) PROVE IRest'
  BY <1>22, SMTT(60) DEF Room, Full, IRest, IndexTypes
<1>23. ASSUME NEW x \in Contexts, NoRoom(x) PROVE IRest'
  BY <1>23, SMTT(60) DEF NoRoom, Full, IRest, IndexTypes
<1>24. ASSUME NEW x \in Contexts, Store(x) PROVE IRest'
  <2>0. /\ pc[x] = "store" /\ pc' = [pc EXCEPT ![x] = "advance"] /\ Runs(x)
        /\ queue # Deleted /\ queue' # Deleted /\ DOMAIN queue' = DOMAIN queue
        /\ UNCHANGED <<op, nvic, byte, wasOn, left, mutex, fifoMutex, rx, up, raised>>
        /\ UNCHANGED <<unmasked, running, polling, size, writer, reader>>
    <3>1. queue # Deleted /\ DOMAIN queue' = DOMAIN queue /\ DOMAIN queue = 0 .. size - 1 /\ size \in Nat \ {0, 1}
      BY <1>24, AliveInBody, RingSizesType, ZenonT(60) DEF Store, RingTypes
    <3>2. queue' # Deleted
      BY <3>1, SMTT(60) DEF Deleted
    <3> QED
      BY <1>24, <3>1, <3>2, SMTT(60) DEF Store
  <2>1. (IMutex /\ IFifo /\ IPlace /\ IWrite /\ IEnabled /\ IByte /\ IRaised /\ IndexTypes)'
    BY <2>0, SMTT(60)
  <2>2. IConfig'
    BY <2>0, SMTT(60)
  <2> QED
    BY <2>1, <2>2, SMTT(60) DEF IRest, IndexTypes
<1>25. ASSUME NEW x \in Contexts, Advance(x) PROVE IRest'
  <2>1. (IMutex /\ IFifo /\ IPlace /\ IConfig /\ IWrite /\ IEnabled /\ IByte /\ IRaised)'
    BY <1>25, SMTT(60) DEF Advance, Following
  <2>2. IndexTypes'
    <3>1. Built /\ writer < size /\ writer \in Nat /\ size \in Nat
      BY <1>25, AliveInBody, RingSizesType, ZenonT(60) DEF Advance, RingTypes
    <3>2. Following(writer) < size
      BY <3>1, SMTT(60) DEF Following
    <3> QED
      BY <1>25, <3>2, SMTT(60) DEF Advance
  <2> QED
    BY <2>1, <2>2, SMTT(60) DEF IRest, IndexTypes
<1>26. ASSUME NEW x \in Contexts, Exit(x) PROVE IRest'
  <2>1. (IMutex /\ IFifo /\ IPlace /\ IConfig /\ IWrite /\ IByte /\ IRaised /\ IndexTypes)'
    BY <1>26, SMTT(60) DEF Exit, Returns
  <2>2. IEnabled'
    <3>1. CASE op[x] = "uart"
      BY <1>26, <3>1, SMTT(60) DEF Exit, Returns
    <3>2. CASE op[x] # "uart"
      BY <1>26, <3>2, SMTT(60) DEF Exit
    <3> QED
      BY <3>1, <3>2, SMTT(60)
  <2> QED
    BY <2>1, <2>2, SMTT(60) DEF IRest, IndexTypes
<1>27. ASSUME NEW x \in Contexts, Enter(x) PROVE IRest'
  BY <1>27, SMTT(60) DEF Enter, Taken, IRest, IndexTypes
<1>28. ASSUME NEW x \in Contexts, EnterRefused(x) PROVE IRest'
  BY <1>28, SMTT(60) DEF EnterRefused, TurnedAway, Refused, Returns, IRest, IndexTypes
<1>29. ASSUME NEW x \in Contexts, NotRunning(x) PROVE IRest'
  BY <1>29, SMTT(60) DEF NotRunning, IRest, IndexTypes
<1>30. ASSUME NEW x \in Contexts, Running(x) PROVE IRest'
  <2>1. (IMutex /\ IFifo /\ IPlace /\ IConfig /\ IEnabled /\ IByte /\ IRaised /\ IndexTypes)'
    BY <1>30, SMTT(60) DEF Running, Found
  <2>2. IWrite'
    BY <1>30, SMTT(60) DEF Running, Found, MessageLength
  <2> QED
    BY <2>1, <2>2, SMTT(60) DEF IRest, IndexTypes
<1>31. ASSUME NEW x \in Contexts, PumpFifo(x) PROVE IRest'
  BY <1>31, SMTT(60) DEF PumpFifo, IRest, IndexTypes
<1>32. ASSUME NEW x \in Contexts, Restore(x) PROVE IRest'
  BY <1>32, SMTT(60) DEF Restore, IRest, IndexTypes
<1>33. ASSUME NEW x \in Contexts, Result(x) PROVE IRest'
  BY <1>33, SMTT(60) DEF Result, IRest, IndexTypes
<1>34. ASSUME NEW x \in Contexts, NextReader(x) PROVE IRest'
  <2>0. /\ pc[x] = "next" /\ pc' = [pc EXCEPT ![x] = "leave"] /\ Runs(x)
        /\ UNCHANGED <<op, nvic, byte, wasOn, left, mutex, fifoMutex, rx, up>>
        /\ UNCHANGED <<raised, unmasked, running, polling, size, queue, writer>>
    BY <1>34, SMTT(60) DEF NextReader
  <2>1. (IMutex /\ IFifo /\ IPlace /\ IConfig /\ IWrite /\ IEnabled /\ IByte /\ IRaised)'
    BY <2>0, SMTT(60)
  <2>2. IndexTypes'
    <3>1. reader' = (reader + 1) % size
      BY <1>34, SMTT(60) DEF NextReader
    <3>2. reader + 1 \in Int /\ size \in RingSizes
      BY DEF RingTypes
    <3>3. reader' < size
      BY <3>1, <3>2, Remainder, SMTT(60)
    <3> QED
      BY <2>0, <3>3, SMTT(60)
  <2> QED
    BY <2>1, <2>2, SMTT(60) DEF IRest, IndexTypes
<1>35. ASSUME NEW x \in Contexts, Hold(x) PROVE IRest'
  BY <1>35, SMTT(60) DEF Hold, IRest, IndexTypes
<1>36. ASSUME NEW x \in Contexts, Forget(x) PROVE IRest'
  BY <1>36, SMTT(60) DEF Forget, IRest, IndexTypes
<1>37. ASSUME NEW x \in Contexts, PutByte(x) PROVE IRest'
  <2>0. /\ pc[x] = "putc" /\ Runs(x) /\ left' = [left EXCEPT ![x] = left[x] - 1]
        /\ pc' = [pc EXCEPT ![x] = IF left[x] = 1 THEN "leave" ELSE "putc"]
        /\ UNCHANGED <<op, nvic, byte, wasOn, mutex, fifoMutex, rx, up, raised>>
        /\ UNCHANGED <<unmasked, running, polling, size, queue, writer, reader>>
    BY <1>37, SMTT(60) DEF PutByte
  <2> QED
    BY <2>0, SMTT(60) DEF IRest, IndexTypes
<1>38. ASSUME NEW x \in Contexts, Leave(x) PROVE IRest'
  BY <1>38, SMTT(60) DEF Leave, Returns, IRest, IndexTypes
<1>39. CASE UNCHANGED vars
  BY <1>39, SMTT(60) DEF vars, IRest
<1> HIDE FourContexts, WhoRuns, TypeParts
<1> HIDE DEF IInv, Step
<1> QED
  BY <1>1, <1>2, <1>3, <1>4, <1>5, <1>6, <1>7, <1>8, <1>9, <1>10, <1>11,
     <1>12, <1>13, <1>14, <1>15, <1>16, <1>17, <1>18, <1>19, <1>20, <1>21,
     <1>22, <1>23, <1>24, <1>25, <1>26, <1>27, <1>28, <1>29, <1>30, <1>31,
     <1>32, <1>33, <1>34, <1>35, <1>36, <1>37, <1>38, <1>39
     DEF Next, Continue, EndSteps, BeginSteps, DrainSteps, MethodSteps

LEMMA InvInit == Init => IInv
<1> SUFFICES ASSUME Init PROVE IInv
  OBVIOUS
<1>1. TypeOK
  BY TypeInit
<1>2. \A x \in Contexts : pc[x] = "idle" /\ op[x] = "none" /\ ~wasOn[x] /\ left[x] = 0
  BY DEF Init
<1>3. IMutex /\ IFifo /\ IWrite /\ IByte /\ IRaised
  BY <1>2 DEF Init, IMutex, IFifo, IWrite, IByte, IRaised, HoldsMutex, HoldsFifo, InBody, Drain
<1>4. IPlace
  BY <1>2 DEF IPlace, ConfigLabels
<1>5. ~nvic[1] /\ pc[T] = "idle" /\ ~running /\ ~unmasked /\ ~up /\ queue = Deleted
  BY <1>2, FourContexts DEF Init
<1>6. IConfig
  BY <1>2, <1>5 DEF IConfig, ConfigLabels, InBody, Drain
<1>7. IEnabled
  BY <1>2, <1>5 DEF IEnabled, StaysEnabled, Pumps, Drain
<1> QED
  BY <1>1, <1>3, <1>4, <1>6, <1>7 DEF IInv

(* IInv holds in every reachable state.                                        *)
THEOREM Invariance == Spec => []IInv
<1>1. Init => IInv
  BY InvInit
<1>2. IInv /\ [Next]_vars => IInv'
  <2> SUFFICES ASSUME IInv /\ [Next]_vars PROVE IInv'
    OBVIOUS
  <2>1. IRest'
    BY InvStep
  <2>2. TypeOK'
    BY <2>1, ContextTypesStep, FlagTypesStep, RxTypesStep, RingTypesStep, HistTypesStep
       DEF IRest, TypeOK, ContextTypes, FlagTypes, RxTypes, RingTypes, HistTypes
  <2> QED
    BY <2>1, <2>2 DEF IRest, IInv
<1> QED
  BY <1>1, <1>2, PTL DEF Spec

-------------------------------------------------------------------------------
(* Every variable keeps its type; the ring, while it exists, has the size      *)
(* setFIFOSize left in _fifoSize, and _writer and _reader are inside it.       *)
THEOREM TypeCorrect == Spec => []TypeOK
<1>1. IInv => TypeOK
  BY DEF IInv
<1> QED
  BY <1>1, Invariance, PTL

(* end() (SerialUART.cpp:202-222) does not delete the ring under a context     *)
(* that uses it: a reader or a pump of either core, or the interrupt handler.  *)
THEOREM RingAliveCorrect == Spec => []RingAlive
<1>1. IInv => RingAlive
  BY AliveInBody DEF RingAlive, InBody, Drain
<1> QED
  BY <1>1, Invariance, PTL

(* One context at a time is in _handleIRQ's loop (SerialUART.cpp:388-403),     *)
(* although it runs under _fifoMutex in two of its uses and under _mutex in    *)
(* the third.                                                                  *)
THEOREM OneDrainerCorrect == Spec => []OneDrainer
<1>1. IInv => OneDrainer
  <2> SUFFICES ASSUME IInv, NEW x \in Contexts, NEW y \in Contexts,
                      pc[x] \in Drain, pc[y] \in Drain
               PROVE  x = y
    BY DEF OneDrainer
  <2>1. CASE polling
    BY <2>1 DEF IInv, IConfig, IPlace, IMutex, HoldsMutex, InBody
  <2>2. CASE ~polling
    BY <2>2 DEF IInv, IFifo, HoldsFifo
  <2> QED
    BY <2>1, <2>2
<1> QED
  BY <1>1, Invariance, PTL

(* The bytes of a write(p, len) (SerialUART.cpp:332-347) leave together.       *)
THEOREM WritesWholeCorrect == Spec => []WritesWhole
<1>1. IInv => WritesWhole
  BY DEF IInv, IWrite, IMutex, HoldsMutex, InBody, WritesWhole
<1> QED
  BY <1>1, Invariance, PTL

(* _pumpFIFO (SerialUART.cpp:224-236) never leaves the port deaf: the UART     *)
(* interrupt of the core that began it is on, or a pump is about to restore it.*)
THEOREM StaysEnabledCorrect == Spec => []StaysEnabled
<1>1. IInv => StaysEnabled
  BY DEF IInv, IEnabled
<1> QED
  BY <1>1, Invariance, PTL

(* A byte in the UART is never forgotten: its interrupt is raised or a context *)
(* will look at the FIFO again.  The invariant is stronger than the property:  *)
(* it holds whether or not the UART's interrupt is enabled.                    *)
THEOREM NoneForgottenCorrect == Spec => []NoneForgotten
<1>1. IInv => NoneForgotten
  BY DEF IInv, IRaised, NoneForgotten
<1> QED
  BY <1>1, Invariance, PTL
================================================================================
