---------------------------- MODULE CoreIdle_proof ----------------------------
(* Proofs about CoreIdle, for every choice of what the two cores' sketches do, *)
(* any number of restarts of core 1 and any number of interrupts.              *)
EXTENDS CoreIdle, SequenceTheorems, TLAPS

-------------------------------------------------------------------------------
(* The inductive invariant.                                                    *)

\* A FIFO with no request to sleep in it, and one with no more than one.
NoRequest(words)  == \A i \in 1..Len(words) : words[i] # "GOTOSLEEP"
OneAtMost(words) ==
    \A i, j \in 1..Len(words) :
        words[i] = "GOTOSLEEP" /\ words[j] = "GOTOSLEEP" => i = j

\* A request to sleep has been sent to core c and not acknowledged yet.
Token(c) == ~NoRequest(inbox[c]) \/ isr[c] = "ack"

\* The other core is parked for the sake of core c.
Holds(c) == idled /\ isr[Other(c)] = "parked"

\* A handler past its noInterrupts() runs masked.
IMasked == \A c \in Cores :
    isr[c] \in {"scan", "ack", "parked", "leave"} => primask[c]

\* Core 1 never runs when _multicore is false, and main() has not got there yet.
ISingle ==
    /\ pc[0] = "begin" => ~multicore
    /\ ~multicore => /\ pc[1] = "bootrom" /\ isr[1] = "none"
                     /\ pc[0] \in {"begin", "register", "run", "excl", "inTry",
                                   "inUse", "restore", "perTry", "perUse"}
    /\ pc[0] \in {"launch", "handshake"} => pc[1] = "bootrom"
    /\ pc[1] \in {"off", "bootrom"} => isr[1] = "none" /\ ~sioEnabled[1]

\* A core between idleOtherCore and resumeOtherCore owns the mutex.
IOwner == \A c \in Cores : multicore /\ pc[c] \in Section => idleOwner = c

\* A request on its way belongs to the owner of the mutex: it is waiting for the
\* answer, or core 1 was reset after it sent the request and the mutex is lost.
IToken == \A c \in Cores :
    Token(c) => /\ idleOwner = Other(c)
                /\ pc[Other(c)] = "await" \/ (c = 0 /\ pc[1] \notin Section)

\* There is one request at most, and it is gone once it is acknowledged.
IOne == \A c \in Cores :
    /\ isr[c] = "ack" => NoRequest(inbox[c])
    /\ OneAtMost(inbox[c])

\* What the flag means to the core that asked.
IFlag == \A c \in Cores :
    /\ pc[c] = "push" => ~idled
    /\ pc[c] = "await" /\ idled => Holds(c) /\ ~Token(Other(c))
    /\ multicore /\ pc[c] \in Excl \cup {"unpark"} => Holds(c)

\* A flash writer runs masked, and its saved mask is the last of the stack.
FlashSteps == {"acquire", "unpark", "restore"} \cup Section
IFlash == \A c \in Cores :
    pc[c] \in FlashSteps /\ op[c] = "flash" =>
        /\ primask[c] /\ isr[c] = "none"
        /\ irqStack[c] # <<>> /\ Last(irqStack[c]) = before[c]

\* A context that uses the peripheral owns its mutex, and the two contexts of a
\* core do not use it together.
IPer == \A c \in Cores :
    /\ pc[c] \in {"perUse", "inUse"} => perOwner = c /\ isr[c] # "usrUse"
    /\ isr[c] = "usrUse" => perOwner = c

IInv == TypeOK /\ IMasked /\ ISingle /\ IOwner /\ IToken /\ IOne /\ IFlag /\ IFlash /\ IPer

-------------------------------------------------------------------------------
(* Types.                                                                      *)
USE DEF Cores, NoCore, Other, Owners

LEMMA TypeInit == Init => TypeOK
<1> SUFFICES ASSUME Init PROVE TypeOK
  OBVIOUS
<1>1. << >> \in Seq(BOOLEAN) /\ << >> \in Seq(Words)
  BY EmptySeq
<1>2. irqStack \in [Cores -> Seq(BOOLEAN)] /\ inbox \in [Cores -> Seq(Words)]
  BY <1>1 DEF Init
<1>3. pc \in [Cores -> Labels] /\ isr \in [Cores -> IsrLabels]
  BY DEF Init, Labels, Boot, Section, Waiting, Excl, IsrLabels
<1>4. /\ op \in [Cores -> {"api", "flash"}] /\ primask \in [Cores -> BOOLEAN]
      /\ sioEnabled \in [Cores -> BOOLEAN] /\ before \in [Cores -> BOOLEAN]
  BY DEF Init
<1> QED
  BY <1>2, <1>3, <1>4 DEF Init, TypeOK

\* interrupts() leaves a mask and a stack of masks.
LEMMA InterruptsType ==
  ASSUME TypeOK, NEW c \in Cores, interrupts(c)
  PROVE  /\ primask' \in [Cores -> BOOLEAN]
         /\ irqStack' \in [Cores -> Seq(BOOLEAN)]
<1>1. irqStack[c] \in Seq(BOOLEAN)
  BY DEF TypeOK
<1>2. CASE irqStack[c] = << >>
  BY <1>2 DEF interrupts, maskVars, TypeOK
<1>3. CASE irqStack[c] # << >>
  <2>1. Len(irqStack[c]) \in Nat \ {0}
    BY <1>1, <1>3, EmptySeq
  <2>2. Last(irqStack[c]) \in BOOLEAN
    BY <1>1, <2>1, ElementOfSeq DEF Last
  <2>3. Front(irqStack[c]) \in Seq(BOOLEAN)
    BY <1>1, <2>1, SubSeqProperties DEF Front
  <2> QED
    BY <1>3, <2>2, <2>3 DEF interrupts, maskVars, TypeOK
<1> QED
  BY <1>2, <1>3

LEMMA TypeStep == TypeOK /\ [Next]_vars => TypeOK'
<1> SUFFICES ASSUME TypeOK, [Next]_vars PROVE TypeOK'
  OBVIOUS
<1> USE DEF TypeOK, Labels, Boot, Section, Waiting, Excl, IsrLabels, Words,
            Thread, Handler, maskVars, fifoVars, lockVars, configVars, sketchVars,
            noInterrupts, Saved
<1>1. CASE Begin
  BY <1>1 DEF Begin
<1>2. CASE Launch
  BY <1>2 DEF Launch
<1>3. CASE Handshake
  BY <1>3 DEF Handshake, Drained
<1>4. CASE Bootrom
  <2>1. << >> \in Seq(Words) /\ Append(inbox[0], "zero") \in Seq(Words)
    BY EmptySeq, AppendProperties
  <2> QED
    BY <1>4, <2>1 DEF Bootrom
<1>5. CASE restartCore1
  BY <1>5 DEF restartCore1
<1>6. ASSUME NEW c \in Cores, registerCore(c) PROVE TypeOK'
  BY <1>6 DEF registerCore
<1>7. ASSUME NEW c \in Cores, Clear(c) PROVE TypeOK'
  BY <1>7 DEF Clear
<1>8. ASSUME NEW c \in Cores, Push(c) PROVE TypeOK'
  BY <1>8 DEF Push
<1>9. ASSUME NEW c \in Cores, Await(c) PROVE TypeOK'
  BY <1>9 DEF Await, Answered
<1>10. ASSUME NEW c \in Cores, Unpark(c) PROVE TypeOK'
  BY <1>10 DEF Unpark
<1>11. ASSUME NEW c \in Cores, Restore(c) PROVE TypeOK'
  BY <1>11, InterruptsType DEF Restore
<1>12. ASSUME NEW c \in Cores, PerRefused(c) PROVE TypeOK'
  BY <1>12 DEF PerRefused
<1>13. ASSUME NEW c \in Cores, PerUnlock(c) PROVE TypeOK'
  BY <1>13 DEF PerUnlock
<1>14. ASSUME NEW c \in Cores, IrqMask(c) PROVE TypeOK'
  BY <1>14 DEF IrqMask
<1>15. ASSUME NEW c \in Cores, Scan(c) PROVE TypeOK'
  <2>1. inbox[c] # << >> => Tail(inbox[c]) \in Seq(Words)
    BY HeadTailProperties
  <2>2. CASE inbox[c] = << >>
    BY <1>15, <2>2 DEF Scan, ParksOn
  <2>3. CASE inbox[c] # << >>
    <3>1. inbox' = [inbox EXCEPT ![c] = Tail(inbox[c])]
      BY <1>15, <2>3 DEF Scan, ParksOn
    <3>2. inbox' \in [Cores -> Seq(Words)]
      BY <2>1, <2>3, <3>1
    <3>3. isr' \in [Cores -> IsrLabels]
      BY <1>15, <2>3 DEF Scan, ParksOn
    <3> QED
      BY <1>15, <2>3, <3>2, <3>3 DEF Scan, ParksOn
  <2> QED
    BY <2>2, <2>3
<1>16. ASSUME NEW c \in Cores, Acknowledge(c) PROVE TypeOK'
  BY <1>16 DEF Acknowledge
<1>17. ASSUME NEW c \in Cores, Parked(c) PROVE TypeOK'
  BY <1>17 DEF Parked, Released
<1>18. ASSUME NEW c \in Cores, IrqReturn(c) PROVE TypeOK'
  BY <1>18, InterruptsType DEF IrqReturn
<1>19. ASSUME NEW c \in Cores, UserLock(c) PROVE TypeOK'
  BY <1>19 DEF UserLock, Taken, Refused
<1>20. ASSUME NEW c \in Cores, UserUnlock(c) PROVE TypeOK'
  BY <1>20 DEF UserUnlock
<1>21. ASSUME NEW c \in Cores, StartApi(c) PROVE TypeOK'
  BY <1>21 DEF StartApi, Begins
<1>22. ASSUME NEW c \in Cores, StartFlash(c) PROVE TypeOK'
  BY <1>22 DEF StartFlash, Begins
<1>23. ASSUME NEW c \in Cores, Acquire(c) PROVE TypeOK'
  BY <1>23 DEF Acquire, IdleMutexFree
<1>24. ASSUME NEW c \in Cores, Unlock(c) PROVE TypeOK'
  BY <1>24 DEF Unlock
<1>25. ASSUME NEW c \in Cores, Mask(c) PROVE TypeOK'
  BY <1>25 DEF Mask
<1>26. ASSUME NEW c \in Cores, Unmask(c) PROVE TypeOK'
  BY <1>26, InterruptsType DEF Unmask
<1>27. ASSUME NEW c \in Cores, PerCall(c) PROVE TypeOK'
  BY <1>27 DEF PerCall
<1>28. ASSUME NEW c \in Cores, PerLock(c) PROVE TypeOK'
  BY <1>28 DEF PerLock, Taken
<1>29. ASSUME NEW c \in Cores, SioInterrupt(c) PROVE TypeOK'
  BY <1>29 DEF SioInterrupt
<1>30. ASSUME NEW c \in Cores, UserInterrupt(c) PROVE TypeOK'
  BY <1>30 DEF UserInterrupt
<1>31. CASE UNCHANGED vars
  BY <1>31 DEF vars
<1> QED
  BY <1>1, <1>2, <1>3, <1>4, <1>5, <1>6, <1>7, <1>8, <1>9, <1>10, <1>11, <1>12, <1>13, <1>14, <1>15, <1>16, <1>17, <1>18, <1>19, <1>20, <1>21, <1>22, <1>23, <1>24, <1>25, <1>26, <1>27, <1>28, <1>29, <1>30, <1>31 DEF Next, StartUp, Proceed, Handle

-------------------------------------------------------------------------------
(* What the steps of the two FIFOs and of the mask stacks do.                  *)

\* An empty FIFO.
LEMMA EmptyWords == NoRequest(<< >>) /\ OneAtMost(<< >>)
BY DEF NoRequest, OneAtMost

\* Taking the oldest word: a request taken was the only one.
LEMMA TailWords ==
  ASSUME NEW s \in Seq(Words), s # << >>, OneAtMost(s)
  PROVE  /\ OneAtMost(Tail(s))
         /\ NoRequest(s) => NoRequest(Tail(s)) /\ Head(s) # "GOTOSLEEP"
         /\ Head(s) = "GOTOSLEEP" => NoRequest(Tail(s))
         /\ Head(s) # "GOTOSLEEP" /\ NoRequest(Tail(s)) => NoRequest(s)
<1>1. Len(s) \in Nat \ {0}
  BY EmptySeq
<1>2. /\ Len(Tail(s)) = Len(s) - 1
      /\ \A i \in 1..Len(s) - 1 : Tail(s)[i] = s[i + 1]
      /\ Head(s) = s[1]
  BY HeadTailProperties
<1>3. \A i \in 1..Len(s) : i = 1 \/ (i - 1 \in 1..Len(s) - 1 /\ s[i] = Tail(s)[i - 1])
  BY <1>1, <1>2
<1> QED
  BY <1>1, <1>2, <1>3 DEF OneAtMost, NoRequest

\* Adding a word: only a request to sleep counts.
LEMMA AppendWords ==
  ASSUME NEW s \in Seq(Words), NEW w \in Words
  PROVE  /\ w # "GOTOSLEEP" => (NoRequest(Append(s, w)) <=> NoRequest(s))
         /\ w # "GOTOSLEEP" /\ OneAtMost(s) => OneAtMost(Append(s, w))
         /\ NoRequest(s) => OneAtMost(Append(s, w))
<1>1. Len(s) \in Nat
  BY LenProperties
<1>2. /\ Len(Append(s, w)) = Len(s) + 1
      /\ \A i \in 1..Len(s) : Append(s, w)[i] = s[i]
      /\ Append(s, w)[Len(s) + 1] = w
  BY AppendProperties
<1>3. \A i \in 1..Len(Append(s, w)) :
        \/ i \in 1..Len(s) /\ Append(s, w)[i] = s[i]
        \/ i = Len(s) + 1 /\ Append(s, w)[i] = w
  BY <1>1, <1>2
<1> QED
  BY <1>1, <1>2, <1>3 DEF OneAtMost, NoRequest

\* noInterrupts() saves the mask it found on top of the stack.
LEMMA AppendMask ==
  ASSUME NEW s \in Seq(BOOLEAN), NEW m \in BOOLEAN
  PROVE  Append(s, m) # << >> /\ Last(Append(s, m)) = m
BY AppendProperties, EmptySeq DEF Last

-------------------------------------------------------------------------------
(* Every step keeps the invariant.                                             *)
LEMMA InvInit == Init => IInv
<1> SUFFICES ASSUME Init PROVE IInv
  OBVIOUS
<1>1. TypeOK
  BY TypeInit, SMTT(30)
<1> QED
  BY <1>1, EmptyWords
     DEF Init, IInv, IMasked, ISingle, IOwner, IToken, Token, IOne, IFlag, IFlash, FlashSteps,
         IPer, Section, Waiting, Excl

LEMMA InvStep == IInv /\ [Next]_vars => IInv'
<1> SUFFICES ASSUME IInv, [Next]_vars PROVE IInv'
  OBVIOUS
<1>0. TypeOK /\ TypeOK'
  BY TypeStep DEF IInv
<1> USE <1>0 DEF IInv, IMasked, ISingle, IOwner, IToken, Token, IOne, IFlag, Holds,
             IFlash, FlashSteps, IPer, TypeOK, Boot, Section, Waiting, Excl,
             Thread, Handler, maskVars, fifoVars, lockVars, configVars, sketchVars
<1>1. CASE Begin
  BY <1>1 DEF Begin
<1>2. CASE Launch
  BY <1>2 DEF Launch
<1>3. CASE Handshake
  BY <1>3, EmptyWords DEF Handshake, Drained
<1>4. CASE Bootrom
  <2>1. /\ inbox' = [inbox EXCEPT ![0] = Append(inbox[0], "zero"), ![1] = << >>]
        /\ NoRequest(Append(inbox[0], "zero")) <=> NoRequest(inbox[0])
        /\ OneAtMost(Append(inbox[0], "zero"))
    BY <1>4, AppendWords DEF Bootrom, Words
  <2> QED
    BY <1>4, <2>1, EmptyWords, ZenonT(30) DEF Bootrom
<1>5. CASE restartCore1
  BY <1>5 DEF restartCore1
<1>6. ASSUME NEW c \in Cores, registerCore(c) PROVE IInv'
  BY <1>6 DEF registerCore
<1>7. ASSUME NEW c \in Cores, Clear(c) PROVE IInv'
  BY <1>7 DEF Clear
<1>8. ASSUME NEW c \in Cores, Push(c) PROVE IInv'
  <2>1. /\ inbox' = [inbox EXCEPT ![Other(c)] = Append(inbox[Other(c)], "GOTOSLEEP")]
        /\ NoRequest(inbox[Other(c)]) => OneAtMost(Append(inbox[Other(c)], "GOTOSLEEP"))
    BY <1>8, AppendWords DEF Push, Words
  <2> QED
    BY <1>8, <2>1 DEF Push
<1>9. ASSUME NEW c \in Cores, Await(c) PROVE IInv'
  BY <1>9 DEF Await, Answered
<1>10. ASSUME NEW c \in Cores, Unpark(c) PROVE IInv'
  BY <1>10 DEF Unpark
<1>11. ASSUME NEW c \in Cores, Restore(c) PROVE IInv'
  BY <1>11 DEF Restore, interrupts
<1>12. ASSUME NEW c \in Cores, PerRefused(c) PROVE IInv'
  BY <1>12 DEF PerRefused
<1>13. ASSUME NEW c \in Cores, PerUnlock(c) PROVE IInv'
  BY <1>13 DEF PerUnlock
<1>14. ASSUME NEW c \in Cores, IrqMask(c) PROVE IInv'
  BY <1>14 DEF IrqMask, noInterrupts, Saved
<1>15. ASSUME NEW c \in Cores, Scan(c) PROVE IInv'
  <2>1. CASE inbox[c] = << >>
    BY <1>15, <2>1 DEF Scan, ParksOn
  <2>2. CASE inbox[c] # << >>
    <3>1. inbox' = [inbox EXCEPT ![c] = Tail(inbox[c])]
      BY <1>15, <2>2 DEF Scan, ParksOn
    <3>2. /\ OneAtMost(Tail(inbox[c]))
          /\ NoRequest(inbox[c]) => NoRequest(Tail(inbox[c])) /\ Head(inbox[c]) # "GOTOSLEEP"
          /\ Head(inbox[c]) = "GOTOSLEEP" => NoRequest(Tail(inbox[c]))
          /\ Head(inbox[c]) # "GOTOSLEEP" /\ NoRequest(Tail(inbox[c])) => NoRequest(inbox[c])
      BY <2>2, TailWords
    <3>3. CASE Head(inbox[c]) = "GOTOSLEEP"
      BY <1>15, <2>2, <3>1, <3>2, <3>3 DEF Scan, ParksOn
    <3>4. CASE Head(inbox[c]) # "GOTOSLEEP"
      BY <1>15, <2>2, <3>1, <3>2, <3>4 DEF Scan, ParksOn
    <3> QED
      BY <3>3, <3>4
  <2> QED
    BY <2>1, <2>2
<1>16. ASSUME NEW c \in Cores, Acknowledge(c) PROVE IInv'
  BY <1>16 DEF Acknowledge
<1>17. ASSUME NEW c \in Cores, Parked(c) PROVE IInv'
  BY <1>17 DEF Parked, Released
<1>18. ASSUME NEW c \in Cores, IrqReturn(c) PROVE IInv'
  BY <1>18 DEF IrqReturn, interrupts
<1>19. ASSUME NEW c \in Cores, UserLock(c) PROVE IInv'
  BY <1>19 DEF UserLock, Taken, Refused
<1>20. ASSUME NEW c \in Cores, UserUnlock(c) PROVE IInv'
  BY <1>20 DEF UserUnlock
<1>21. ASSUME NEW c \in Cores, StartApi(c) PROVE IInv'
  BY <1>21 DEF StartApi, Begins
<1>22. ASSUME NEW c \in Cores, StartFlash(c) PROVE IInv'
  <2>1. /\ irqStack' = [irqStack EXCEPT ![c] = Append(irqStack[c], primask[c])]
        /\ Append(irqStack[c], primask[c]) # << >>
        /\ Last(Append(irqStack[c], primask[c])) = primask[c]
    BY <1>22, AppendMask DEF StartFlash, noInterrupts, Saved
  <2> QED
    BY <1>22, <2>1 DEF StartFlash, Begins, noInterrupts, Saved
<1>23. ASSUME NEW c \in Cores, Acquire(c) PROVE IInv'
  BY <1>23 DEF Acquire, IdleMutexFree
<1>24. ASSUME NEW c \in Cores, Unlock(c) PROVE IInv'
  BY <1>24 DEF Unlock
<1>25. ASSUME NEW c \in Cores, Mask(c) PROVE IInv'
  BY <1>25 DEF Mask, noInterrupts, Saved
<1>26. ASSUME NEW c \in Cores, Unmask(c) PROVE IInv'
  BY <1>26 DEF Unmask, interrupts
<1>27. ASSUME NEW c \in Cores, PerCall(c) PROVE IInv'
  BY <1>27 DEF PerCall
<1>28. ASSUME NEW c \in Cores, PerLock(c) PROVE IInv'
  BY <1>28 DEF PerLock, Taken
<1>29. ASSUME NEW c \in Cores, SioInterrupt(c) PROVE IInv'
  BY <1>29 DEF SioInterrupt
<1>30. ASSUME NEW c \in Cores, UserInterrupt(c) PROVE IInv'
  BY <1>30 DEF UserInterrupt
<1>31. CASE UNCHANGED vars
  BY <1>31 DEF vars
<1> QED
  BY <1>1, <1>2, <1>3, <1>4, <1>5, <1>6, <1>7, <1>8, <1>9, <1>10, <1>11, <1>12, <1>13, <1>14, <1>15, <1>16, <1>17, <1>18, <1>19, <1>20, <1>21, <1>22, <1>23, <1>24, <1>25, <1>26, <1>27, <1>28, <1>29, <1>30, <1>31 DEF Next, StartUp, Proceed, Handle

(* IInv holds in every reachable state.                                        *)
THEOREM Invariance == Spec => []IInv
<1>1. Init => IInv
  BY InvInit
<1>2. IInv /\ [Next]_vars => IInv'
  BY InvStep
<1> QED
  BY <1>1, <1>2, PTL DEF Spec

-------------------------------------------------------------------------------
(* The variables keep their types, the saved masks included.                   *)
THEOREM TypeCorrect == Spec => []TypeOK
<1>1. IInv => TypeOK
  BY DEF IInv
<1> QED
  BY <1>1, Invariance, PTL

(* idleOtherCore() keeps its promise (docs/multicore.rst:28-33): between it    *)
(* and resumeOtherCore() the other core is parked with its interrupts masked,  *)
(* or was never started; whatever flash writers, sketches and restarts do.     *)
THEOREM ExclusiveCorrect == Spec => []Exclusive
<1>1. IInv => Exclusive
  <2> SUFFICES ASSUME IInv, NEW c \in Cores, pc[c] \in Excl PROVE Quiet(Other(c))
    BY DEF Exclusive
  <2>1. CASE multicore
    BY <2>1 DEF IInv, IFlag, Holds, IMasked, Quiet
  <2>2. CASE ~multicore
    BY <2>2 DEF IInv, ISingle, Quiet, Excl
  <2> QED
    BY <2>1, <2>2
<1> QED
  BY <1>1, Invariance, PTL

(* Nothing runs from flash while EEPROM, LittleFS or BOOTSEL has it            *)
(* (EEPROM.cpp:119-124): not the other core, not a handler of this one.        *)
THEOREM FlashAloneCorrect == Spec => []FlashAlone
<1>1. IInv /\ Exclusive => FlashAlone
  BY DEF IInv, IFlash, FlashSteps, Exclusive, FlashAlone, Section, Excl
<1> QED
  BY <1>1, Invariance, ExclusiveCorrect, PTL

(* _idleMutex and the flag carry one request at a time, so a core never takes  *)
(* the acknowledgement of an older request for its own.                        *)
THEOREM OneRequestCorrect == Spec => []OneRequest
<1>1. IInv => OneRequest
  BY DEF IInv, IOne, IToken, Token, NoRequest, OneAtMost, OneRequest, Section, Waiting,
         TypeOK
<1> QED
  BY <1>1, Invariance, PTL

(* interrupts() after a flash write puts back the mask from before it.         *)
THEOREM MaskRestoredCorrect == Spec => []MaskRestored
<1>1. IInv => MaskRestored
  BY DEF IInv, IFlash, FlashSteps, MaskRestored
<1> QED
  BY <1>1, Invariance, PTL

(* A CoreMutex, which only tells cores apart, still keeps a peripheral to one  *)
(* context: a handler finds the lock of its own thread taken and gives up.     *)
THEOREM PeripheralExclusiveCorrect == Spec => []PeripheralExclusive
<1>1. IInv => PeripheralExclusive
  BY DEF IInv, IPer, PeripheralExclusive, PerUsers, PerIsrUsers
<1> QED
  BY <1>1, Invariance, PTL

(* While a core is idled, its thread stays where it was and its handler stays  *)
(* in the busy-wait.                                                           *)
THEOREM StaysParkedCorrect == Spec => StaysParked
<1> DEFINE A == \A c \in Cores :
                  pc[c] \in Excl /\ pc'[c] \in Excl =>
                    pc'[Other(c)] = pc[Other(c)] /\ isr'[Other(c)] = isr[Other(c)]
<1>1. IInv /\ [Next]_vars => [A]_vars
  <2> SUFFICES ASSUME IInv, [Next]_vars, NEW c \in Cores,
                      pc[c] \in Excl, pc'[c] \in Excl
               PROVE  pc'[Other(c)] = pc[Other(c)] /\ isr'[Other(c)] = isr[Other(c)]
    OBVIOUS
  <2> DEFINE o == Other(c)
  <2> DEFINE Same == pc'[o] = pc[o] /\ isr'[o] = isr[o]
  <2>1. \/ isr[o] = "parked" /\ idled
        \/ c = 0 /\ o = 1 /\ pc[o] = "bootrom" /\ isr[o] = "none" /\ ~sioEnabled[o]
    BY DEF IInv, IFlag, Holds, ISingle, Excl
  <2>2. o \in Cores /\ c \in Cores /\ o # c
    OBVIOUS
  <2> USE <2>1, <2>2 DEF IInv, TypeOK, Excl, Boot, Thread, Handler
  <2>3. CASE Begin
    BY <2>3 DEF Begin
  <2>4. CASE Launch
    BY <2>4 DEF Launch
  <2>5. CASE Handshake
    BY <2>5 DEF Handshake, Drained
  <2>6. CASE Bootrom
    BY <2>6 DEF Bootrom, ISingle
  <2>7. CASE restartCore1
    BY <2>7 DEF restartCore1
  <2>8. ASSUME NEW d \in Cores, registerCore(d) PROVE Same
    BY <2>8 DEF registerCore
  <2>9. ASSUME NEW d \in Cores, Clear(d) PROVE Same
    BY <2>9 DEF Clear
  <2>10. ASSUME NEW d \in Cores, Push(d) PROVE Same
    BY <2>10 DEF Push
  <2>11. ASSUME NEW d \in Cores, Await(d) PROVE Same
    BY <2>11 DEF Await, Answered
  <2>12. ASSUME NEW d \in Cores, Unpark(d) PROVE Same
    BY <2>12 DEF Unpark
  <2>13. ASSUME NEW d \in Cores, Restore(d) PROVE Same
    BY <2>13 DEF Restore
  <2>14. ASSUME NEW d \in Cores, PerRefused(d) PROVE Same
    BY <2>14 DEF PerRefused
  <2>15. ASSUME NEW d \in Cores, PerUnlock(d) PROVE Same
    BY <2>15 DEF PerUnlock
  <2>16. ASSUME NEW d \in Cores, IrqMask(d) PROVE Same
    BY <2>16 DEF IrqMask
  <2>17. ASSUME NEW d \in Cores, Scan(d) PROVE Same
    BY <2>17 DEF Scan, ParksOn
  <2>18. ASSUME NEW d \in Cores, Acknowledge(d) PROVE Same
    BY <2>18 DEF Acknowledge
  <2>19. ASSUME NEW d \in Cores, Parked(d) PROVE Same
    BY <2>19 DEF Parked, Released
  <2>20. ASSUME NEW d \in Cores, IrqReturn(d) PROVE Same
    BY <2>20 DEF IrqReturn
  <2>21. ASSUME NEW d \in Cores, UserLock(d) PROVE Same
    BY <2>21 DEF UserLock
  <2>22. ASSUME NEW d \in Cores, UserUnlock(d) PROVE Same
    BY <2>22 DEF UserUnlock
  <2>23. ASSUME NEW d \in Cores, StartApi(d) PROVE Same
    BY <2>23 DEF StartApi, Begins
  <2>24. ASSUME NEW d \in Cores, StartFlash(d) PROVE Same
    BY <2>24 DEF StartFlash, Begins
  <2>25. ASSUME NEW d \in Cores, Acquire(d) PROVE Same
    BY <2>25 DEF Acquire, IdleMutexFree
  <2>26. ASSUME NEW d \in Cores, Unlock(d) PROVE Same
    BY <2>26 DEF Unlock
  <2>27. ASSUME NEW d \in Cores, Mask(d) PROVE Same
    BY <2>27 DEF Mask
  <2>28. ASSUME NEW d \in Cores, Unmask(d) PROVE Same
    BY <2>28 DEF Unmask
  <2>29. ASSUME NEW d \in Cores, PerCall(d) PROVE Same
    BY <2>29 DEF PerCall
  <2>30. ASSUME NEW d \in Cores, PerLock(d) PROVE Same
    BY <2>30 DEF PerLock
  <2>31. ASSUME NEW d \in Cores, SioInterrupt(d) PROVE Same
    BY <2>31 DEF SioInterrupt
  <2>32. ASSUME NEW d \in Cores, UserInterrupt(d) PROVE Same
    BY <2>32 DEF UserInterrupt
  <2>33. CASE UNCHANGED vars
    BY <2>33 DEF vars
  <2> QED
    BY <2>3, <2>4, <2>5, <2>6, <2>7, <2>8, <2>9, <2>10, <2>11, <2>12, <2>13, <2>14, <2>15, <2>16, <2>17, <2>18, <2>19, <2>20, <2>21, <2>22, <2>23, <2>24, <2>25, <2>26, <2>27, <2>28, <2>29, <2>30, <2>31, <2>32, <2>33 DEF Next, StartUp, Proceed, Handle
<1> QED
  BY <1>1, Invariance, PTL DEF Spec, StaysParked
===============================================================================
