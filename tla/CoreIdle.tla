------------------------------- MODULE CoreIdle -------------------------------
(* Pausing the other core: rp2040.idleOtherCore(), resumeOtherCore() and       *)
(* restartCore1() (RP2040Support.h), the flash writers that use them           *)
(* (EEPROM, LittleFS, BOOTSEL), the nested interrupt masks they run under      *)
(* (wiring_private.cpp), start-up (main.cpp), and the CoreMutex-guarded        *)
(* peripherals a core may be in the middle of using when it is paused.         *)
(*                                                                             *)
(* Each core is a thread (pc) that its interrupt handlers (isr) preempt.       *)
(* One action is one access to shared state.                                   *)
EXTENDS Integers, Sequences, SequencesExt, CoreMutex

CONSTANTS
    FlashCores,    \* cores whose sketch writes flash or reads BOOTSEL
    ApiCores,      \* cores whose sketch calls idleOtherCore/resumeOtherCore
    InsideCores,   \* of those, the ones that use a peripheral in between
    IsrCores,      \* cores with an interrupt handler that uses the peripheral
    MaskCores,     \* cores whose sketch also masks interrupts on its own
    MaxRestarts,   \* bound on calls of restartCore1
    MaxInterrupts  \* bound on the interrupts that use the peripheral

ASSUME CoreIdleAssumption ==
    /\ FlashCores \subseteq Cores /\ ApiCores \subseteq Cores
    /\ InsideCores \subseteq Cores /\ IsrCores \subseteq Cores
    /\ MaskCores \subseteq Cores
    /\ MaxRestarts \in Nat /\ MaxInterrupts \in Nat

VARIABLES
    pc,          \* pc[c]: where core c's thread is
    op,          \* op[c]: whether its section is a flash write or the sketch's own
    isr,         \* isr[c]: the interrupt handler active on core c and where it is
    primask,     \* primask[c]: interrupts are masked on core c
    irqStack,    \* _irqStack[c]: the masks saved by noInterrupts()
    sioEnabled,  \* the NVIC enable of core c's SIO interrupt
    inbox,       \* inbox[c]: core c's hardware FIFO, oldest word first
    multicore,   \* _multicore: fifo.begin(2) was called
    idled,       \* __otherCoreIdled
    idleOwner,   \* _idleMutex
    perOwner,    \* the mutex of a peripheral both cores use
    restarts,    \* how often core 1 has been restarted
    interruptsSeen,  \* how many interrupts have used the peripheral
    before       \* before[c]: primask[c] when core c's section began

vars == <<pc, op, isr, primask, irqStack, sioEnabled, inbox, multicore, idled,
          idleOwner, perOwner, restarts, interruptsSeen, before>>

Words == {"GOTOSLEEP", "zero"}
FifoDepth == 8           \* each direction of the SIO FIFO holds 8 words

Boot     == {"begin", "launch", "handshake", "register", "off", "bootrom"}
Excl     == {"excl", "inTry", "inUse"}          \* idleOtherCore has returned
Waiting  == {"clear", "push", "await"}          \* inside idleOtherCore
Section  == Waiting \cup Excl                   \* holding _idleMutex
Labels   == Boot \cup Section
            \cup {"run", "acquire", "unpark", "restore", "perTry", "perUse",
                  "relaunch", "rehandshake"}
IsrLabels == {"none", "irq", "scan", "ack", "parked", "leave", "usrTry", "usrUse"}

Init ==
    /\ pc = [c \in Cores |-> IF c = 0 THEN "begin" ELSE "bootrom"]
    /\ op = [c \in Cores |-> "api"]
    /\ isr = [c \in Cores |-> "none"]
    /\ primask = [c \in Cores |-> FALSE]
    /\ irqStack = [c \in Cores |-> <<>>]
    /\ sioEnabled = [c \in Cores |-> FALSE]
    /\ inbox = [c \in Cores |-> <<>>]
    /\ multicore = FALSE
    /\ idled = FALSE
    /\ idleOwner = NoCore
    /\ perOwner = NoCore
    /\ restarts = 0
    /\ interruptsSeen = 0
    /\ before = [c \in Cores |-> FALSE]

maskVars   == <<primask, irqStack>>
fifoVars   == <<sioEnabled, inbox>>
lockVars   == <<idled, idleOwner>>
configVars == <<multicore, restarts, interruptsSeen>>
sketchVars == <<op, before>>

-------------------------------------------------------------------------------
(* A step of core c's thread from l to m: it runs when no handler does.        *)
Thread(c, l, m) ==
    /\ pc[c] = l /\ isr[c] = "none"
    /\ pc' = [pc EXCEPT ![c] = m]
    /\ UNCHANGED isr

(* A step of core c's handler.  Handlers share one priority: none preempts     *)
(* another.                                                                    *)
Handler(c, i, j) ==
    /\ isr[c] = i
    /\ isr' = [isr EXCEPT ![c] = j]
    /\ UNCHANGED <<pc, sketchVars>>

\* Variant: a mask inside a mask is not saved, as if masks did not nest.
SavedFlat(c) == IF primask[c] THEN irqStack[c] ELSE Append(irqStack[c], FALSE)

\* The masks saved once noInterrupts() has added the one it found.
Saved(c) == Append(irqStack[c], primask[c])

noInterrupts(c) ==
    /\ irqStack' = [irqStack EXCEPT ![c] = Saved(c)]
    /\ primask' = [primask EXCEPT ![c] = TRUE]

(* interrupts() restores the mask that the matching noInterrupts() found, and  *)
(* does nothing when none is saved.                                            *)
interrupts(c) ==
    IF irqStack[c] = <<>>
    THEN UNCHANGED maskVars
    ELSE /\ primask' = [primask EXCEPT ![c] = Last(irqStack[c])]
         /\ irqStack' = [irqStack EXCEPT ![c] = Front(@)]

-------------------------------------------------------------------------------
(* Start-up: main() on core 0, main1() on core 1.                              *)

(* fifo.begin(2) when the sketch has a setup1 or loop1, else fifo.begin(1).    *)
Begin ==
    /\ \E two \in BOOLEAN :
           /\ Thread(0, "begin", IF two THEN "launch" ELSE "register")
           /\ multicore' = two
    /\ UNCHANGED <<restarts, interruptsSeen, perOwner>>
    /\ UNCHANGED <<maskVars, fifoVars, lockVars, sketchVars>>

(* multicore_launch_core1: the SIO interrupt of core 0 is off while the words  *)
(* of the handshake are exchanged with core 1's boot ROM, ...                  *)
Launch ==
    /\ \/ Thread(0, "launch", "handshake")
       \/ Thread(0, "relaunch", "rehandshake")
    /\ sioEnabled' = [sioEnabled EXCEPT ![0] = FALSE]
    /\ UNCHANGED <<maskVars, inbox, lockVars, configVars, sketchVars, perOwner>>

\* Variant: the last echo of the handshake stays in core 0's FIFO.
EchoLeft == [c \in Cores |-> IF c = 0 THEN <<"entry">> ELSE <<>>]

\* multicore_fifo_drain and the boot ROM leave nothing in the FIFOs.
Drained == [c \in Cores |-> <<>>]

(* ... which ends with core 1 in main1; the enable that core 0's SIO interrupt *)
(* had before is put back.                                                     *)
Handshake ==
    /\ pc[0] \in {"handshake", "rehandshake"} /\ isr[0] = "none"
    /\ pc[1] = "bootrom"
    /\ pc' = [pc EXCEPT ![0] = IF @ = "rehandshake" THEN "run" ELSE "register",
                        ![1] = "register"]
    /\ sioEnabled' = [sioEnabled EXCEPT ![0] = (pc[0] = "rehandshake")]
    /\ inbox' = Drained
    /\ UNCHANGED <<isr, maskVars, lockVars, configVars, sketchVars, perOwner>>

(* fifo.registerCore(): words already waiting raise the interrupt at once.     *)
registerCore(c) ==
    /\ Thread(c, "register", "run")
    /\ sioEnabled' = [sioEnabled EXCEPT ![c] = TRUE]
    /\ UNCHANGED <<maskVars, inbox, lockVars, configVars, sketchVars, perOwner>>

(* restartCore1: multicore_reset_core1 stops core 1 wherever it is.  Its       *)
(* registers and its interrupt controller are lost; what it left in memory     *)
(* (locks, saved masks, the words it sent) stays.  Taking or freeing a mutex   *)
(* is one step here: a reset in the middle of one, with the hardware spin lock *)
(* of the mutex held, is left out.                                             *)
restartCore1 ==
    /\ multicore /\ restarts < MaxRestarts
    /\ pc[0] = "run" /\ isr[0] = "none"
    /\ pc' = [pc EXCEPT ![0] = "relaunch", ![1] = "off"]
    /\ isr' = [isr EXCEPT ![1] = "none"]
    /\ primask' = [primask EXCEPT ![1] = FALSE]
    /\ sioEnabled' = [sioEnabled EXCEPT ![1] = FALSE]
    /\ restarts' = restarts + 1
    /\ UNCHANGED <<multicore, interruptsSeen, irqStack, inbox, perOwner>>
    /\ UNCHANGED <<lockVars, sketchVars>>

(* Core 1's boot ROM drains its own mailbox, then sends a 0 to core 0.         *)
Bootrom ==
    /\ pc[1] = "off" /\ Len(inbox[0]) < FifoDepth
    /\ pc' = [pc EXCEPT ![1] = "bootrom"]
    /\ inbox' = [inbox EXCEPT ![0] = Append(@, "zero"), ![1] = <<>>]
    /\ UNCHANGED <<isr, maskVars, sioEnabled, lockVars, configVars, sketchVars, perOwner>>

-------------------------------------------------------------------------------
(* idleOtherCore() ... resumeOtherCore() by the thread of core c.              *)

(* The call is made by the sketch, or by a flash writer that masked interrupts *)
(* first.  It returns at once when only one core runs.                         *)
Begins(c, kind) ==
    /\ Thread(c, "run", IF multicore THEN "acquire" ELSE "excl")
    /\ op' = [op EXCEPT ![c] = kind]
    /\ before' = [before EXCEPT ![c] = primask[c]]
    /\ UNCHANGED <<fifoVars, lockVars, configVars, perOwner>>

StartApi(c) == c \in ApiCores /\ Begins(c, "api") /\ UNCHANGED maskVars

\* Variant: a flash writer that leaves its own interrupts on.
StartFlashUnmasked(c) ==
    /\ c \in FlashCores /\ Begins(c, "flash")
    /\ irqStack' = [irqStack EXCEPT ![c] = Saved(c)] /\ UNCHANGED primask

StartFlash(c) == c \in FlashCores /\ Begins(c, "flash") /\ noInterrupts(c)

\* Variant: no mutex between the requests of the two cores.
IdleMutexIgnored == TRUE
IdleMutexFree == idleOwner = NoCore

Acquire(c) ==
    /\ IdleMutexFree
    /\ Thread(c, "acquire", "clear")
    /\ idleOwner' = c
    /\ UNCHANGED <<maskVars, fifoVars, idled, configVars, sketchVars, perOwner>>

Clear(c) ==
    /\ Thread(c, "clear", "push")
    /\ idled' = FALSE
    /\ UNCHANGED <<maskVars, fifoVars, idleOwner, configVars, sketchVars, perOwner>>

Push(c) ==
    /\ Len(inbox[Other(c)]) < FifoDepth
    /\ Thread(c, "push", "await")
    /\ inbox' = [inbox EXCEPT ![Other(c)] = Append(@, "GOTOSLEEP")]
    /\ UNCHANGED <<maskVars, sioEnabled, lockVars, configVars, sketchVars, perOwner>>

\* Variant: idleOtherCore() returns without waiting for the flag.
AnsweredAlways == TRUE
Answered == idled

Await(c) ==
    /\ Answered
    /\ Thread(c, "await", "excl")
    /\ UNCHANGED <<maskVars, fifoVars, lockVars, configVars, sketchVars, perOwner>>

(* resumeOtherCore() frees the mutex and only then releases the other core.    *)
Unlock(c) ==
    /\ Thread(c, "excl", IF multicore THEN "unpark" ELSE "restore")
    /\ idleOwner' = IF multicore THEN NoCore ELSE idleOwner
    /\ UNCHANGED <<maskVars, fifoVars, idled, configVars, sketchVars, perOwner>>

Unpark(c) ==
    /\ Thread(c, "unpark", "restore")
    /\ idled' = FALSE
    /\ UNCHANGED <<maskVars, fifoVars, idleOwner, configVars, sketchVars, perOwner>>

(* The flash writer's interrupts(); the sketch's own section has none.         *)
Restore(c) ==
    /\ Thread(c, "restore", "run")
    /\ IF op[c] = "flash" THEN interrupts(c) ELSE UNCHANGED maskVars
    /\ UNCHANGED <<fifoVars, lockVars, configVars, sketchVars, perOwner>>

(* The sketch's own noInterrupts(), one level deep, and interrupts(), which it *)
(* may also call with nothing to restore.                                      *)
Mask(c) ==
    /\ c \in MaskCores /\ ~primask[c]
    /\ Thread(c, "run", "run") /\ noInterrupts(c)
    /\ UNCHANGED <<fifoVars, lockVars, configVars, sketchVars, perOwner>>

Unmask(c) ==
    /\ c \in MaskCores
    /\ Thread(c, "run", "run") /\ interrupts(c)
    /\ UNCHANGED <<fifoVars, lockVars, configVars, sketchVars, perOwner>>

-------------------------------------------------------------------------------
(* A peripheral (Serial1, USB, ...) used under its CoreMutex by a thread.      *)
PerCall(c) ==
    /\ \/ Thread(c, "run", "perTry")
       \/ c \in InsideCores /\ op[c] = "api" /\ Thread(c, "excl", "inTry")
    /\ UNCHANGED <<maskVars, fifoVars, lockVars, configVars, sketchVars, perOwner>>

PerLock(c) ==
    /\ Thread(c, "perTry", "perUse") \/ Thread(c, "inTry", "inUse")
    /\ Taken(perOwner, c)
    /\ perOwner' = c
    /\ UNCHANGED <<maskVars, fifoVars, lockVars, configVars, sketchVars>>

PerRefused(c) ==
    /\ Thread(c, "perTry", "run") \/ Thread(c, "inTry", "excl")
    /\ Refused(perOwner, c)
    /\ UNCHANGED <<maskVars, fifoVars, lockVars, configVars, sketchVars, perOwner>>

PerUnlock(c) ==
    /\ Thread(c, "perUse", "run") \/ Thread(c, "inUse", "excl")
    /\ perOwner' = NoCore
    /\ UNCHANGED <<maskVars, fifoVars, lockVars, configVars, sketchVars>>

-------------------------------------------------------------------------------
(* The SIO interrupt is a level: it is pending while the FIFO holds a word.    *)
SioInterrupt(c) ==
    /\ sioEnabled[c] /\ ~primask[c] /\ inbox[c] # <<>>
    /\ Handler(c, "none", "irq")
    /\ UNCHANGED <<maskVars, fifoVars, lockVars, configVars, perOwner>>

IrqMask(c) ==
    /\ Handler(c, "irq", "scan")
    /\ noInterrupts(c)
    /\ UNCHANGED <<fifoVars, lockVars, configVars, perOwner>>

\* Variant: the handler parks on any word.
ParksOnAny(word) == TRUE
ParksOn(word) == word = "GOTOSLEEP"

(* The loop over multicore_fifo_rvalid(): any other word is thrown away.       *)
Scan(c) ==
    /\ \/ inbox[c] = <<>> /\ Handler(c, "scan", "leave") /\ UNCHANGED inbox
       \/ /\ inbox[c] # <<>>
          /\ Handler(c, "scan", IF ParksOn(Head(inbox[c])) THEN "ack" ELSE "scan")
          /\ inbox' = [inbox EXCEPT ![c] = Tail(@)]
    /\ UNCHANGED <<maskVars, sioEnabled, lockVars, configVars, perOwner>>

Acknowledge(c) ==
    /\ Handler(c, "ack", "parked")
    /\ idled' = TRUE
    /\ UNCHANGED <<maskVars, fifoVars, idleOwner, configVars, perOwner>>

\* Variant: the handler does not wait to be released.
ReleasedAlways == TRUE
Released == ~idled

Parked(c) ==
    /\ Released
    /\ Handler(c, "parked", "leave")
    /\ UNCHANGED <<maskVars, fifoVars, lockVars, configVars, perOwner>>

IrqReturn(c) ==
    /\ Handler(c, "leave", "none")
    /\ interrupts(c)
    /\ UNCHANGED <<fifoVars, lockVars, configVars, perOwner>>

(* Any other handler that uses the peripheral: it finds the lock free, or      *)
(* owned by the thread it interrupted and gives up, or waits for the other     *)
(* core.                                                                       *)
UserInterrupt(c) ==
    /\ c \in IsrCores /\ ~primask[c] /\ pc[c] \notin Boot
    /\ interruptsSeen < MaxInterrupts
    /\ Handler(c, "none", "usrTry")
    /\ interruptsSeen' = interruptsSeen + 1
    /\ UNCHANGED <<maskVars, fifoVars, lockVars, multicore, restarts, perOwner>>

UserLock(c) ==
    /\ \/ Taken(perOwner, c) /\ Handler(c, "usrTry", "usrUse") /\ perOwner' = c
       \/ Refused(perOwner, c) /\ Handler(c, "usrTry", "none") /\ UNCHANGED perOwner
    /\ UNCHANGED <<maskVars, fifoVars, lockVars, configVars>>

UserUnlock(c) ==
    /\ Handler(c, "usrUse", "none")
    /\ perOwner' = NoCore
    /\ UNCHANGED <<maskVars, fifoVars, lockVars, configVars>>

-------------------------------------------------------------------------------
(* Steps a thread takes once it is inside a call, and steps of a handler.      *)
Proceed(c) ==
    \/ registerCore(c)
    \/ Clear(c) \/ Push(c) \/ Await(c) \/ Unpark(c) \/ Restore(c)
    \/ PerRefused(c) \/ PerUnlock(c)

Handle(c) ==
    \/ IrqMask(c) \/ Scan(c) \/ Acknowledge(c) \/ Parked(c) \/ IrqReturn(c)
    \/ UserLock(c) \/ UserUnlock(c)

StartUp == Begin \/ Launch \/ Handshake \/ Bootrom

Next ==
    \/ StartUp \/ restartCore1
    \/ \E c \in Cores :
          \/ Proceed(c) \/ Handle(c)
          \/ StartApi(c) \/ StartFlash(c) \/ Acquire(c) \/ Unlock(c)
          \/ Mask(c) \/ Unmask(c)
          \/ PerCall(c) \/ PerLock(c)
          \/ SioInterrupt(c) \/ UserInterrupt(c)

Spec == Init /\ [][Next]_vars

(* Both cores keep executing, a pending SIO interrupt is taken in some gap     *)
(* between two masks, and a lock that stays free is taken.  A sketch ends its  *)
(* section and unmasks the interrupts it masked (strong fairness: it may do    *)
(* other things first), and the other core does not keep a handler from the    *)
(* peripheral for ever.  Nothing more is said of _idleMutex: two cores that    *)
(* compete for it may starve one another.                                      *)
Fairness ==
    /\ WF_vars(StartUp)
    /\ \A c \in Cores :
        /\ WF_vars(Proceed(c)) /\ WF_vars(Handle(c)) /\ SF_vars(SioInterrupt(c))
        /\ WF_vars(Acquire(c)) /\ WF_vars(PerLock(c))
        /\ SF_vars(Unlock(c)) /\ SF_vars(Unmask(c)) /\ SF_vars(UserLock(c))

FairSpec == Spec /\ Fairness

-------------------------------------------------------------------------------
(* The types of the variables.                                                 *)
TypeOK ==
    /\ pc \in [Cores -> Labels]
    /\ op \in [Cores -> {"api", "flash"}]
    /\ isr \in [Cores -> IsrLabels]
    /\ primask \in [Cores -> BOOLEAN]
    /\ irqStack \in [Cores -> Seq(BOOLEAN)]
    /\ sioEnabled \in [Cores -> BOOLEAN]
    /\ inbox \in [Cores -> Seq(Words)]
    /\ multicore \in BOOLEAN
    /\ idled \in BOOLEAN
    /\ idleOwner \in Owners
    /\ perOwner \in Owners
    /\ restarts \in Nat /\ interruptsSeen \in Nat
    /\ before \in [Cores -> BOOLEAN]

\* Core c executes nothing but the busy-wait of its SIO handler, or never ran.
Quiet(c) == \/ isr[c] = "parked" /\ primask[c]
            \/ pc[c] = "bootrom"

(* While a core is between idleOtherCore() and resumeOtherCore(), the other    *)
(* core is parked in RAM with its interrupts masked (docs/multicore.rst:32).   *)
Exclusive == \A c \in Cores : pc[c] \in Excl => Quiet(Other(c))

(* Nothing at all runs from flash while a flash writer erases or programs it:  *)
(* the other core is quiet and no handler of the writing core can start.       *)
FlashAlone ==
    \A c \in Cores :
        pc[c] = "excl" /\ op[c] = "flash" =>
            Quiet(Other(c)) /\ primask[c] /\ isr[c] = "none"

(* A core acts only on an acknowledgement of its own request: from the moment  *)
(* it starts to ask until it is answered, the other core is not about to       *)
(* acknowledge an older one, and no more than one request is in flight.        *)
OneRequest ==
    \A c \in Cores :
        LET asked == {i \in 1..Len(inbox[c]) : inbox[c][i] = "GOTOSLEEP"}
        IN  /\ asked = {} \/ isr[c] # "ack"
            /\ \A i, j \in asked : i = j
            /\ pc[Other(c)] \in {"clear", "push"} => asked = {} /\ isr[c] # "ack"

(* interrupts() at the end of a flash write puts back exactly the mask the     *)
(* write began under, whatever handlers nested their own masks meanwhile.      *)
MaskRestored ==
    \A c \in Cores :
        pc[c] = "restore" /\ op[c] = "flash" /\ isr[c] = "none" =>
            irqStack[c] # <<>> /\ Last(irqStack[c]) = before[c]

\* Contexts using the peripheral, and so its registers and buffers.
PerUsers == {c \in Cores : pc[c] \in {"perUse", "inUse"}}
PerIsrUsers == {c \in Cores : isr[c] = "usrUse"}

(* At most one context of one core is using a CoreMutex-guarded peripheral,    *)
(* although the lock only tells cores apart.                                   *)
PeripheralExclusive ==
    /\ \A c, d \in Cores : c \in PerUsers /\ d \in PerUsers => c = d
    /\ PerUsers \cap Cores # {} => PerIsrUsers = {}
    /\ \A c, d \in PerIsrUsers : c = d

(* While the other core is idled its thread does not move, and its handler     *)
(* leaves the busy-wait only after resumeOtherCore() has let it go.            *)
StaysParked ==
    [][\A c \in Cores :
          pc[c] \in Excl /\ pc'[c] \in Excl =>
              pc'[Other(c)] = pc[Other(c)] /\ isr'[Other(c)] = isr[Other(c)]]_vars

-------------------------------------------------------------------------------
(* The states from which a request to idle is never answered.                  *)

\* Core c waits for an acknowledgement, and the thread of the other core, which
\* no handler has interrupted and which has masked its interrupts (a flash writer,
\* or a sketch after noInterrupts()), waits for the mutex that c owns: neither
\* moves again.
Embrace(c) ==
    /\ pc[c] = "await" /\ ~idled
    /\ pc[Other(c)] = "acquire" /\ isr[Other(c)] = "none" /\ primask[Other(c)]

\* Core c waits for a peripheral whose lock the core it keeps parked holds.
ParkedHolder(c) ==
    /\ isr[Other(c)] = "parked" /\ idled /\ perOwner = Other(c)
    /\ pc[c] = "inTry" \/ isr[c] = "usrTry"

\* Core 1 was reset while it used the peripheral, and core 0 waits for it: in a
\* handler, or in a section.
LeakedPeripheral ==
    /\ perOwner = 1 /\ pc[1] \notin {"perUse", "inUse"} /\ isr[1] # "usrUse"
    /\ pc[0] = "inTry" \/ isr[0] = "usrTry"

\* Core 1 was reset after it had asked core 0 to sleep: nobody resumes core 0.
Orphaned ==
    isr[0] = "parked" /\ idled /\ idleOwner = 1 /\ pc[1] \notin Section

Blocked == \/ LeakedPeripheral \/ Orphaned
           \/ \E c \in Cores : Embrace(c) \/ ParkedHolder(c)

(* idleOtherCore() returns, unless one of the dead ends above is reached.  A   *)
(* request to a core that is only slow, or contends for the mutex, is answered.*)
Acknowledged ==
    \A c \in Cores :
        pc[c] = "clear" ~> pc[c] \in Excl \/ pc[c] = "off" \/ Blocked

(* A parked core runs again, unless its peer waits for what it holds, or for   *)
(* what a reset left locked, or the peer was reset.                            *)
Resumed ==
    \A c \in Cores :
        isr[c] = "parked" ~> isr[c] # "parked" \/ Blocked

(* idleOtherCore() "waits for the other core to acknowledge before returning": *)
(* two cores that both write flash (all the run lets them do) never wait for   *)
(* each other.                                                                 *)
NoEmbrace == \A c \in Cores : ~Embrace(c)
===============================================================================
