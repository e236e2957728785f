------------------------------ MODULE SerialUART ------------------------------
(* The receive and transmit paths of a hardware serial port, SerialUART.cpp:   *)
(* bytes go from the UART's own FIFO into a ring in memory, moved there by the *)
(* UART interrupt or by a call of the sketch, and from the ring to the reader. *)
(*                                                                             *)
(* A context is a core's thread or the interrupt handler active on that core.  *)
(* One action is one access to shared state.                                   *)
EXTENDS Integers, Sequences, SequencesExt, CoreMutex

CONSTANTS
    Calls,         \* Calls[x]: the methods context x calls
    Sizes,         \* the arguments given to setFIFOSize
    PollingModes,  \* the arguments given to setPollingMode
    DefaultSize,   \* the initial value of _fifoSize
    HwDepth,       \* depth of the UART's receive FIFO
    MaxBytes,      \* bound on the bytes that arrive
    MaxCalls       \* MaxCalls[x]: bound on the calls context x makes

Kinds    == {"thread", "isr"}
Contexts == Cores \X Kinds
CoreOf(x) == x[1]

Methods == {"begin", "end", "read", "peek", "available", "overflow", "write"}

ASSUME SerialAssumption ==
    /\ Calls \in [Contexts -> SUBSET Methods]
    /\ Sizes \subseteq Nat \ {0}
    /\ PollingModes \subseteq BOOLEAN
    /\ DefaultSize \in Nat \ {0, 1}
    /\ HwDepth \in Nat \ {0}
    /\ MaxBytes \in Nat /\ MaxCalls \in [Contexts -> Nat]

\* begin() and end() are not made for two cores to call at once: one thread does.
ASSUME OneConfigures ==
    \A x \in Contexts :
        Calls[x] \cap {"begin", "end"} # {} => x = <<0, "thread">>

VARIABLES
    pc,         \* pc[x]: where context x is, "idle" when in no method
    op,         \* op[x]: the method it is in; "uart" in the UART interrupt
    byte,       \* byte[x]: the local it holds: a received byte, a result
    wasOn,      \* wasOn[x]: the interrupt enable _pumpFIFO found
    left,       \* left[x]: bytes of a write() still to be sent
    nvic,       \* nvic[c]: the UART interrupt is enabled on core c
    mutex,      \* _mutex
    fifoMutex,  \* _fifoMutex
    rx,         \* the UART's receive FIFO
    up,         \* the UART is out of reset
    raised,     \* its receive interrupt is raised
    unmasked,   \* uart_set_irq_enables has enabled it
    running,    \* _running
    polling,    \* _polling
    overflow,   \* _overflow
    size,       \* _fifoSize
    queue,      \* _queue, the empty function when it is deleted
    writer,     \* _writer
    reader,     \* _reader
    arrived,    \* how many bytes have arrived; byte n is the n-th
    got,        \* the bytes read() has returned
    calls       \* calls[x]: how many methods context x has called

localVars  == <<byte, wasOn, left>>
lockVars   == <<mutex, fifoMutex>>
uartVars   == <<rx, up, raised, unmasked, arrived>>
configVars == <<running, polling, size>>
ringVars   == <<queue, writer, reader, overflow>>
histVars   == <<got, calls>>
vars == <<pc, op, nvic, localVars, lockVars, uartVars, configVars, ringVars, histVars>>

NoByte  == 0                     \* what an unwritten slot of the ring holds
Bytes   == 1 .. MaxBytes
Deleted == <<>>
\* _fifoSize is one more than asked for: one slot is always unused.
RingSizes == {DefaultSize} \cup {n + 1 : n \in Sizes}
MessageLength == 2               \* bytes of one write(p, len)

Drain  == {"clear", "poll", "check", "store", "advance"}    \* _handleIRQ's body
Labels == {"idle", "enter", "running", "result", "next", "hold", "forget",
           "putc", "leave", "try", "fifo", "exit", "restore"}
          \cup Drain
          \cup {"alloc", "indices", "listen", "ready",
                "stop", "disable", "endMutex", "endFifo", "delete", "unlock"}

Init ==
    /\ pc = [x \in Contexts |-> "idle"]
    /\ op = [x \in Contexts |-> "none"]
    /\ byte = [x \in Contexts |-> NoByte]
    /\ wasOn = [x \in Contexts |-> FALSE]
    /\ left = [x \in Contexts |-> 0]
    /\ nvic = [c \in Cores |-> FALSE]
    /\ mutex = NoCore /\ fifoMutex = NoCore
    /\ rx = <<>> /\ arrived = 0
    /\ up = FALSE /\ raised = FALSE /\ unmasked = FALSE
    /\ running = FALSE /\ polling = FALSE /\ overflow = FALSE
    /\ size = DefaultSize /\ queue = Deleted
    /\ writer = 0 /\ reader = 0
    /\ got = <<>>
    /\ calls = [x \in Contexts |-> 0]

-------------------------------------------------------------------------------
(* Context x can run: a handler preempts the thread of its core, and no other  *)
(* handler.                                                                    *)
Runs(x) == x[2] = "thread" => pc[<<CoreOf(x), "isr">>] = "idle"

Step(x, l, m) ==
    /\ Runs(x) /\ pc[x] = l
    /\ pc' = [pc EXCEPT ![x] = m]

\* x returns from the method it is in.
Returns(x) ==
    /\ op' = [op EXCEPT ![x] = "none"]
    /\ byte' = [byte EXCEPT ![x] = NoByte]

(* A byte reaches the UART.  Its FIFO drops it when full, without the program  *)
(* being told; otherwise the receive interrupt is raised.                      *)
Arrive ==
    /\ up /\ arrived < MaxBytes
    /\ arrived' = arrived + 1
    /\ IF Len(rx) < HwDepth
       THEN rx' = Append(rx, arrived') /\ raised' = TRUE
       ELSE UNCHANGED <<rx, raised>>
    /\ UNCHANGED <<pc, op, nvic, localVars, lockVars, up, unmasked, configVars,
                   ringVars, histVars>>

-------------------------------------------------------------------------------
(* begin() and end(), with the settings made before begin().                   *)

(* setFIFOSize and setPollingMode: refused while the port runs.                *)
Configure(x) ==
    /\ "begin" \in Calls[x] /\ Runs(x) /\ pc[x] = "idle" /\ ~running
    /\ \/ size' \in {n + 1 : n \in Sizes} /\ UNCHANGED polling
       \/ polling' \in PollingModes /\ UNCHANGED size
    /\ UNCHANGED <<pc, op, nvic, localVars, lockVars, uartVars, running, ringVars,
                   histVars>>

CallBegin(x) ==
    /\ "begin" \in Calls[x] /\ calls[x] < MaxCalls[x]
    /\ Step(x, "idle", IF running THEN "stop" ELSE "alloc")
    /\ op' = [op EXCEPT ![x] = "begin"]
    /\ calls' = [calls EXCEPT ![x] = @ + 1]
    /\ UNCHANGED <<nvic, localVars, lockVars, uartVars, configVars, ringVars, got>>

CallEnd(x) ==
    /\ "end" \in Calls[x] /\ calls[x] < MaxCalls[x] /\ running
    /\ Step(x, "idle", "stop")
    /\ op' = [op EXCEPT ![x] = "end"]
    /\ calls' = [calls EXCEPT ![x] = @ + 1]
    /\ UNCHANGED <<nvic, localVars, lockVars, uartVars, configVars, ringVars, got>>

(* A new ring; uart_init resets the UART, which empties its FIFO.              *)
Alloc(x) ==
    /\ Step(x, "alloc", "indices")
    /\ overflow' = FALSE
    /\ queue' = [i \in 0 .. size - 1 |-> NoByte]
    /\ up' = TRUE /\ rx' = <<>> /\ raised' = FALSE /\ unmasked' = FALSE
    /\ UNCHANGED <<op, nvic, localVars, lockVars, arrived, configVars, writer,
                   reader, histVars>>

Indices(x) ==
    /\ Step(x, "indices", IF polling THEN "ready" ELSE "listen")
    /\ writer' = 0 /\ reader' = 0
    /\ UNCHANGED <<op, nvic, localVars, lockVars, uartVars, configVars, queue,
                   overflow, histVars>>

(* irq_set_enabled acts on the calling core only.                              *)
Listen(x) ==
    /\ Step(x, "listen", "ready")
    /\ nvic' = [nvic EXCEPT ![CoreOf(x)] = TRUE]
    /\ unmasked' = TRUE
    /\ UNCHANGED <<op, localVars, lockVars, rx, up, raised, arrived, configVars,
                   ringVars, histVars>>

Ready(x) ==
    /\ Step(x, "ready", "idle") /\ Returns(x)
    /\ running' = TRUE
    /\ UNCHANGED <<nvic, wasOn, left, lockVars, uartVars, polling, size, ringVars,
                   histVars>>

Stop(x) ==
    /\ Step(x, "stop", IF polling THEN "endMutex" ELSE "disable")
    /\ running' = FALSE
    /\ UNCHANGED <<op, nvic, localVars, lockVars, uartVars, polling, size, ringVars,
                   histVars>>

Disable(x) ==
    /\ Step(x, "disable", "endMutex")
    /\ nvic' = [nvic EXCEPT ![CoreOf(x)] = FALSE]
    /\ UNCHANGED <<op, localVars, lockVars, uartVars, configVars, ringVars, histVars>>

\* Variant: end() does not wait for a call that is under way.
EndsAnyway == TRUE
EndsWhenFree == mutex = NoCore

EndMutex(x) ==
    /\ EndsWhenFree
    /\ Step(x, "endMutex", "endFifo")
    /\ mutex' = CoreOf(x)
    /\ UNCHANGED <<op, nvic, localVars, fifoMutex, uartVars, configVars, ringVars,
                   histVars>>

EndFifo(x) ==
    /\ fifoMutex = NoCore
    /\ Step(x, "endFifo", "delete")
    /\ fifoMutex' = CoreOf(x)
    /\ UNCHANGED <<op, nvic, localVars, mutex, uartVars, configVars, ringVars, histVars>>

(* uart_deinit puts the UART back in reset, with whatever it had received.     *)
Delete(x) ==
    /\ Step(x, "delete", "unlock")
    /\ up' = FALSE /\ rx' = <<>> /\ raised' = FALSE /\ unmasked' = FALSE
    /\ queue' = Deleted
    /\ UNCHANGED <<op, nvic, localVars, lockVars, arrived, configVars, writer,
                   reader, overflow, histVars>>

Unlock(x) ==
    /\ Step(x, "unlock", IF op[x] = "begin" THEN "alloc" ELSE "idle")
    /\ mutex' = NoCore /\ fifoMutex' = NoCore
    /\ IF op[x] = "begin" THEN UNCHANGED <<op, byte>> ELSE Returns(x)
    /\ UNCHANGED <<nvic, wasOn, left, uartVars, configVars, ringVars, histVars>>

-------------------------------------------------------------------------------
(* _handleIRQ(): move what the UART has received to the ring.                  *)

(* The UART interrupt of core c.                                               *)
Interrupt(c) ==
    /\ nvic[c] /\ up /\ unmasked /\ raised
    /\ Step(<<c, "isr">>, "idle", "try")
    /\ op' = [op EXCEPT ![<<c, "isr">>] = "uart"]
    /\ UNCHANGED <<nvic, localVars, lockVars, uartVars, configVars, ringVars, histVars>>

\* Variant: the interrupt is acknowledged before the mutex is tried.
RefusedQuiet == FALSE

\* A refused handler leaves the interrupt raised, to be taken again.
RefusedLeaves == raised

(* Somebody else is moving bytes: the handler gives up.                        *)
TryRefused(x) ==
    /\ fifoMutex # NoCore
    /\ Step(x, "try", "idle") /\ Returns(x)
    /\ raised' = RefusedLeaves
    /\ UNCHANGED <<nvic, wasOn, left, lockVars, rx, up, unmasked, arrived, configVars,
                   ringVars, histVars>>

\* Variant: the interrupt handler does not ask for _fifoMutex.
HandlerBarges == TRUE
HandlerMayDrain == fifoMutex = NoCore

Try(x) ==
    /\ HandlerMayDrain
    /\ Step(x, "try", "clear")
    /\ fifoMutex' = CoreOf(x)
    /\ UNCHANGED <<op, nvic, localVars, mutex, uartVars, configVars, ringVars, histVars>>

(* The interrupt is acknowledged before the FIFO is emptied.                   *)
Clear(x) ==
    /\ Step(x, "clear", "poll")
    /\ raised' = FALSE
    /\ UNCHANGED <<op, nvic, localVars, lockVars, rx, up, unmasked, arrived, configVars,
                   ringVars, histVars>>

(* uart_is_readable and uart_getc.  Taking the last byte lowers the interrupt. *)
GetByte(x) ==
    /\ rx # <<>>
    /\ Step(x, "poll", "check")
    /\ byte' = [byte EXCEPT ![x] = Head(rx)]
    /\ rx' = Tail(rx)
    /\ raised' = (raised /\ rx' # <<>>)
    /\ UNCHANGED <<op, nvic, wasOn, left, lockVars, up, unmasked, arrived, configVars,
                   ringVars, histVars>>

(* With nothing left to read the interrupt handler and _pumpFIFO give back     *)
(* _fifoMutex; in polling mode nobody took it.                                 *)
Emptied(x) ==
    /\ rx = <<>>
    /\ Step(x, "poll", IF op[x] = "uart" \/ ~polling THEN "exit"
                        ELSE IF op[x] = "write" THEN "putc" ELSE "result")
    /\ UNCHANGED <<op, nvic, localVars, lockVars, uartVars, configVars, ringVars, histVars>>

\* Variant: the writer runs into the end of the ring.
FollowingRaw(i) == i + 1
Following(i) == IF i + 1 = size THEN 0 ELSE i + 1

\* Variant: the ring is used to its last slot.
FullLate == FALSE
Full == Following(writer) = reader

Room(x) ==
    /\ ~Full
    /\ Step(x, "check", "store")
    /\ UNCHANGED <<op, nvic, localVars, lockVars, uartVars, configVars, ringVars, histVars>>

NoRoom(x) ==
    /\ Full
    /\ Step(x, "check", "poll")
    /\ overflow' = TRUE
    /\ byte' = [byte EXCEPT ![x] = NoByte]
    /\ UNCHANGED <<op, nvic, wasOn, left, lockVars, uartVars, configVars, queue, writer,
                   reader, histVars>>

Store(x) ==
    /\ Step(x, "store", "advance")
    /\ queue' = [queue EXCEPT ![writer] = byte[x]]
    /\ UNCHANGED <<op, nvic, localVars, lockVars, uartVars, configVars, writer, reader,
                   overflow, histVars>>

Advance(x) ==
    /\ Step(x, "advance", "poll")
    /\ writer' = Following(writer)
    /\ byte' = [byte EXCEPT ![x] = NoByte]
    /\ UNCHANGED <<op, nvic, wasOn, left, lockVars, uartVars, configVars, queue, reader,
                   overflow, histVars>>

(* The end of _handleIRQ in the handler, of the locked part of _pumpFIFO.      *)
Exit(x) ==
    /\ Step(x, "exit", IF op[x] = "uart" THEN "idle" ELSE "restore")
    /\ fifoMutex' = NoCore
    /\ IF op[x] = "uart" THEN Returns(x) ELSE UNCHANGED <<op, byte>>
    /\ UNCHANGED <<nvic, wasOn, left, mutex, uartVars, configVars, ringVars, histVars>>

-------------------------------------------------------------------------------
(* The methods that construct a CoreMutex on _mutex.                           *)

(* A thread calls a method; an interrupt handler of the sketch does.           *)
Call(x) ==
    /\ calls[x] < MaxCalls[x]
    /\ \E m \in Calls[x] \ {"begin", "end"} : op' = [op EXCEPT ![x] = m]
    /\ Step(x, "idle", "enter")
    /\ calls' = [calls EXCEPT ![x] = @ + 1]
    /\ UNCHANGED <<nvic, localVars, lockVars, uartVars, configVars, ringVars, got>>

Enter(x) ==
    /\ Taken(mutex, CoreOf(x))
    /\ Step(x, "enter", "running")
    /\ mutex' = CoreOf(x)
    /\ UNCHANGED <<op, nvic, localVars, fifoMutex, uartVars, configVars, ringVars, histVars>>

\* Variant: a handler that finds its own core's lock waits for it.
NeverTurnedAway(x) == FALSE
TurnedAway(x) == Refused(mutex, CoreOf(x))

EnterRefused(x) ==
    /\ TurnedAway(x)
    /\ Step(x, "enter", "idle") /\ Returns(x)
    /\ UNCHANGED <<nvic, wasOn, left, lockVars, uartVars, configVars, ringVars, histVars>>

NotRunning(x) ==
    /\ ~running
    /\ Step(x, "running", "leave")
    /\ UNCHANGED <<op, nvic, localVars, lockVars, uartVars, configVars, ringVars, histVars>>

\* Variant: _pumpFIFO looks at the enable after it has cleared it.
FoundCleared(c) == FALSE
Found(c) == nvic[c]

(* Every method but overflow() first moves bytes when polled; the ones that    *)
(* look at the ring do so in _pumpFIFO otherwise, which turns off the UART     *)
(* interrupt of its own core.                                                  *)
Running(x) ==
    /\ running
    /\ CASE op[x] = "overflow" ->
               Step(x, "running", "hold") /\ UNCHANGED <<nvic, wasOn, left>>
         [] polling /\ op[x] # "overflow" ->
               /\ Step(x, "running", "clear") /\ UNCHANGED <<nvic, wasOn>>
               /\ left' = [left EXCEPT ![x] = IF op[x] = "write" THEN MessageLength ELSE 0]
         [] ~polling /\ op[x] = "write" ->
               /\ Step(x, "running", "putc") /\ UNCHANGED <<nvic, wasOn>>
               /\ left' = [left EXCEPT ![x] = MessageLength]
         [] OTHER ->
               /\ Step(x, "running", "fifo") /\ UNCHANGED left
               /\ wasOn' = [wasOn EXCEPT ![x] = Found(CoreOf(x))]
               /\ nvic' = [nvic EXCEPT ![CoreOf(x)] = FALSE]
    /\ UNCHANGED <<op, byte, lockVars, uartVars, configVars, ringVars, histVars>>

PumpFifo(x) ==
    /\ fifoMutex = NoCore
    /\ Step(x, "fifo", "clear")
    /\ fifoMutex' = CoreOf(x)
    /\ UNCHANGED <<op, nvic, localVars, mutex, uartVars, configVars, ringVars, histVars>>

Restore(x) ==
    /\ Step(x, "restore", "result")
    /\ nvic' = [nvic EXCEPT ![CoreOf(x)] = wasOn[x]]
    /\ UNCHANGED <<op, localVars, lockVars, uartVars, configVars, ringVars, histVars>>

(* (_writer - _reader) % _fifoSize in 32-bit unsigned arithmetic: below zero   *)
(* the difference is 2^32 too large before the remainder is taken.             *)
Two32(n) == ((65536 % n) * (65536 % n)) % n
Available ==
    IF writer >= reader THEN (writer - reader) % size
    ELSE (writer - reader + Two32(size)) % size

(* What read(), peek() and available() find in the ring.                       *)
Result(x) ==
    /\ Step(x, "result", IF op[x] = "read" /\ writer # reader THEN "next" ELSE "leave")
    /\ byte' = [byte EXCEPT ![x] = IF op[x] = "available" THEN Available
                                    ELSE IF writer # reader THEN queue[reader] ELSE NoByte]
    /\ UNCHANGED <<op, nvic, wasOn, left, lockVars, uartVars, configVars, ringVars, histVars>>

\* read() frees the slot only once its byte has been taken.
NextReader(x) ==
    /\ Step(x, "next", "leave")
    /\ reader' = (reader + 1) % size
    /\ got' = Append(got, byte[x])
    /\ UNCHANGED <<op, nvic, localVars, lockVars, uartVars, configVars, queue, writer,
                   overflow, calls>>

(* overflow(): the flag is read, and then cleared.                             *)
Hold(x) ==
    /\ Step(x, "hold", "forget")
    /\ UNCHANGED <<op, nvic, localVars, lockVars, uartVars, configVars, ringVars, histVars>>

Forget(x) ==
    /\ Step(x, "forget", "leave")
    /\ overflow' = FALSE
    /\ UNCHANGED <<op, nvic, localVars, lockVars, uartVars, configVars, queue, writer,
                   reader, histVars>>

(* write(p, len) sends one byte at a time, waiting for the UART each time.     *)
PutByte(x) ==
    /\ Step(x, "putc", IF left[x] = 1 THEN "leave" ELSE "putc")
    /\ left' = [left EXCEPT ![x] = @ - 1]
    /\ UNCHANGED <<op, nvic, byte, wasOn, lockVars, uartVars, configVars, ringVars, histVars>>

(* ~CoreMutex.                                                                 *)
Leave(x) ==
    /\ Step(x, "leave", "idle") /\ Returns(x)
    /\ mutex' = NoCore
    /\ UNCHANGED <<nvic, wasOn, left, fifoMutex, uartVars, configVars, ringVars, histVars>>

-------------------------------------------------------------------------------
EndSteps(x)   == Stop(x) \/ Disable(x) \/ EndMutex(x) \/ EndFifo(x) \/ Delete(x) \/ Unlock(x)
BeginSteps(x) == Alloc(x) \/ Indices(x) \/ Listen(x) \/ Ready(x)
DrainSteps(x) == \/ TryRefused(x) \/ Try(x) \/ Clear(x) \/ GetByte(x) \/ Emptied(x)
                 \/ Room(x) \/ NoRoom(x) \/ Store(x) \/ Advance(x) \/ Exit(x)
MethodSteps(x) == \/ Enter(x) \/ EnterRefused(x) \/ NotRunning(x) \/ Running(x)
                  \/ PumpFifo(x) \/ Restore(x) \/ Result(x) \/ NextReader(x)
                  \/ Hold(x) \/ Forget(x) \/ PutByte(x) \/ Leave(x)

\* What context x does by itself once it is in a method or a handler.
Continue(x) == EndSteps(x) \/ BeginSteps(x) \/ DrainSteps(x) \/ MethodSteps(x)

Next ==
    \/ Arrive
    \/ \E c \in Cores : Interrupt(c)
    \/ \E x \in Contexts : \/ Configure(x) \/ CallBegin(x) \/ CallEnd(x) \/ Call(x)
                           \/ Continue(x)

Spec == Init /\ [][Next]_vars

(* A core runs its threads and takes its enabled interrupts; nobody has to     *)
(* send a byte or to call a method.                                            *)
FairSpec ==
    /\ Spec
    /\ \A x \in Contexts : WF_vars(Continue(x))
    /\ \A c \in Cores : WF_vars(Interrupt(c))

-------------------------------------------------------------------------------
\* The ring exists and its indices are set.
Built == queue # Deleted /\ \A x \in Contexts : pc[x] # "indices"

(* What is in the port: the ring from the reader on, the byte a context is     *)
(* moving, and the UART's FIFO.  A new ring is empty until its indices are set.*)
Held == IF ~Built THEN <<>>
        ELSE [k \in 1 .. (writer - reader) % size |-> queue[(reader + k - 1) % size]]

Moving == {x \in Contexts : pc[x] \in {"check", "store", "advance"}}
Transit == Held \o [k \in 1 .. (IF Moving = {} THEN 0 ELSE 1) |->
                       byte[CHOOSE x \in Moving : TRUE]] \o rx

Port == INSTANCE ByteChannel WITH transit <- Transit

TypeOK ==
    /\ pc \in [Contexts -> Labels]
    /\ op \in [Contexts -> Methods \cup {"none", "uart"}]
    /\ byte \in [Contexts -> Nat]
    /\ wasOn \in [Contexts -> BOOLEAN]
    /\ left \in [Contexts -> 0 .. MessageLength]
    /\ nvic \in [Cores -> BOOLEAN]
    /\ mutex \in Owners /\ fifoMutex \in Owners
    /\ rx \in Seq(Bytes) /\ Len(rx) <= HwDepth /\ arrived \in 0 .. MaxBytes
    /\ up \in BOOLEAN /\ raised \in BOOLEAN /\ unmasked \in BOOLEAN
    /\ running \in BOOLEAN /\ polling \in BOOLEAN /\ overflow \in BOOLEAN
    /\ size \in RingSizes
    /\ queue = Deleted \/ \E n \in RingSizes : queue \in [0 .. n - 1 -> 0 .. MaxBytes]
    /\ writer \in Nat /\ reader \in Nat
    /\ Built => DOMAIN queue = 0 .. size - 1 /\ writer < size /\ reader < size
    /\ got \in Seq(Nat)
    /\ DOMAIN calls = Contexts
    /\ \A x \in Contexts : calls[x] \in 0 .. MaxCalls[x]

(* Bytes are read in the order they arrived, none twice and none invented,     *)
(* although two cores and their interrupt handlers move them, and across       *)
(* begin() and end(): the port implements ByteChannel.                         *)
Delivers == Port!ChannelSpec

(* While a context may use the ring, it exists: end() does not delete it under *)
(* a reader, a pump or the interrupt handler, of either core.                  *)
RingAlive ==
    \A x \in Contexts :
        pc[x] \in {"check", "store", "advance", "result", "next"} => Built

(* One context at a time moves bytes from the UART to the ring, whether it is  *)
(* an interrupt handler, a pump or a polling call.                             *)
OneDrainer == \A x, y \in Contexts : pc[x] \in Drain /\ pc[y] \in Drain => x = y

(* The bytes of one write() are not mixed with those of another, not even when *)
(* an interrupt handler writes while its own core's thread does.               *)
WritesWhole == \A x, y \in Contexts : left[x] > 0 /\ left[y] > 0 => x = y

(* Turning the interrupt off in _pumpFIFO is undone: when the port runs on     *)
(* interrupts, the core that began it takes them unless it is pumping.         *)
StaysEnabled ==
    (running /\ ~polling) =>
        \/ nvic[0]
        \/ \E x \in Contexts : CoreOf(x) = 0 /\ wasOn[x] /\ op[x] # "uart"
             /\ pc[x] \in Drain \cup {"fifo", "exit", "restore"}

(* available() returns the number of bytes the ring held.                      *)
AvailableCounts ==
    [][\A x \in Contexts :
          (Result(x) /\ op[x] = "available") => byte'[x] = Len(Held)]_vars

(* No byte is forgotten in the UART: while one is there, the interrupt is      *)
(* raised or somebody has still to look, even when a handler gave up because   *)
(* another core was at the end of a pump.                                      *)
NoneForgotten ==
    (rx # <<>> /\ unmasked) => raised \/ \E x \in Contexts : pc[x] \in Drain

(* Every call returns: no context waits for a lock that will not be released.  *)
CallsReturn == []<>(\A x \in Contexts : pc[x] = "idle")
================================================================================
