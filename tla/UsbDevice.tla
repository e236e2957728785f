----------------------------- MODULE UsbDevice -----------------------------
(***************************************************************************)
(* The USB device: SerialUSB, the reports of Keyboard and Mouse, and the   *)
(* interrupt of every millisecond that runs TinyUSB's tud_task().  All     *)
(* share the stack under __usb_mutex.                                      *)
(*                                                                         *)
(* Calls come from the threads of both cores and from interrupt handlers   *)
(* of core 0 (the user's and usb_irq), which run to completion before the  *)
(* thread goes on and do not nest.  Loops go by calls of tud_ functions.    *)
(* tud_task() finds what the host did meanwhile: it may have read a packet, *)
(* reset the bus, configured the device, opened or closed the port.  That  *)
(* the bus is suspended or resumed takes effect in the interrupt.          *)
(***************************************************************************)
EXTENDS CoreMutex, Sequences, FiniteSetsExt

CONSTANTS
  Uses,        \* calls that a context makes
  Length,      \* bytes of a write()
  FifoSize,    \* CFG_TUD_CDC_TX_BUFSIZE
  Packet,      \* bytes of a packet, CFG_TUD_CDC_EP_BUFSIZE
  Second       \* clock steps in a second, after which write() gives up

Ctx  == {"main0", "main1", "user", "tick"}
Core == [c \in Ctx |-> IF c = "main1" THEN 1 ELSE 0]
\* read stands for peek(), available() and availableForWrite() too, report
\* for Keyboard's sendReport() and Mouse's move().
Kind == {"write", "read", "flush", "bool", "report", "tick"}
None == "none"

ASSUME UsbAssumption ==
  /\ Uses \in [Ctx -> SUBSET Kind] /\ Uses["tick"] = {"tick"}
  /\ \A c \in Ctx \ {"tick"} : "tick" \notin Uses[c]
  /\ {Length, FifoSize, Packet} \subseteq Nat \ {0} /\ Second \in Nat

VARIABLES
  mutex,   \* __usb_mutex
  owning,  \* contexts whose CoreMutex is _acquired
  pc,      \* the next step of each context, "out" when it makes no call
  call,    \* the call it makes, or None
  left,    \* bytes of its write() still to be handed over
  wrote,   \* its turn of the loop in write() handed some over
  usb,     \* the stack, see Stack
  since    \* time since last_avail_time, up to Second + 1

vars == <<mutex, owning, pc, call, left, wrote, usb, since>>

Labels == {"out", "enter", "copy", "task", "flush", "report", "last", "leave",
           "hangs"}
Byte   == [by : Ctx, n : 1 .. Length]
Stack  == [tx   : Seq(Byte),    \* FIFO of bytes to the host
           ep   : Seq(Byte),    \* packet in the endpoint
           gone : Seq(Byte),    \* last byte the host read or a reset cleared
           link : {"off", "on", "asleep"},    \* not configured, configured,
                                              \* and suspended after that
           line : BOOLEAN]      \* DTR: the host has opened the port
-----------------------------------------------------------------------------
Room(u) == FifoSize - Len(u.tx)

\* tud_cdc_connected(), tud_ready() among it.
Connected(u) == u.link = "on" /\ u.line

\* tud_cdc_write_flush(): a packet, when the endpoint is free.
Flushed(u) ==
  LET n == Min({Packet, Len(u.tx)}) IN
  IF u.link # "on" \/ u.ep # <<>> THEN u
  ELSE [u EXCEPT !.ep = SubSeq(u.tx, 1, n), !.tx = SubSeq(@, n + 1, Len(@))]

\* tud_cdc_write(): a full packet is flushed at once.
Written(u, bytes) ==
  LET v == [u EXCEPT !.tx = @ \o bytes]
  IN  IF Len(v.tx) >= Packet THEN Flushed(v) ELSE v

\* The last byte that was handed over and those on their way to the host.
Bytes(u) == u.gone \o u.ep \o u.tx

\* usbd_reset(), for a reset of the bus or a change of the configuration.
Reset(u) ==
  [u EXCEPT !.tx = <<>>, !.ep = <<>>, !.link = "off", !.line = FALSE,
            !.gone = IF Bytes(u) = <<>> THEN <<>> ELSE <<Bytes(u)[Len(Bytes(u))]>>]

\* A packet that was read makes room for the next one.
Read(u) ==
  IF u.ep = <<>> THEN u
  ELSE Flushed([u EXCEPT !.ep = <<>>, !.gone = <<u.ep[Len(u.ep)]>>])

\* tud_task() works off the events up to now: only a configured device has
\* its port opened.
Tasked(u, read, reset, configured, line) ==
  LET v == IF read THEN Read(u) ELSE u
      w == IF reset THEN Reset(v) ELSE v
      l == IF configured /\ w.link = "off" THEN "on" ELSE w.link
  IN  [w EXCEPT !.link = l, !.line = line /\ l # "off"]

Init == /\ mutex = NoCore /\ owning = {} /\ since = Second + 1
        /\ pc = [c \in Ctx |-> "out"] /\ call = [c \in Ctx |-> None]
        /\ left = [c \in Ctx |-> 0] /\ wrote = [c \in Ctx |-> FALSE]
        /\ usb = [tx |-> <<>>, ep |-> <<>>, gone |-> <<>>,
                  link |-> "off", line |-> FALSE]

Handlers  == {"user", "tick"}
InHandler == \E h \in Handlers : pc[h] # "out"

\* A thread of core 0 waits for handlers; a handler begins alone.
At(c, l) == /\ pc[c] = l
            /\ c = "main0" \/ (c \in Handlers /\ l = "out") => ~InHandler

Goto(c, l) == pc' = [pc EXCEPT ![c] = l]

Call(c) ==
  /\ At(c, "out") /\ Goto(c, "enter")
  /\ UNCHANGED <<mutex, owning, call, left, wrote, usb, since>>

\* A write() to a closed port resets the timeout, to the time of the reset.
Enter(c, k) ==
  /\ At(c, "enter") /\ k \in Uses[c] /\ Taken(mutex, Core[c])
  /\ mutex' = Core[c] /\ owning' = owning \cup {c} /\ call' = [call EXCEPT ![c] = k]
  /\ IF k = "write" /\ Connected(usb)
     THEN Goto(c, "copy") /\ left' = [left EXCEPT ![c] = Length]
     ELSE /\ Goto(c, IF k \in {"bool", "report", "tick"} THEN "task" ELSE "leave")
          /\ UNCHANGED left
  /\ since' = IF k = "write" /\ ~Connected(usb) THEN Second + 1 ELSE since
  /\ usb' = IF k = "flush" THEN Flushed(usb) ELSE usb
  /\ UNCHANGED wrote

\* usb_irq does not wait; a call that interrupted the owner cannot.
TurnedAway(c) == IF c = "tick" THEN ~Taken(mutex, Core[c])
                               ELSE Refused(mutex, Core[c])

\* Variant: usb_irq goes on too.
CarriesOnTick(k) == k \in {"report", "tick"}

\* sendReport() and move() do not look whether they own the mutex.
CarriesOn(k) == k = "report"

EnterRefused(c, k) ==
  /\ At(c, "enter") /\ k \in Uses[c] /\ TurnedAway(c)
  /\ IF CarriesOn(k) THEN Goto(c, "task") /\ call' = [call EXCEPT ![c] = k]
                     ELSE Goto(c, "out") /\ UNCHANGED call
  /\ UNCHANGED <<mutex, owning, left, wrote, usb, since>>

\* Head of the loop in write().
Copy(c) ==
  /\ At(c, "copy")
  /\ LET n == Min({left[c], Room(usb)})
         bytes == [i \in 1 .. n |-> [by |-> c, n |-> Length - left[c] + i]]
     IN  /\ Goto(c, IF left[c] = 0 THEN "leave" ELSE "task")
         /\ usb' = IF n > 0 THEN Written(usb, bytes) ELSE usb
         /\ left' = [left EXCEPT ![c] = @ - n]
         /\ wrote' = [wrote EXCEPT ![c] = n > 0]
  /\ UNCHANGED <<mutex, owning, call, since>>

Task(c) ==
  /\ At(c, "task") \/ At(c, "last")
  /\ Goto(c, IF pc[c] = "last" THEN "leave"
             ELSE CASE call[c] = "write"  -> "flush"
                    [] call[c] = "report" -> "report"
                    [] OTHER              -> "leave")
  /\ UNCHANGED <<mutex, owning, call, left, wrote, since>>
  /\ \E read \in {FALSE, usb.ep # <<>>}, reset, configured, line \in BOOLEAN :
       usb' = Tasked(usb, read, reset, configured, line)

\* Variant: a host that keeps the port open is waited for.
WaitsForHost(u) == ~Connected(u)

\* write() gives up on a closed port, or one not read for a second.
GivesUp(u) == ~Connected(u) \/ (Room(u) = 0 /\ since > Second)

Flush(c) ==
  /\ At(c, "flush")
  /\ usb' = Flushed(usb)
  /\ since' = IF wrote[c] THEN 0 ELSE since
  /\ Goto(c, IF ~wrote[c] /\ GivesUp(usb') THEN "leave" ELSE "copy")
  /\ wrote' = [wrote EXCEPT ![c] = FALSE]
  /\ UNCHANGED <<mutex, owning, call, left>>

\* A report goes to an endpoint of its own, or is dropped if that is busy.
Report(c) ==
  /\ At(c, "report")
  /\ Goto(c, "last") /\ UNCHANGED <<mutex, owning, call, left, wrote, usb, since>>

InStack(c) == pc[c] \in {"copy", "task", "flush", "report", "last", "hangs"}

\* TinyUSB claims an endpoint under a mutex of its own.  A handler that came
\* in although it was refused __usb_mutex may have interrupted the owner
\* there, and waits for it without end.
Hangs(c) ==
  /\ \E l \in {"task", "report", "last"} : At(c, l)
  /\ c \notin owning /\ \E d \in owning : InStack(d) /\ Core[d] = Core[c]
  /\ Goto(c, "hangs") /\ UNCHANGED <<mutex, owning, call, left, wrote, usb, since>>

\* ~CoreMutex()
Leave(c) ==
  /\ At(c, "leave")
  /\ mutex' = IF c \in owning THEN NoCore ELSE mutex
  /\ owning' = owning \ {c} /\ Goto(c, "out")
  /\ call' = [call EXCEPT ![c] = None]
  /\ left' = [left EXCEPT ![c] = 0] /\ wrote' = [wrote EXCEPT ![c] = FALSE]
  /\ UNCHANGED <<usb, since>>

Step(c) == \/ \E k \in Kind : Enter(c, k) \/ EnterRefused(c, k)
           \/ Copy(c) \/ Task(c) \/ Flush(c) \/ Report(c)
           \/ Hangs(c) \/ Leave(c)

Clock ==
  /\ since <= Second /\ since' = since + 1
  /\ UNCHANGED <<mutex, owning, pc, call, left, wrote, usb>>

\* The interrupt of the USB controller: the bus is suspended, or resumed.
Suspend ==
  /\ usb.link # "off"
  /\ usb' = [usb EXCEPT !.link = IF @ = "on" THEN "asleep" ELSE "on"]
  /\ UNCHANGED <<mutex, owning, pc, call, left, wrote, since>>

Next == Clock \/ Suspend \/ \E c \in Ctx : Call(c) \/ Step(c)

\* Handlers leave the thread of core 0 some time; a waiting call may lose
\* the mutex to the other core again and again.
Fairness == /\ WF_vars(Clock) /\ SF_vars(Step("main0"))
            /\ \A c \in Ctx \ {"main0"} : WF_vars(Step(c))

Spec == Init /\ [][Next]_vars /\ Fairness
-----------------------------------------------------------------------------
TypeOK ==
  /\ mutex \in Owners /\ owning \subseteq Ctx /\ since \in 0 .. Second + 1
  /\ pc \in [Ctx -> Labels] /\ call \in [Ctx -> Kind \cup {None}]
  /\ left \in [Ctx -> 0 .. Length] /\ wrote \in [Ctx -> BOOLEAN]
  /\ usb \in Stack /\ Len(usb.tx) <= FifoSize

(* TinyUSB is entered by one context at a time, whatever interrupts what - *)
(* but for a report sent by a handler that interrupted a call of its core: *)
(* Keyboard and Mouse go on when their CoreMutex is refused.               *)
OneInStack ==
  \A c, d \in Ctx : InStack(c) /\ InStack(d) /\ c # d =>
    \E b \in {c, d} : call[b] = "report" /\ b \in Handlers /\ b \notin owning

(* The bytes of a write() go to the host together and in order: each byte *)
(* in the FIFO and in the endpoint begins a write or follows its           *)
(* predecessor - with calls of both cores and of handlers, a host that     *)
(* stops reading, a port that closes, a suspended bus and a full FIFO in   *)
(* between.  A reset of the bus may take the head of a write(), whose tail *)
(* then goes to the host alone: nothing else follows the last byte that    *)
(* the reset cleared but this tail or the beginning of a write.            *)
Whole ==
  \A i \in 2 .. Len(Bytes(usb)) :
    LET b == Bytes(usb)[i]
    IN  b.n = 1 \/ Bytes(usb)[i - 1] = [by |-> b.by, n |-> b.n - 1]

(* The stack is always given back: also when the host stops reading in the *)
(* middle of a write(), when the bus is reset or suspended there, and when *)
(* a handler of core 0 waits for the call of core 1 - unless a report of a *)
(* handler that was refused the stack hangs in TinyUSB's own mutex.        *)
GivenBack ==
  (mutex # NoCore) ~> (mutex = NoCore \/ \E h \in Handlers : pc[h] = "hangs")
=============================================================================
