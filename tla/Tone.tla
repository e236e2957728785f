-------------------------------- MODULE Tone --------------------------------
(***************************************************************************)
(* tone() and noTone(): a square wave made by a state machine of the PIO,  *)
(* with an alarm that ends it.  Threads of both cores and a handler of     *)
(* core 0 call them; the timer interrupt of core 0 runs the callback of an *)
(* alarm, without _toneMutex.  Handlers of core 0 do not nest, and its     *)
(* thread waits for them.                                                  *)
(***************************************************************************)
EXTENDS CoreMutex, FiniteSets

CONSTANTS Pin,       \* pins that have tones
          Caller,    \* contexts that call: "main0", "main1", "user"
          Address,   \* where a Tone can be allocated, numbers from 1 on
          Alarm,     \* ids of alarms, numbers from 1 on
          Machines   \* state machines that can be claimed

Core == [c \in Caller |-> IF c = "main1" THEN 1 ELSE 0]

ASSUME ToneAssumption ==
  /\ Caller \subseteq {"main0", "main1", "user"}
  /\ IsFiniteSet(Address) /\ IsFiniteSet(Alarm) /\ Machines \in Nat
  /\ Address \subseteq Nat \ {0} /\ Alarm \subseteq Nat \ {0}

None == "none"

VARIABLES
  mutex,     \* _toneMutex
  pc,        \* the next step of each caller
  job,       \* what the call that owns the mutex is about
  toneMap,   \* _toneMap: the Tone of a pin, or 0
  tone,      \* the memory at each address
  heap,      \* pending alarms: the Tone of each id
  irq,       \* the alarm whose callback runs, and its next step
  free,      \* unclaimed state machines
  loaded,    \* the program is in the instruction memory
  raced      \* history: core 1 acted on a Tone whose callback was running

vars == <<mutex, pc, job, toneMap, tone, heap, irq, free, loaded, raced>>

\* noTone(), or tone() with or without a duration.
Want  == {"stop", "endless", "timed"}
NoJob == [pin |-> None, want |-> "stop", at |-> 0, id |-> 0]
Idle == [id |-> 0, at |-> 0, pc |-> "none"]
Job  == [pin : Pin \cup {None}, want : Want, at : Address \cup {0}, id : Alarm \cup {0}]
\* The live Tones, and what memory that was one still holds; timed is a
\* history: the tone that plays was asked for with a duration, and got it.
Cell == [live : BOOLEAN, alarm : Alarm \cup {0}, on : BOOLEAN, timed : BOOLEAN]
-----------------------------------------------------------------------------
Pending     == DOMAIN heap
Without(id) == [i \in Pending \ {id} |-> heap[i]]

\* The high byte of an id is bumped when it has fired, so that an id that a
\* Tone still holds does not come back (before 256 more alarms).
FreshIds == Alarm \ (Pending \cup {irq.id} \cup {tone[t].alarm : t \in Address})

Blank == [live |-> FALSE, alarm |-> 0, on |-> FALSE, timed |-> FALSE]

Init == /\ mutex = NoCore /\ pc = [c \in Caller |-> "out"]
        /\ job = NoJob
        /\ toneMap = [p \in Pin |-> 0] /\ tone = [t \in Address |-> Blank]
        /\ heap = [i \in {} |-> 0] /\ irq = Idle /\ raced = FALSE
        /\ free = Machines /\ loaded = FALSE

InHandler == irq # Idle \/ ("user" \in Caller /\ pc["user"] # "out")

At(c, l) == /\ pc[c] = l
            /\ (c = "main0" \/ (c = "user" /\ l = "out")) => ~InHandler

Goto(c, l) == pc' = [pc EXCEPT ![c] = l]

Call(c) ==
  /\ At(c, "out") /\ Goto(c, "enter")
  /\ UNCHANGED <<mutex, job, toneMap, tone, heap, irq, free, loaded, raced>>

Enter(c, p, want) ==
  /\ At(c, "enter") /\ Taken(mutex, Core[c]) /\ mutex' = Core[c]
  /\ job' = [pin |-> p, want |-> want, at |-> toneMap[p], id |-> 0]
  /\ Goto(c, IF toneMap[p] # 0 THEN "find" ELSE IF want = "stop" THEN "leave" ELSE "new")
  /\ UNCHANGED <<toneMap, tone, heap, irq, free, loaded, raced>>

EnterRefused(c) ==
  /\ At(c, "enter") /\ Refused(mutex, Core[c]) /\ Goto(c, "out")
  /\ UNCHANGED <<mutex, job, toneMap, tone, heap, irq, free, loaded, raced>>

\* new Tone and PIOProgram::prepare(): the machine it has claimed stays
\* claimed when the program does not fit.
New(c) ==
  /\ At(c, "new")
  /\ \/ free = 0 /\ Goto(c, "leave") /\ UNCHANGED <<job, tone, free, loaded>>
     \/ /\ free > 0 /\ ~loaded
        /\ free' = free - 1 /\ Goto(c, "leave") /\ UNCHANGED <<job, tone, loaded>>
     \/ /\ free > 0 /\ free' = free - 1 /\ loaded' = TRUE
        /\ \E t \in Address :
             /\ ~tone[t].live /\ tone' = [tone EXCEPT ![t] = [Blank EXCEPT !.live = TRUE]]
             /\ job' = [job EXCEPT !.at = t]
        /\ Goto(c, "act")
  /\ UNCHANGED <<mutex, toneMap, heap, irq, raced>>

\* Variant: noTone() leaves the alarm to itself.
NoAlarmStop == job.want = "stop" \/ tone[job.at].alarm = 0

NoAlarm == tone[job.at].alarm = 0

Find(c) ==
  /\ At(c, "find")
  /\ job' = [job EXCEPT !.id = tone[job.at].alarm]
  /\ Goto(c, IF NoAlarm THEN "act" ELSE "cancel")
  /\ UNCHANGED <<mutex, toneMap, tone, heap, irq, free, loaded, raced>>

\* cancel_alarm() does nothing for an alarm that has fired.
Cancel(c) ==
  /\ At(c, "cancel") /\ heap' = Without(job.id)
  /\ tone' = [tone EXCEPT ![job.at].alarm = 0] /\ Goto(c, "act")
  /\ UNCHANGED <<mutex, job, toneMap, irq, free, loaded, raced>>

Start(c) ==
  /\ At(c, "act") /\ job.want # "stop"
  /\ tone' = [tone EXCEPT ![job.at].on = TRUE, ![job.at].timed = job.want = "timed"]
  /\ toneMap' = [toneMap EXCEPT ![job.pin] = job.at]
  /\ raced' = (raced \/ irq.at = job.at)
  /\ Goto(c, IF job.want = "timed" THEN "add" ELSE "leave")
  /\ UNCHANGED <<mutex, job, heap, irq, free, loaded>>

Delete(c) ==
  /\ At(c, "act") /\ job.want = "stop"
  /\ tone' = [tone EXCEPT ![job.at] = Blank]
  /\ toneMap' = [toneMap EXCEPT ![job.pin] = 0]
  /\ free' = free + 1 /\ raced' = (raced \/ irq.at = job.at)
  /\ Goto(c, "leave") /\ UNCHANGED <<mutex, job, heap, irq, loaded>>

\* add_alarm_in_ms() gives the alarm an id, or ...
Add(c) ==
  /\ At(c, "add")
  /\ \E id \in FreshIds :
       /\ heap' = [i \in Pending \cup {id} |-> IF i = id THEN job.at ELSE heap[i]]
       /\ job' = [job EXCEPT !.id = id]
  /\ Goto(c, "store")
  /\ UNCHANGED <<mutex, toneMap, tone, irq, free, loaded, raced>>

\* Variant: fire_if_past is false.
Passed(m) == m

\* The callback, run by the caller: fire_if_past is true.
Missed(m) == [m EXCEPT !.alarm = 0, !.on = FALSE]

\* ... finds it due already and calls the callback itself, ...
AddMissed(c) ==
  /\ At(c, "add") /\ tone' = [tone EXCEPT ![job.at] = Missed(@)]
  /\ Goto(c, "leave")
  /\ UNCHANGED <<mutex, job, toneMap, heap, irq, free, loaded, raced>>

\* ... or has no place for another alarm: the tone has no end.
AddFailed(c) ==
  /\ At(c, "add") /\ tone' = [tone EXCEPT ![job.at].timed = FALSE]
  /\ Goto(c, "leave")
  /\ UNCHANGED <<mutex, job, toneMap, heap, irq, free, loaded, raced>>

\* The alarm may have fired by now: the id that is stored is then stale.
Store(c) ==
  /\ At(c, "store") /\ tone' = [tone EXCEPT ![job.at].alarm = job.id]
  /\ Goto(c, "leave")
  /\ UNCHANGED <<mutex, job, toneMap, heap, irq, free, loaded, raced>>

Leave(c) ==
  /\ At(c, "leave") /\ mutex' = NoCore /\ job' = NoJob /\ Goto(c, "out")
  /\ UNCHANGED <<toneMap, tone, heap, irq, free, loaded, raced>>

Step(c) == \/ \E p \in Pin, want \in Want : Enter(c, p, want)
           \/ EnterRefused(c) \/ New(c) \/ Find(c) \/ Cancel(c) \/ Start(c)
           \/ Delete(c) \/ Add(c) \/ AddMissed(c) \/ AddFailed(c) \/ Store(c) \/ Leave(c)

Fire(id) ==
  /\ ~InHandler /\ id \in Pending /\ heap' = Without(id)
  /\ irq' = [id |-> id, at |-> heap[id], pc |-> "alarm"]
  /\ UNCHANGED <<mutex, pc, job, toneMap, tone, free, loaded, raced>>

StopAlarm ==
  /\ irq.pc = "alarm" /\ irq' = [irq EXCEPT !.pc = "stop"]
  /\ tone' = [tone EXCEPT ![irq.at].alarm = 0]
  /\ UNCHANGED <<mutex, pc, job, toneMap, heap, free, loaded, raced>>

StopTone ==
  /\ irq.pc = "stop" /\ irq' = Idle
  /\ tone' = [tone EXCEPT ![irq.at].on = FALSE]
  /\ UNCHANGED <<mutex, pc, job, toneMap, heap, free, loaded, raced>>

Next == \/ StopAlarm \/ StopTone \/ \E id \in Alarm : Fire(id)
        \/ \E c \in Caller : Call(c) \/ Step(c)

\* An alarm is due some time, and fires between handlers; they leave the
\* thread of core 0 some time, and so does a core the mutex.
Fairness == /\ WF_vars(StopAlarm \/ StopTone) /\ \A id \in Alarm : SF_vars(Fire(id))
            /\ \A c \in Caller : SF_vars(Step(c))

Spec == Init /\ [][Next]_vars /\ Fairness
-----------------------------------------------------------------------------
Labels == {"out", "enter", "find", "new", "cancel", "act", "add", "store", "leave"}

TypeOK ==
  /\ mutex \in Owners /\ pc \in [Caller -> Labels] /\ job \in Job
  /\ toneMap \in [Pin -> Address \cup {0}] /\ tone \in [Address -> Cell]
  /\ Pending \subseteq Alarm /\ heap \in [Pending -> Address]
  /\ irq = Idle \/ irq \in [id : Alarm, at : Address, pc : {"alarm", "stop"}]
  /\ free \in 0 .. Machines /\ loaded \in BOOLEAN /\ raced \in BOOLEAN

(* An alarm finds the Tone it was set for: none is pending for, and no     *)
(* callback runs on, a Tone that noTone() has deleted - unless core 1 met  *)
(* a running callback, which takes no mutex.  An alarm that fires before   *)
(* its id is stored, or inside a handler's call, does no harm.             *)
ToneAlive ==
  raced \/ /\ \A id \in Pending : tone[heap[id]].live
           /\ irq # Idle => tone[irq.at].live

(* A tone with a duration ends, or a call is made about it: its alarm is   *)
(* neither lost nor taken away by another call, also when it is due before *)
(* add_alarm_in_ms() returns.                                              *)
Ends ==
  \A t \in Address :
    (tone[t].on /\ tone[t].timed) ~>
      (~tone[t].on \/ ~tone[t].timed \/ \E c \in Caller : pc[c] = "act" /\ job.at = t)
=============================================================================
