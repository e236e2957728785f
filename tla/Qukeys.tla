------------------------------- MODULE Qukeys -------------------------------
(***************************************************************************)
(* Kaleidoscope's Qukeys plugin: keys that mean one thing when tapped and  *)
(* another when held.  Presses and releases are delayed in an event queue  *)
(* until it is known what the qukey at its head means.                     *)
(*                                                                         *)
(* One loop() of the firmware scans the keys in order (an action per key), *)
(* runs beforeReportingState() and sends the report.  Time is counted in   *)
(* ticks and kept as ages: an event carries the time since it was queued,  *)
(* `prior' the time since the last printable press.  The plugin is active, *)
(* and a qukey is one on every layer.  The host may change the hold        *)
(* timeout and the overlap threshold at any time.                          *)
(***************************************************************************)
EXTENDS Integers, Sequences, FiniteSetsExt

CONSTANTS
  KeyCount,         \* keys are scanned in the order 1 .. KeyCount
  Qukey,            \* keys with a printable primary and a modifier alternate
  SpaceCadet,       \* qukeys with a modifier primary and a printable alternate
  Modifier,         \* ordinary modifier keys; all others are printable
  Capacity,         \* queue_capacity_
  Holds,            \* the values that hold_timeout_ is given
  Thresholds,       \* the values that overlap_threshold_ is given, in percent
  MinHold,          \* minimum_hold_time_
  MinPrior,         \* minimum_prior_interval_
  Lags              \* ticks that a cycle of the loop may take

Keys == 1 .. KeyCount

\* No event gets older, see Prompt; Runtime.h:109-118 demands that its age fits
\* the uint16_t that it is compared in.
MaxAge == Max(Holds) + (Capacity - 1) * Max(Lags)

ASSUME QukeysAssumption ==
  /\ KeyCount \in Nat \ {0}
  /\ Qukey \cup SpaceCadet \cup Modifier \subseteq Keys
  /\ Qukey \cap SpaceCadet = {} /\ Modifier \cap (Qukey \cup SpaceCadet) = {}
  /\ Capacity \in Nat \ {0, 1}
  /\ {MinHold, MinPrior} \subseteq 0 .. 255
  /\ Thresholds \subseteq 0 .. 255 /\ Thresholds # {}
  /\ IsFiniteSet(Lags) /\ Lags \subseteq Nat /\ Lags # {}
  /\ IsFiniteSet(Holds) /\ Holds \subseteq Nat /\ Holds # {}
  /\ MaxAge < 65536

VARIABLES
  turn,      \* the key scanned next; then beforeReportingState(), sendReport()
  pressed,   \* keys whose switch was closed when last scanned
  hold,      \* hold_timeout_
  threshold, \* overlap_threshold_
  q          \* what the plugin and the report hold, see State

settings == <<hold, threshold>>
vars == <<turn, pressed, q, settings>>

\* The queue's own memory is overwritten: length_ has wrapped to 255.
Lost == KeyCount + 3

Up    == [key |-> 0, role |-> "up"]
Value == [key : Keys, role : {"primary", "alternate"}]
Event == [key : Keys, press : BOOLEAN, age : Nat]
State == [queue  : Seq(Event),            \* event_queue_
          down   : [Keys -> Value \cup {Up}], \* the other plugins' view
          prior  : Nat,                   \* age of prior_keypress_timestamp_
          report : SUBSET Keys]           \* keys in the report being built

IsModifierKey(v) == \/ v.role = "primary" /\ v.key \in Modifier \cup SpaceCadet
                    \/ v.role = "alternate" /\ v.key \in Qukey

\* First event of key k in the queue is a press, hence not yet flushed.
Waiting(queue, k) ==
  \E i \in DOMAIN queue : /\ queue[i].key = k /\ queue[i].press
                          /\ \A j \in 1 .. i - 1 : queue[j].key # k
-----------------------------------------------------------------------------
FlushEvent(s, v) ==
  LET e == Head(s.queue) IN
  [queue  |-> Tail(s.queue),
   down   |-> [s.down EXCEPT ![e.key] = IF e.press THEN v ELSE Up],
   prior  |-> IF e.press /\ ~IsModifierKey(v) THEN e.age ELSE s.prior,
   report |-> s.report \cup (IF e.press THEN {e.key} ELSE {})]

\* The rollover of a released qukey may still turn out to be a chord.  The
\* timeout is a uint16_t.
ReleaseDelayed(start, end) ==
  threshold # 0 /\ start <= (((start - end) * 100) \div threshold) % 65536

LongEnough(queue) == queue[1].age > MinHold

\* What event i of the queue says about the qukey h that was at its head.
Verdicts(queue, h, i) ==
  LET e    == queue[i]
      next == {j \in 2 .. i - 1 : queue[j].press}
  IN  {role \in {"primary", "alternate"} :
        \/ e.press /\ h \in SpaceCadet /\ role = "primary"
        \/ /\ ~e.press /\ e.key = h
           /\ next = {} \/ ~ReleaseDelayed(queue[Min(next)].age, e.age)
           /\ role = IF h \in SpaceCadet /\ (next = {} \/ threshold = 0)
                     THEN "alternate" ELSE "primary"
        \/ /\ ~e.press /\ e.key # h /\ role = "alternate"
           /\ \E j \in 2 .. i - 1 : queue[j].key = e.key
           /\ LongEnough(queue)}

\* Variant: the queue is taken for full one event late.
FullLate(s) == Len(s.queue) > Capacity

Full(s) == Len(s.queue) = Capacity

\* The search of processQueue(); done is what it returns.
Search(s, h) ==
  LET hits == {i \in 2 .. Len(s.queue) : Verdicts(s.queue, h, i) # {}}
      Flushed(role) == [s |-> FlushEvent(s, [key |-> h, role |-> role]), done |-> TRUE]
  IN  IF hits # {}
      THEN Flushed(CHOOSE r \in Verdicts(s.queue, h, Min(hits)) : TRUE)
      ELSE IF Full(s) THEN Flushed("primary") ELSE [s |-> s, done |-> FALSE]

TooSoon(s, h) == s.prior <= MinPrior /\ h \notin SpaceCadet

ProcessQueue(s) ==
  LET h       == Head(s.queue).key
      primary == FlushEvent(s, [key |-> h, role |-> "primary"])
  IN  IF s.queue = <<>> THEN [s |-> s, done |-> TRUE]
      ELSE IF ~Head(s.queue).press \/ h \notin Qukey \cup SpaceCadet
           THEN [s |-> primary, done |-> TRUE]
           \* flushes, and goes on with h although h has left the queue
           ELSE Search(IF TooSoon(s, h) THEN primary ELSE s, h)

Append1(s, k, on) ==
  LET t == [s EXCEPT !.queue = Append(@, [key |-> k, press |-> on, age |-> 0])]
  IN  IF Full(t) THEN ProcessQueue(t).s ELSE t
-----------------------------------------------------------------------------
Init == /\ turn = 1 /\ pressed = {}
        /\ hold \in Holds /\ threshold \in Thresholds
        /\ q = [queue |-> <<>>, down |-> [k \in Keys |-> Up],
                prior |-> MinPrior + 1, report |-> {}]

ToggledOn(k) ==
  /\ turn = k /\ k \notin pressed
  /\ pressed' = pressed \cup {k} /\ q' = Append1(q, k, TRUE) /\ turn' = k + 1
  /\ UNCHANGED settings

\* Variant: any release skips a queue of one event.
SkipsAlways(k) == Len(q.queue) = 1 /\ ~IsModifierKey(q.down[k])

\* The release of a key rolled over to a qukey does not wait behind it.
SkipsQueue(k) ==
  Len(q.queue) = 1 /\ q.queue[1].key # k /\ ~IsModifierKey(q.down[k])

ToggledOff(k) ==
  /\ turn = k /\ k \in pressed
  /\ pressed' = pressed \ {k}
  /\ q' = IF SkipsQueue(k) THEN [q EXCEPT !.down[k] = Up]
                           ELSE Append1(q, k, FALSE)
  /\ turn' = k + 1 /\ UNCHANGED settings

\* A key whose press is still queued is not passed on as held.
Unchanged(k) ==
  /\ turn = k
  /\ q' = IF k \in pressed /\ ~Waiting(q.queue, k)
          THEN [q EXCEPT !.report = @ \cup {k}] ELSE q
  /\ turn' = k + 1 /\ UNCHANGED <<pressed, settings>>

\* Variant: only the event at the head of the queue is looked at.
RestoredHead(queue) ==
  {queue[i].key : i \in {i \in DOMAIN queue : i = 1 /\ ~queue[i].press}}

\* Keys that are released but whose release is still queued.
Restored(queue) ==
  {queue[i].key : i \in {i \in DOMAIN queue :
     ~queue[i].press /\ \A j \in 1 .. i - 1 : queue[j].key # queue[i].key}}

\* The slots of event_queue_: a queue that processQueue() has just emptied
\* still shows the event that it held.
Slots(s, r) == IF r.queue = <<>> THEN s.queue ELSE r.queue

\* Variant: a qukey times out only when it is alone in the queue.
HoldTimeoutAlone(queue) == Len(queue) = 1 /\ queue[1].age > hold

HoldTimeout(queue) == queue[1].age > hold

\* The value of the key that timed out; queue_head_ may be an earlier key's.
TimedOut(s, h) ==
  FlushEvent(s, [key |-> h, role |-> IF h \in SpaceCadet THEN "primary" ELSE "alternate"])

\* shift() of an empty queue copies 255 events over what follows the queue.
BeforeReportingState ==
  /\ turn = KeyCount + 1
  /\ LET s == [q EXCEPT !.report = @ \cup Restored(q.queue),
                        !.prior = IF @ > MinPrior THEN MinPrior + 1 ELSE @]
         r == ProcessQueue(s)
         late == ~r.done /\ HoldTimeout(Slots(s, r.s))
     IN  \/ /\ late => r.s.queue # <<>>
            /\ q' = IF late THEN TimedOut(r.s, Head(s.queue).key) ELSE r.s
            /\ turn' = KeyCount + 2
         \/ /\ late /\ r.s.queue = <<>>
            /\ q' = r.s /\ turn' = Lost
  /\ UNCHANGED <<pressed, settings>>

\* Events keep the time of their key switch; their age is counted from it.
Older(queue, lag) == [i \in DOMAIN queue |-> [queue[i] EXCEPT !.age = @ + lag]]

\* sendReport(), releaseAllKeys(), and the clock read by the next cycle.
SendReport ==
  /\ turn = KeyCount + 2
  /\ \E lag \in Lags :
       q' = [q EXCEPT !.report = {}, !.prior = @ + lag, !.queue = Older(@, lag)]
  /\ turn' = 1 /\ UNCHANGED <<pressed, settings>>

\* A command of the host, read in the cycle before or after Qukeys' own hook.
FocusEvent ==
  /\ turn \in {KeyCount + 1, KeyCount + 2}
  /\ \/ hold' \in Holds \ {hold} /\ UNCHANGED threshold
     \/ threshold' \in Thresholds \ {threshold} /\ UNCHANGED hold
  /\ UNCHANGED <<turn, pressed, q>>

\* What the keyboard does with its memory overwritten is not modelled.
Stray == turn = Lost /\ UNCHANGED vars

Next == \/ \E k \in Keys : ToggledOn(k) \/ ToggledOff(k) \/ Unchanged(k)
        \/ BeforeReportingState \/ SendReport \/ FocusEvent \/ Stray

Spec == Init /\ [][Next]_vars
-----------------------------------------------------------------------------
(* Every part of the state has its type.                                   *)
TypeOK ==
  /\ turn \in 1 .. Lost /\ pressed \subseteq Keys /\ q \in State
  /\ hold \in Holds /\ threshold \in Thresholds

(* The queue has room for an event whenever one is appended, and an event  *)
(* is flushed from an empty queue only if the hold timeout is shorter than *)
(* the interval after a printable press: the early flush and the timeout   *)
(* of one cycle else never meet on the last event (the comments "assert"   *)
(* in KeyAddrEventQueue.h:87 and 99).                                      *)
QueueBounds == /\ Len(q.queue) < Capacity
               /\ turn = Lost => hold < MinPrior

(* Nothing is lost, made up or reordered: the queued events of a key turn  *)
(* what the other plugins have seen of it into the state of its switch,    *)
(* press after release and release after press - also when the queue runs  *)
(* full, when a release skips it, and when two events leave it at once.    *)
Replay ==
  LET n == Len(q.queue)
      Quiet(k, i, j) == \A m \in i .. j : q.queue[m].key # k
  IN  /\ \A k \in Keys : Quiet(k, 1, n) => (q.down[k] # Up <=> k \in pressed)
      /\ \A i \in 1 .. n :
           LET e == q.queue[i] IN
           /\ Quiet(e.key, 1, i - 1) => (e.press <=> q.down[e.key] = Up)
           /\ Quiet(e.key, i + 1, n) => (e.press <=> e.key \in pressed)
           /\ \A j \in 1 .. i - 1 :
                q.queue[j].key = e.key /\ Quiet(e.key, j + 1, i - 1)
                  => (e.press <=> ~q.queue[j].press)

(* A key the other plugins know as pressed is in every report until its    *)
(* release is flushed: a gap would make the host repeat it.  It takes the  *)
(* held keys let through, the released ones restored and the flushed ones. *)
ReportWhole ==
  turn = KeyCount + 2 => {k \in Keys : q.down[k] # Up} \subseteq q.report

(* No event waits longer than the longest hold timeout and one cycle for   *)
(* each event that can be ahead of it.                                     *)
Prompt == \A i \in DOMAIN q.queue : q.queue[i].age <= MaxAge

(* A press is passed on with a meaning of its own key (Qukeys.cpp:299,     *)
(* "Flush one event from the head of the queue, with the specified Key     *)
(* value").  Violated by the early flush that does not return.             *)
OwnKey == \A k \in Keys : q.down[k] = Up \/ q.down[k].key = k
=============================================================================
