# A verification project for the RP2040 Arduino core and its keyboard firmware

The repository is Dygma's fork of the Arduino core for the RP2040
(`cores/rp2040`, `libraries/`), with the Kaleidoscope keyboard firmware of the
Dygma Defy among its libraries.  This directory holds TLA+ modules of the parts
where several actors meet, the TLC configurations that check them on small
instances, and TLAPS proofs of what holds on every instance.

- [The system](#the-system): its parts and how they interact
- [Modules](#modules): which module models which part, and how
- [Runs](#runs): what is checked, with which bounds and fairness
- [Proofs](#proofs): what is proved, from what, along which argument
- [Findings](#findings): where the code does not do what its documents say
- [Not modelled](#not-modelled), and the [plan](#plan)

`PROJECT.json` lists the components, the runs, the lines of code behind every
definition, the hazards, the mutants and the theorems.

    tlasany KeyLayers.tla                          # parse
    tlc -workers 2 -config KeyLayers.cfg MCKeyLayers
    tlapm KeyLayers_proof.tla                      # check the proofs

## The system

Two cores share one memory, and each core runs one thread (`setup()`/`loop()` on
core 0, `setup1()`/`loop1()` on core 1) and its interrupt handlers.  There is no
scheduler: a handler preempts the thread of its core and runs to its end, and a
thread waits by spinning.  Everything hard follows from that: a handler that
waits for a lock of the thread it interrupted waits for ever, a core that spins
with its interrupts masked can neither be paused nor serve a device, and a core
can be stopped or reset anywhere.

| Part | State | Operations | Meets others through | What makes it correct |
| --- | --- | --- | --- | --- |
| Pausing and restarting the other core (`RP2040Support.h`, `main.cpp`, `wiring_private.cpp`) | `_multicore`, `_idleMutex`, `__otherCoreIdled`, the hardware FIFO, `_irqStack` | `idleOtherCore`, `resumeOtherCore`, `restartCore1`, `registerCore`, `_irq`, `noInterrupts`, `interrupts` | the FIFO and the SIO interrupt; called by every flash writer (`EEPROM`, `LittleFS`, `BOOTSEL`) | nothing runs from flash while it is written; a paused core stays paused, is resumed, and resumes where it was |
| `CoreMutex` | a `mutex_t`, which records the owning core | constructor, destructor | every peripheral | one context at a time, and never a wait that cannot end |
| `SerialUART` | the ring `_queue`, `_writer`, `_reader`, `_fifoSize`, `_mutex`, `_fifoMutex`, the UART | `begin`, `end`, `read`, `peek`, `available`, `overflow`, `write`, `setFIFOSize`, `setPollingMode`, `_handleIRQ`, `_pumpFIFO` | the UART interrupt, the threads of both cores | bytes come out in order, once; the ring is not used after `end()`; the interrupt is not left off |
| Kaleidoscope layers (`layers.cpp`, `key_events.cpp`) | `layer_state_`, `active_layers_`, `active_layer_count_`, two keymap caches | `activate`, `deactivate`, `move`, next/previous, the key events | the key scan, host commands | a key means what the most recent layer says at its press, until its release |
| Key scanner of the Defy (`DefyWired.cpp`), loop (`Runtime.cpp`) | previous and current switches | `readMatrix`, `actOnMatrixScan` | feeds the layers | every change is handled once, in scan order |
| GPIO interrupts (`wiring_private.cpp`) | the callback map, `_irqMutex` | `attachInterrupt`, `detachInterrupt`, dispatcher | handlers on either core | no callback after detach, none lost |
| I2S, PDM (`AudioRingBuffer.cpp`) | a ring of DMA buffers, current, next and user buffer | `begin`, `write`, `read`, `flush`, `_dmaIRQ` | two chained DMA channels and their interrupt | what is written is played once and in order |
| EEPROM | a copy in RAM, the dirty flag, a flash sector | `begin`, `write`, `commit`, `end` | pausing the other core; power loss | committed data survives |
| Tone (`Tone.cpp`) | `_toneMap`, the Tones it points to, `_toneMutex`, alarms, claimed state machines | `tone`, `noTone`, `_stopTonePIO` | the alarm interrupt of core 0, callers on both cores | an alarm finds its Tone; a tone with a duration ends |
| USB device (`SerialUSB.cpp`, `RP2040USB.cpp`, `Keyboard`, `Mouse`) | `__usb_mutex`, `last_avail_time`, the TinyUSB stack | `write`, `read`, `flush`, `operator bool`, `sendReport`, `usb_irq` | the millisecond interrupt, callers on both cores, a host that may stop reading | the stack is entered by one at a time and given back; writes stay whole |
| Qukeys (`Qukeys.cpp`) | `event_queue_`, `queue_head_`, the time of the last printable press | `onKeyswitchEvent`, `processQueue`, `beforeReportingState` | the key scan, the other plugins, time | every event is passed on once, in order, in time; no held key is missing from a report |
| Wire, SerialPIO, Servo | buffers and state machines claimed from the PIOs | begin, end, handlers | interrupts, shared PIOs | no use after end, no resource leaked |
| OneShot, other Kaleidoscope plugins | timers of key events | `onKeyswitchEvent`, `beforeReportingState` | the layers, time | bounded delay |
| SD, LEDs, vendored code (pico-sdk, TinyUSB, SdFat, littlefs, FreeRTOS) | | | | left to their own projects |

Where the code is hard to test (`PROJECT.json`, "hazards"): the order of
mask, request and wait in a pause; what a reset of core 1 leaves behind; a
handler that is refused a lock; `end()` under a reader; the interrupt that a pump
turns off; the ring index arithmetic; the activation order of layers after a move;
keys scanned between a release and the next look at a held shift key; a queue that is
flushed twice in one pass; an alarm that fires before its id is stored; a host that
stops reading in the middle of a write.

## Modules

Every module says in its head what one action is.  Names of actions and variables
are those of the code where TLA+ allows.

### `CoreMutex`, `CoreIdle`

`CoreMutex` has the three outcomes of the `CoreMutex` constructor: the lock is
free (`Taken`), it is owned by this very core (`Refused`), or the caller waits.
It is what `CoreIdle`, `SerialUART`, `UsbDevice` and `Tone` share.

`CoreIdle` is the pause protocol.  Each core is a thread (`pc[c]`) and the
handler on top of it (`isr[c]`), and one action is one access to shared state.

| Code | Model |
| --- | --- |
| `main`, `main1`, `multicore_launch_core1`, `registerCore` | `Begin`, `Launch`, `Handshake`, `registerCore` |
| `noInterrupts`, `interrupts`, `_irqStack` | `noInterrupts(c)`, `interrupts(c)`, `irqStack` |
| `idleOtherCore` | `Begins`, `Acquire`, `Clear`, `Push`, `Await` |
| `resumeOtherCore` | `Unlock`, `Unpark` |
| `EEPROM.commit()` and the other flash writers | `StartFlash`, ..., `Restore`: the same steps inside a mask |
| `_irq`, run from RAM | `SioInterrupt`, `IrqMask`, `Scan`, `Acknowledge`, `Parked`, `IrqReturn` |
| `restartCore1` | `restartCore1`, `Bootrom`, `Launch`, `Handshake`: core 1 is reset anywhere, memory stays |
| a peripheral under its `CoreMutex`, from a thread or a handler | `PerCall`, `PerLock`, `PerRefused`, `PerUnlock`, `UserInterrupt`, `UserLock`, `UserUnlock` |

The words of the hardware FIFO are `GOTOSLEEP` and any other (`zero`, from the
boot ROM).  The contents of flash and the time a write takes are left out: being in
`excl` stands for having the flash.

### `ByteChannel`, `SerialUART`

`ByteChannel` is the promise of a receiving port: bytes are delivered in order,
each at most once; they may be lost, and stopping the port discards them.

`SerialUART` has a thread and a handler on each core, the UART with its own FIFO
(external, from how `_handleIRQ` and `_pumpFIFO` use it) and the ring.
Each method takes `_mutex` (`Enter`, or `EnterRefused` when its own core holds
it), looks at `_running`, pumps (`PumpFifo` turns the interrupt off and tries
`_fifoMutex`), does its work and leaves.  The handler tries `_fifoMutex` and gives
up when it is held.  `_handleIRQ`'s loop is `Clear`, `GetByte`, `Emptied`, `Room`,
`NoRoom`, `Store`, `Advance`.  A byte is the number of its arrival, which is all
the order and the loss of bytes need; sending is the count of bytes a `write()`
has still to send.  `Delivers` maps the ring from the reader on, the byte in a
context's hand and the FIFO of the UART to the `transit` of `ByteChannel`.

### `LayerStack`, `KeyLayers`

`LayerStack` is what `docs/layers.md` and the comments of `layers.h` promise: a
stack of layers in the order of activation; a key means what the topmost
layer that is not transparent says when it goes down.

`KeyLayers` is one cycle of the firmware after another: `ReadMatrix` takes a
snapshot of the switches, `HandleKey(k)` handles in scan order the keys that are or
were down (the whole of `handleKeyswitchEvent`: the lookup in the cache, the
layer key, the refresh of the cache), and a cycle ends with a command of the
host (`FocusEvent`) or without (`SendReport`).  The array `active_layers` keeps
what earlier activations left behind its used part, as the code does, and
`active_layers_[-1]` is read when no layer is on: `MostRecent` is then any
layer or -1.  A keymap entry is a key, a hole or one of the five layer keys; the key's code does not
matter and is the layer it is on.

### `AudioRing`

The ring of DMA buffers of an I2S port, from the end of `begin()`.  `Transfer` moves one
word; with the last word of a buffer (`Chain`) the DMA raises the interrupt and goes on
with the other channel.  The handler is `SilenceBuffer`, `FlagBuffer`,
`PointChannel`, `StepCurrent`, `StepNext`, a shared access each (the words of the
silenced buffer go in one step: the sketch stays off that buffer or has strayed).
The sketch is `Call`, `CheckEmpty`, `CheckCurrent`, `MoveWord`, `PassBuffer` for `write()` on an output and
`read()` on an input, `GiveUp` for a call that may not wait, and
`CallFlush`, `Flushed`; the handler may run between any two, as it does when the sketch is on the other core.

A word is its number modulo `WordNumbers`, so the model needs no bound on how many are
written: `made` is the number of the last one made (by the sketch, or by the device), `heard` that of
the last one played (or read).  `_overunderflow` is
kept per buffer in `noted`: whether the flag was set when that buffer was last given to the
DMA.  `begin()` gives two empty buffers of an output without setting it; `begun` are those that are still
where `begin()` put them.  `strayed` is set when the sketch uses a buffer the DMA is on; which words come of
that is not followed.  The DMA itself is external.  The one assumption about
time is in `Chain`: the handler is done before the other channel has emptied its buffer.

### `Qukeys`

A loop of the firmware is `ToggledOn(k)`, `ToggledOff(k)` or `Unchanged(k)` for every key
in scan order, then `BeforeReportingState`, then `SendReport`.  The first three are the
whole of `onKeyswitchEvent()`, with the append to `event_queue_` and, when it is full, the
`processQueue()` that makes room.  `processQueue()` is `ProcessQueue` and `Search`: the
search for the event that says what the qukey at the head means.  It keeps the
code's slip: after an early flush (`TooSoon`) the search goes on with the qukey `h` that has
left the queue.  Time is kept as ages, which grow in `SendReport` by the ticks a cycle took; an
age is compared only with constants or another age, so absolute time is not needed.
The hold timeout and the overlap threshold are variables: the host may set them to any 16-bit and
8-bit value (`FocusEvent`), and nothing orders them with the minimum hold time and the interval after a
printable press.  Where that makes `beforeReportingState()` flush an event from an empty queue,
`shift()` at length 0 overwrites the memory behind the queue; the model stops there (`Lost`).
What other plugins see of a key is `q.down`: up, or down as a value (the key and which of
its two meanings).  The verdicts of two events never conflict (`Verdicts` has at most one element).

### `UsbDevice`

Four contexts: the threads of both cores, a handler of core 0 that makes calls, and
`usb_irq`, which runs on core 0 too.  One step is a call of a `tud_` function together with
the test before it.  A call constructs a CoreMutex (`Enter`, `EnterRefused`, or it
waits); `usb_irq` tries only.  The loop of `write()` is `Copy`, `Task`, `Flush`; a
report is `Task`, `Report`, `Task`.  A byte is its writer and its place in the `write()`.
Of TinyUSB (`pico-sdk/lib/tinyusb`) the model has what these calls meet: the FIFO (`Written`, `Room`), an
endpoint that holds one packet until the host has read it (`Flushed`, `Read`), the link
(off, on, asleep) and `tud_task()` (`Tasked`), which works off what the host did meanwhile: it
read the packet, reset the bus (`Reset` clears the FIFO and the endpoint, `usbd.c:510-522`, `cdc_device.c:255-268`), configured the
device, opened or closed the port.  A suspended bus takes effect in the interrupt (`Suspend`).  `gone` is
the last byte that the host read or a reset cleared, so that the bytes that come after can be compared with it.
TinyUSB claims endpoints under a mutex of its own that waits without a time limit worth the name
(`OSAL_TIMEOUT_WAIT_FOREVER`, `usbd.c:1237`).  Whoever
owns `__usb_mutex` finds it free; the report of a handler that was refused may have interrupted
its owner and then waits without end (`Hangs`).

### `Tone`

`tone()` and `noTone()` are `Enter`, then `Find`, `Cancel` for a pin that has a Tone or `New`
for one that has none, then `Start` or `Delete`, and for a duration `Add` and `Store`: the
id that the alarm got is stored after the alarm may have fired.  `AddMissed` is an alarm that is due
before `add_alarm_in_ms()` returns, `AddFailed` one for which there is no room.  The
callback is `StopAlarm` and `StopTone`, without the mutex, between any two steps of core 1.
A Tone is an address, and a deleted one can be allocated again.  The SDK's alarms are those of
`time.c`: an id is new as long as it is pending (`FreshIds`), is taken off the heap before its callback runs
(`Fire`), and a cancelled one is pending no more (`Without`).  The PIOs are one
count of free state machines (`free`): `New` is `PIOProgram::prepare()`, which keeps the
machine it claimed when the program does not fit.

## Runs

| Run | Instance | Checks |
| --- | --- | --- |
| `core_idle` (`CoreIdle.cfg`) | both cores write flash, pause each other, use the peripheral, also inside a pause and in a handler; core 1 masks interrupts itself; 1 restart, 1 such handler | `TypeOK`, `Exclusive`, `FlashAlone`, `OneRequest`, `MaskRestored`, `PeripheralExclusive`, `StaysParked`, `Acknowledged`, `Resumed` |
| `core_idle_embrace` | both cores write flash | `NoEmbrace`, violated |
| `serial_uart` (`SerialUART.cfg`) | core 0 configures, reads and writes in its thread, reads and writes in a handler; core 1 reads, peeks, asks for overflows | `TypeOK`, `RingAlive`, `OneDrainer`, `WritesWhole`, `StaysEnabled`, `NoneForgotten`, `Delivers`, `CallsReturn` |
| `serial_uart_available` | one thread, a ring of 3 | `AvailableCounts`, violated |
| `key_layers` (`KeyLayers.cfg`) | 4 keys, 4 layers: two shift keys of one layer around a lock key that becomes a shift key, holes, a host | `ListAgrees`, `StackSpec`, `ShiftHolds` |
| `key_layers_every` | 4 keys, 3 layers: every kind of layer key and host command | `TypeOK`, `CountAgrees`, `OnlyActive`, `HeldKeepsKey` |
| `key_layers_move` | three shift keys and `MoveToLayer(0)` | `ListAgrees`, violated |
| `audio_ring` (`AudioRing.cfg`) | 3 buffers of 2 words, an output or an input, a sketch of any speed | `TypeOK`, `InStep`, `InOrder`, `StraysNoted`, `SkipsNoted`, `Played`, `CallsReturn` |
| `qukeys` (`Qukeys.cfg`) | two qukeys, a letter, a SpaceCadet key, a queue of 4, cycles of one tick or two, a host that sets a hold timeout of 0 or 2 and a threshold of 0 or 50 | `QueueBounds`, `Replay`, `ReportWhole`, `Prompt` |
| `qukeys_own_key` | two qukeys and a letter | `OwnKey`, violated |
| `usb_device` (`UsbDevice.cfg`) | both threads write 3 bytes through a FIFO of 2, core 0 asks `bool`, core 1 flushes, a handler reads and sends reports, the interrupt ticks; a host that reads, resets, suspends, opens and closes at will | `OneInStack`, `Whole`, `GivenBack` |
| `tone` (`Tone.cfg`) | two pins, three callers on two cores, two state machines | `ToneAlive`, `Ends` |

What the properties say is in the comment in front of each.  In short:

- **CoreIdle.**  `Exclusive`, `FlashAlone`, `StaysParked`: between `idleOtherCore()`
  and `resumeOtherCore()` the other core is parked and masked, and nothing runs from
  flash while it is written.  `OneRequest`: a pause is never acknowledged with the
  acknowledgement of another one.  `MaskRestored`: nested masks end as they began,
  also over what a reset left on the stack.  `Acknowledged` and `Resumed`: a
  pause is answered and ends, or the two cores are in one of four dead ends
  (`Blocked`), none of which a core leaves again: one asks, and the other has masked its
  interrupts (to write flash, or by itself) and waits to ask too (`Embrace`); the pausing core
  needs what the paused one holds (`ParkedHolder`); core 1 was reset while it used the peripheral and core 0
  waits for that (`LeakedPeripheral`); core 1 was reset after it had asked core 0 to sleep (`Orphaned`).
  A pause that is only contended is none of them, and must be answered.
- **SerialUART.**  `Delivers`: the port implements `ByteChannel`, across `end()`,
  a full ring, two readers and polled mode.  `RingAlive`: no use after
  delete.  `StaysEnabled`, `NoneForgotten`: the interrupt that a pump turns off
  comes on again, and a byte a handler had to leave is fetched.  `CallsReturn`.
- **KeyLayers.**  `StackSpec`: array, count and caches implement `LayerStack`.
  `ListAgrees`: the array names the layers that are on.  `ShiftHolds`: a held shift
  key gets its layer back, whoever turned it off.  `HeldKeepsKey`: a key keeps
  its meaning from press to release.
- **AudioRing.**  `InStep`: the two channels and the two indices of the handler go
  round together.  `InOrder`, `Played`: what was written is played, once and in order.
  `StraysNoted`, `SkipsNoted`: a sketch that is too slow meets the DMA in a buffer, or
  loses words, only where `_overunderflow` was set - but for a buffer that `begin()` gave to the DMA.  `CallsReturn`: waits end.
- **Qukeys.**  `QueueBounds`: there is room for every event, and the queue underflows only under a
  hold timeout shorter than the interval after a printable press.  `Replay`: no event is lost, made up or reordered within a key, also when the
  queue is full, a release skips it or two events leave at once.  `ReportWhole`: a key the
  others know as pressed is in every report.  `Prompt`: no event waits longer
  than the hold timeout and one cycle for each event that can be ahead of it.
- **UsbDevice.**  `OneInStack`: one context at a time is in TinyUSB, except for reports of a
  handler whose CoreMutex was refused, which go on.  `Whole`: the bytes of a `write()` stay together;
  after a reset of the bus only the tail of the write it interrupted, or the beginning of one, may follow.
  `GivenBack`: the stack is given back, whatever the host does and whoever waits, unless the report of a handler
  that was refused it hangs in TinyUSB's own mutex.
- **Tone.**  `ToneAlive`: an alarm finds the Tone it was set for, unless core 1 acted on
  a Tone whose callback was running.  `Ends`: a tone with a duration ends, or a call is made about it.

### Bounds

- `CoreIdle`: `MaxRestarts` = 1 and `MaxInterrupts` = 1.  Locks, saved masks and
  words left by one reset are what a second would leave again; the second
  handler would find the lock in the states the first can find.  Only core 1
  masks on its own, which spares the mirror image.  `FifoDepth` is the
  hardware's 8 and never reached, because there is one request at a time (proved).
- `SerialUART`: the ring has 2 slots (default) or 3, so that two bytes fill it,
  one byte can be lost in the UART (`HwDepth` = 1; a fifo of 1 overflows soonest), and the indices wrap; calls per context
  3, 1, 1, 0, so that the port is begun, ended and begun again under a
  reader of the other core; a `write()` has 2 bytes (`MessageLength`).
  `serial_uart_available` has 6 calls and 4 bytes, enough to wrap a ring of 3.
- `KeyLayers`: no counter; every cycle is checked for every set of switches.  Four
  keys are what it takes to have two holders of a layer with a key between and
  one behind, four layers to remove one from the middle of the order.
- `AudioRing`: no counter.  Three buffers is the fewest `setBuffers()` allows and the
  hardest case (one is played, one queued, one is the sketch's; the first that `write()` picks is
  the queued one).  Two words make a buffer that is half written or half played; seven
  numbers tell apart the six words of a full ring and the next.
- `Qukeys`: ages grow without a counter of their own; `Prompt` and the loop that flushes
  bound them.  A queue of 4 lets the next event meet a full queue with a qukey, a key
  pressed behind it and both releases; the code's is 8.  A hold timeout of 0 is
  below the interval after a printable press (1) and one of 2 above it, the minimum hold time is 1, and
  with cycles of one tick or two each of them passes alone or together with another in one cycle; a threshold of 0
  switches the rollover test off and one of 50 on.
- `UsbDevice`: a `write()` (3) is longer than the FIFO (2), which holds one packet, so that it
  is handed over in parts, waits for the host, and a reset can come between the parts.  `Second` is 0 steps of the clock: a
  `write()` may give up as soon as time has passed.
- `Tone`: two machines make two tones, or one after a leak; an address and an alarm for each.

Deadlock is checked for `KeyLayers`, `AudioRing`, `Qukeys` and `Tone`.  It is not for `CoreIdle`, where two
flash writers do block each other (a finding), nor for `UsbDevice`, where a report that hangs stops
core 0 and then core 1, nor for `SerialUART`, where the
bounds on bytes and calls end every behaviour.

### Fairness

- `CoreIdle`: a core that can run runs (weak fairness of `Proceed` and `Handle`), a
  pending SIO interrupt is taken in some gap between masks (strong), a lock that
  stays free is taken (weak), and a sketch ends its section and unmasks what it
  masked (strong).  Nothing is assumed of who wins `_idleMutex`: it is a
  spinlock-guarded word without a queue.
- `SerialUART`: a core that can run runs, and a raised enabled interrupt is
  taken.  Nobody has to call a method or send a byte.
- `KeyLayers`: weak fairness of `Next`: the firmware is one loop that never waits.
- `AudioRing`: the device never stops and the handler is taken (weak).  A sketch that
  waits sees in the end what it waits for (strong fairness of `Proceed`): that lasts a whole buffer, hundreds of
  microseconds, while the loop that waits takes less than one.  Nobody has to call.
- `UsbDevice`: contexts run (weak), time passes (weak), and handlers leave the thread of core 0
  some time (strong, for that thread only).  A waiting call may lose the mutex for ever.
  Nothing is assumed of the host: it need not read, and may reset or suspend for ever.
- `Tone`: the callback runs on (weak); an alarm fires in some gap between handlers, and a
  caller goes on in some gap between handlers and takes the mutex some time (strong).
  Nobody has to call.

## Proofs

All theorems are about every value of the constants that the assumptions allow.

| Module | Theorems | Assumptions |
| --- | --- | --- |
| `CoreIdle_proof` | `TypeCorrect`, `ExclusiveCorrect`, `FlashAloneCorrect`, `OneRequestCorrect`, `MaskRestoredCorrect`, `PeripheralExclusiveCorrect`, `StaysParkedCorrect` | `CoreIdleAssumption`: the types of the constants; any number of restarts and interrupts |
| `SerialUART_proof` | `TypeCorrect`, `RingAliveCorrect`, `OneDrainerCorrect`, `WritesWholeCorrect`, `StaysEnabledCorrect`, `NoneForgottenCorrect` | `SerialAssumption`: types, a ring of at least 2 slots; `OneConfigures`: only the thread of core 0 calls `begin()` and `end()` |
| `SerialUART_delivers` | `DeliversCorrect` | the same |
| `SerialUART_delivers` | `AvailableWhenDivides` | also: every size of the ring divides 2^32 |
| `KeyLayers_proof` | `TypeCorrect`, `CountAgreesCorrect`, `OnlyActiveCorrect`, `HeldKeepsKeyCorrect` | `LayersAssumption`: types, and an array longer than the keymap has layers |
| `KeyLayers_proof` | `ListAgreesCorrect`, `StackCorrect` | also `Orderly`: no key or command that moves to a layer or turns layer 0 off |
| `AudioRing_proof` | `TypeCorrect`, `InStepCorrect`, `StraysNotedCorrect`, `InOrderCorrect`, `SkipsNotedCorrect` | `RingAssumption`: three buffers or more, of a word or more; more word numbers than the ring has words |
| `UsbDevice_proof` | `TypeCorrect`, `OneInStackCorrect`, `WholeCorrect` | `UsbAssumption`: any calls in any context, buffers of any size, `usb_irq` only ticks |
| `Qukeys_proof` | `TypeCorrect`, `QueueBoundsCorrect`, `ReplayCorrect`, `ReportWholeCorrect`, `PromptCorrect` | `QukeysAssumption`: any keys of each kind, a queue of two places or more, any settings that fit their width in any order, cycles of any lengths up to a longest, ages below 2^16 |
| `Tone_proof` | `TypeCorrect`, `ToneAliveCorrect` | `ToneAssumption`: finite sets of addresses and alarms; any number of pins and machines |

**CoreIdle.**  None of the safety properties is inductive: that the other core is
parked when `Await` sees the flag depends on where the flag was set.  `IInv` adds who
owns `_idleMutex` (`IOwner`), that a request in a FIFO or in a handler's hand belongs to
that owner, or to a core 1 that was reset since (`IToken`), that there is one
(`IOne`), and what the flag means at each place of the asking core (`IFlag`): it
is clear when the request is sent, and set afterwards only by a handler that then
is parked.  `IMasked` and `IFlash` carry the masks, `ISingle` the case of one core.
`StaysParked` follows from `IInv` step by step.

**SerialUART.**  `IInv` says which places in the code hold which lock (`IMutex`, `IFifo`;
the lock knows the core only, so these also say that the two contexts of a core are not
both inside), which method can be at which place (`IPlace`), that a port is
configured only while it does not run (`IConfig`), that a pump that turned the
interrupt off remembers that it was on (`IEnabled`), and that a byte in the UART has its
interrupt raised or a context that has not yet looked (`IRaised`).

`DeliversCorrect` is a refinement proof: the initial state maps to the channel's, and each
step to one of the channel's or to none (`StepIs`).  The bytes in the port are a line of
three parts: the ring as a sequence (`RingBytes`, with lemmas for what storing a byte,
moving `_writer` and moving `_reader` do to it), the byte a context has in hand, and the UART's
FIFO.  Most steps leave all three alone (`Quiet`); of the others, taking a byte from the UART and
moving `_writer` shift a border in the line, dropping a byte for want of room removes one from its
middle, and `read()` takes the first.  That needs two more facts, inductive together with
`IInv` (`IBytes`): between the test for room and the move of `_writer` there is room, and the byte
stays in its slot, although a reader runs at the same time; and the byte that `read()`
holds is the oldest until it moves `_reader`, although somebody fills the ring.
`AvailableWhenDivides` is the other half of finding 2: where 2^32 is a multiple of the size,
the subtraction in 32 bits does no harm.

**KeyLayers.**  For every keymap the invariant is small: types, the count equals the
number of layers that are on, and the cache names layers that are on.  `OrderlyInv`
adds what makes the search of `deactivate()` find the right entry although it
starts one place behind the used part: behind it there are only zeros, layer 0 comes
first and no layer twice.  Zeros are harmless as long as layer 0 is never
turned off; `move()` breaks the first part, which is the finding.  `StackCorrect`
maps initial states to initial states and every step to a step or a stutter of
`LayerStack`; the position of the last opaque layer (`Last`) exists by
well-foundedness of strict inclusion on finite sets (`LastOf`).

**AudioRing.**  `InStep` is inductive together with `IRaised` (only the idle channel has an interrupt
pending) and types; three buffers make the next two distinct from the current one
(`FollowingOther`).  `IGiven` says that a buffer the DMA holds, and that is not ready for it, was
noted when it was given, or given to an output by `begin()`; `IChecked` that what the sketch has seen of the flag lasts until it
passes the buffer on, because the handler changes only the flag of the current buffer, and to
the same value.  Together they give `StraysNoted`.

The words need a second invariant, about slots instead of flags.  A word's number is told by
its distance: `ToUser` and `ToDma` count the words from a slot to the place of the sketch
and to that of the DMA, round the ring.  On an output (`IOutput`), as long as the sketch has not
strayed, the slots closer behind the sketch than `Lag`, the words written and not yet
played, hold those words in order, and the DMA is not among them (`IPending`); the rest is
silent or played, because a buffer marked empty holds nothing but what the sketch is
writing (`IEmpty`) and the handler has silenced the one it is about to flag (`ISilenced`).
The next word the DMA finds is then the oldest of those or silence, which is `InOrder`.  On an input
(`IInput`) every slot holds the word its distance from the DMA says (`IRecorded`); the
last word read is still that close behind the DMA, unless the buffer that comes next for the sketch
was noted (`IRead`).  For that the flags must tell how far the DMA has come round
(`IFlags`): the buffers between the sketch and the handler are full (`IFull`), and a
sketch that is lapped finds them so (`ILapped`, `ISlip`).  `SkipsNoted` follows.  Once the
sketch has strayed no word is followed (`IStrayed`).

**UsbDevice.**  Two invariants.  The lock knows only the core, so `IOwner` adds that at most one
context owns it and is inside a call, and `IRefused` that whoever is inside without owning it
is a handler that sends a report: the thread of core 0 is never refused, because a
handler that owns the lock runs to its end first (`RefusedIsHandler`).  `OneInStack`
follows.  For `Whole`, the bytes at the host, in the endpoint and in the FIFO are read as one
sequence (`Bytes`); flushing only moves the borders in it, `tud_task()` drops a prefix
of it, a reset all but the last byte, and only `Copy` appends.  `IWhole` says that it ends with the byte at which the
`write()` that goes on has stopped, and `ILoop` that only the owner is in that loop.

**Tone.**  `Static` holds always: one call inside (`IMutex`), `toneMap` names live Tones, each once
(`IMap`), what a call knows of its Tone at each place (`IPlace`), and the live Tones and the
free state machines are no more than `Machines` (`ICount`; the others leaked).  `IAlarm`
holds as long as no callback met core 1 on its Tone: each Tone has one pending alarm
at most, whose id the Tone holds or the call that is about to store it, and none while its
callback runs (`IKnown`), and a call that is about to delete or restart a Tone has none
pending (`ISeen`).  The id that `Store` writes may have fired already: it is then
not pending, and the invariant says nothing of it.

**Qukeys.**  `IInv` says of the queue, not of a single event, that the events of each key alternate
between what the other plugins have seen and the state of the switch (`Alternates`, which is
`Replay`), that older events come first and a recent printable press was older than all of them
(`Aged`), and that a held key is in the report, is the key of a release at its head of the queue,
or is still to be scanned (`Shown`, and from it `ReportWhole`).  Whatever `processQueue()`
decides, it is at most two flushes from the head, and each keeps all three (`FlushKeeps`, `Keeps`,
`ProcessKeeps`).  `Aged` is what confines a flush of an empty queue to a hold timeout below the
interval after a printable press: an early flush that has
emptied the queue was opened by a press that recent and older than the event, which
otherwise has not timed out (`BeforeKeeps`).  `WInv` adds a measure for `Prompt`: an event that has
outlasted the hold timeout moves up at least one place per cycle (`Waits`).  The proofs
leave open which meaning a press gets: the search may find any event, and `OwnKey` does not hold.

Only model-checked: the liveness properties (`Acknowledged`, `Resumed`, `CallsReturn`, `ShiftHolds`,
`Played`, `GivenBack`, `Ends`), which need fairness and ENABLED.  Every invariant and action property
of the passing runs, and both refinements (`StackSpec`, `Delivers`), are theorems.

## Findings

Runs that show the code to differ from what it says of itself:

1. **Two flash writers block each other** (`core_idle_embrace`).  `commit()` and the other
   flash writers mask interrupts before `idleOtherCore()`; two cores that do so
   at once wait for each other for ever: one for an acknowledgement, the other, masked,
   for `_idleMutex`.
2. **`available()` is wrong after the writer wraps** (`serial_uart_available`) unless
   `_fifoSize` divides 2^32, which `setFIFOSize(128)` does not give.
3. **`deactivate()` after `move()` drops the wrong layer** (`key_layers_move`): a stale
   entry behind the used part is found first.
4. **A press gets the meaning of another qukey** (`qukeys_own_key`).  Soon after a printable
   press `processQueue()` flushes the head of the queue and goes on with it, and may flush
   the event behind it with the same key.  With the default settings: press Q1 at 0 ms, Q2 at 10, a letter K at 20,
release Q2 at 30 and Q1 at 40.  Q1's release is a rollover until 48, when Q1 goes out as itself; at 49 Q2 is
flushed early, its release is found in the queue, and K's press goes out with the primary key of Q2.

Differences met while modelling and contained in the models, without a run of their own:

- `docs/multicore.rst:31-32` offers the peripherals to a core that has paused the other; one whose
  `CoreMutex` the paused core owns cannot be used (`ParkedHolder` in `CoreIdle`).
- `layers.cpp:93-96` says that a held shift key turns its layer on again in the same cycle; it
  does only if it is scanned after the released key.
- `docs/i2s.rst:72` has `flush()` wait for everything written; it waits for two indices to
  be equal, which they are also when the ring is full.
- `SerialUSB::write()` returns 0 whatever it wrote: the `i` of the loop (`SerialUSB.cpp:128`)
  hides the one that is returned.
- `RP2040USB.cpp:284-286` says that who owns the mutex does a `tud_task()` itself; `read()`,
  `peek()`, `available()` and `flush()` do not.
- `SerialUSB::write()` tests the connection only when nothing could be handed over
  (`SerialUSB.cpp:134-145`): after a reset of the bus it goes on, and the next host may get the tail of a
  write without its head (`Whole`).
- `osal_pico.h:77` says that within TinyUSB a mutex is never used in an interrupt; `usb_irq` and reports of
  handlers do use it, and a report that was refused `__usb_mutex` may wait for it for ever (`Hangs`).
- `begin()` of an I2S output gives two empty buffers to the DMA without setting `_overunderflow`, and with
  three buffers the first `write()` picks one of the two (`AudioRingBuffer.cpp:138-139`): a sketch can
  meet the DMA there without the flag (`begun` in `AudioRing`).
- The comments in `KeyAddrEventQueue.h:87` and `99` have the queue not empty in `shift()`.  With a hold
  timeout of 50 and an interval of 75, which `Qukeys.h` and the host's command accept: press qukey R at 0 ms, a letter at 1 and
  qukey Q at 2 and hold them.  R times out at 51, the letter leaves at 52, and at 53 Q is flushed early and once more,
  from an empty queue (`Lost` in `Qukeys`; the `qukeys` run reaches it).
- A report is dropped when the endpoint is busy (`Keyboard.cpp:56`), also one that
  releases a key, while `Keyboard.cpp:113-115` says the host learns of it.
- `Tone.cpp:34` and `59` have one core at a time start or stop tones; the callback takes no mutex.
- `PIOProgram::prepare()` keeps the state machine it claimed when the program does not fit.
- `Qukeys.h:127-129` measures the minimum hold time up to the release of the next key and
  `Qukeys.h:207-209` the prior interval up to the press of the qukey; the code compares both
  with the time at which it looks.

## Not modelled

Within the modelled parts: FreeRTOS mode; `rp2040.fifo` of the user and its
`clear()`; a pause begun inside a pause of the same core (it stops there by itself);
a reset of core 1 in the middle of `mutex_enter` or `mutex_exit`, with the hardware spin lock held;
`end()` called by two cores; `flush()`, break detection and pins of the UART; the
setting form of the `layer.state` command, masked keys and keys injected by plugins.
Bytes sent are counted, not followed.  `AudioRingBuffer::end`, `available()`,
`getOverUnderflow()` (nothing in the repository calls it), the callbacks, a DMA interrupt that
is late by a whole buffer, and the packing of samples into words.
In `Qukeys`: what happens once the queue has underflowed, `deactivate()` and `toggle()`, qukeys of one layer only, and the contents of a report.
In `UsbDevice`: the bytes received, the keys of a report, `begin()` (the stack runs), the
descriptors, the reset by opening the port at 1200 baud, the dropping of a report, and what a refused
report may leave in TinyUSB's data: it comes between two `tud_` calls or hangs.  Unplugging is not noticed by the
core (`FORCE_VBUS_DETECT`, `dcd_rp2040.c:43`).  In `Tone`: the frequency, and ids of
alarms that come back after 256 more.  In `PIOProgram`: the second PIO and a second program.  Other parts: see the components in
`PROJECT.json`; wording, colours, register layouts and vendored file systems stay out.

## Plan

| Order | Module | Question | Proof |
| --- | --- | --- | --- |
| 1 | `GpioIrq` | attach, detach and dispatch on two cores | one dispatcher per core |
| 2 | `Eeprom` on top of `CoreIdle`'s pause | what survives power loss; the dirty flag | committed data |
| 3 | `SerialPIO`, `Servo` on top of `New` of `Tone` | are state machines given back | no double claim |
| 4 | `WireSlave`, `OneShot`, `CycleCount` | stop against data; timeouts; the wrap of the counter | by size |
| 5 | | what the liveness properties rest on, as invariants: who waits for a lock waits for a context that can run; no `LeakedPeripheral` or `Orphaned` state without a restart | `SerialUART`, `UsbDevice`, `CoreIdle` |
