------------------------------ MODULE AudioRing ------------------------------
(***************************************************************************)
(* The ring of DMA buffers of an I2S port, libraries/I2S/src/              *)
(* AudioRingBuffer.cpp, from the end of begin() on.  Two DMA channels that *)
(* start each other move one word at a time between the buffers and the    *)
(* state machine of the port.  When a channel is done with a buffer its    *)
(* interrupt points it to the buffer after the one the other channel is    *)
(* on.  The sketch writes words to the buffers, or reads them.             *)
(*                                                                         *)
(* The sketch and the interrupt handler may run on different cores, so     *)
(* they interleave.  One action is one access to state they share.         *)
(***************************************************************************)
EXTENDS Integers

CONSTANTS
  BufferCount,     \* _bufferCount
  WordsPerBuffer,  \* _wordsPerBuffer
  Directions,      \* OUTPUT, INPUT or both
  WordNumbers      \* words are told apart by their number modulo this

\* I2S::setBuffers() refuses less than three buffers.
ASSUME RingAssumption ==
  /\ BufferCount \in Nat /\ BufferCount >= 3
  /\ WordsPerBuffer \in Nat \ {0}
  /\ Directions \subseteq {"output", "input"}
  /\ WordNumbers \in Nat /\ WordNumbers > BufferCount * WordsPerBuffer

Buffers  == 0 .. BufferCount - 1
Slots    == 0 .. WordsPerBuffer - 1
Channels == {0, 1}
NoBuffer == -1               \* _userBuffer before the first call
Silence  == 0                \* _silenceSample, and a word nobody listens to
Words    == 1 .. WordNumbers \* in the order they are made, round and round

After(w) == (w % WordNumbers) + 1

\* Variant: the step past the last buffer is missing.
FollowingRaw(b) == b + 1

Following(b) == (b + 1) % BufferCount

VARIABLES
  isOutput,     \* _isOutput
  buff,         \* buff[b][i]: word i of buffer b
  empty,        \* the flag of each buffer
  curBuffer, nextBuffer, userBuffer, userOff,
  noted,        \* noted[b]: _overunderflow was set when the handler last gave b to the DMA
  begun,        \* the buffers that begin() gave to the DMA, and the handler not again
  channel,      \* the DMA channel that runs
  done,         \* how many words of its buffer it has moved
  addr,         \* addr[c]: the buffer channel c starts with
  raised,       \* raised[c]: the interrupt of channel c
  irq,          \* where the interrupt handler is
  pc,           \* where the sketch is
  made,         \* the last word that was made: written, or sampled by the device
  heard,        \* the last word that was taken: played, or read by the sketch
  strayed       \* the sketch has used a buffer while the DMA was on it

userVars == <<userBuffer, userOff>>
ringVars == <<curBuffer, nextBuffer, noted, begun>>
dmaVars  == <<channel, done, addr, raised>>
wordVars == <<made, heard, strayed>>
vars == <<isOutput, buff, empty, userVars, ringVars, dmaVars, irq, pc, wordVars>>

Labels == {"idle", "empty", "current", "move", "pass", "flush"}
IrqLabels == {"none", "flag", "point", "current", "next"}

\* After begin(): both channels have a buffer, and the first one runs.
Init ==
  /\ isOutput \in {d = "output" : d \in Directions}
  /\ buff = [b \in Buffers |-> [i \in Slots |-> Silence]]
  /\ empty = [b \in Buffers |-> TRUE]
  /\ curBuffer = 0 /\ nextBuffer = 2 % BufferCount
  /\ userBuffer = NoBuffer /\ userOff = 0
  /\ noted = [b \in Buffers |-> FALSE] /\ begun = Channels
  /\ channel = 0 /\ done = 0
  /\ addr = [c \in Channels |-> c]
  /\ raised = [c \in Channels |-> FALSE]
  /\ irq = "none" /\ pc = "idle"
  /\ made = WordNumbers /\ heard = IF isOutput THEN WordNumbers ELSE Silence
  /\ strayed = FALSE

\* A word is made, and put in slot i of buffer b.
Make(b, i) ==
  /\ made' = IF strayed THEN made ELSE After(made)
  /\ buff' = [buff EXCEPT ![b][i] = IF strayed THEN Silence ELSE made']
  /\ UNCHANGED heard

\* The word in slot i of buffer b is taken.
Hear(b, i) ==
  /\ heard' = IF buff[b][i] = Silence THEN heard ELSE buff[b][i]
  /\ UNCHANGED <<buff, made>>
-------------------------------------------------------------------------------
(***************************************************************************)
(* The DMA channels.                                                       *)
(***************************************************************************)
\* The channel has moved its last word: it raises its interrupt and starts the
\* other one.  The one assumption on time is made here: by then the handler has
\* long returned, it needs less than a buffer lasts.
Chain ==
  /\ irq = "none" /\ \A c \in Channels : ~ raised[c]
  /\ channel' = 1 - channel /\ done' = 0
  /\ raised' = [raised EXCEPT ![channel] = TRUE]

\* Variant: the last word of a buffer is left in it.
TransferCountShort == WordsPerBuffer - 1

\* What the handler sets a channel to move, as begin() does.
TransferCount == WordsPerBuffer

Transfer ==
  /\ IF done + 1 = TransferCount
     THEN Chain
     ELSE done' = done + 1 /\ UNCHANGED <<channel, raised>>
  /\ IF isOutput THEN Hear(addr[channel], done) ELSE Make(addr[channel], done)
  /\ UNCHANGED <<isOutput, empty, userVars, ringVars, addr, irq, pc, strayed>>
-------------------------------------------------------------------------------
(***************************************************************************)
(* The interrupt handler, _irq() and _dmaIRQ().                            *)
(***************************************************************************)
Handler(l, m) == irq = l /\ irq' = m /\ UNCHANGED <<isOutput, userVars, pc, wordVars>>

Raised == \E c \in Channels : raised[c]

\* Variant: the buffer that comes next is silenced.
SilencedNext == nextBuffer

\* What was played is overwritten, for the case that nobody does.
Silenced == curBuffer

\* All words in one step: the sketch keeps off the current buffer, or strays.
SilenceBuffer ==
  /\ Handler("none", "flag") /\ Raised /\ isOutput
  /\ buff' = [buff EXCEPT ![Silenced] = [i \in Slots |-> Silence]]
  /\ UNCHANGED <<empty, ringVars, dmaVars>>

\* Variant: the handler leaves the flag as it was.
MarksNot == empty

\* The buffer goes to the sketch.
Marks == [empty EXCEPT ![curBuffer] = isOutput]

FlagBuffer ==
  /\ \/ Handler("flag", "point")
     \/ Handler("none", "point") /\ Raised /\ ~isOutput
  /\ empty' = Marks
  /\ UNCHANGED <<buff, ringVars, dmaVars>>

\* Variant: the channel goes back to where it was.
PointsBack == curBuffer

\* The channel that is done goes to the buffer after that of the other one.
Points == nextBuffer

\* Variant: an input looks for the same flag as an output.
LateEmpty == empty[nextBuffer]

\* Nothing to play there, or something nobody has read: _overunderflow is set.
Late == empty[nextBuffer] = isOutput

PointChannel ==
  /\ Handler("point", "current")
  /\ noted' = [noted EXCEPT ![nextBuffer] = Late] /\ begun' = begun \ {nextBuffer}
  /\ addr' = [c \in Channels |-> IF raised[c] THEN Points ELSE addr[c]]
  /\ UNCHANGED <<buff, empty, curBuffer, nextBuffer, channel, done, raised>>

StepCurrent ==
  /\ Handler("current", "next")
  /\ curBuffer' = Following(curBuffer)
  /\ UNCHANGED <<buff, empty, nextBuffer, noted, begun, dmaVars>>

StepNext ==
  /\ Handler("next", "none")
  /\ nextBuffer' = Following(nextBuffer)
  /\ raised' = [c \in Channels |-> FALSE]
  /\ UNCHANGED <<buff, empty, curBuffer, noted, begun, channel, done, addr>>

Handle == SilenceBuffer \/ FlagBuffer \/ PointChannel \/ StepCurrent \/ StepNext
-------------------------------------------------------------------------------
(***************************************************************************)
(* The sketch: write() on an output, read() on an input, and flush().      *)
(***************************************************************************)
Sketch(l, m) == pc = l /\ pc' = m /\ UNCHANGED <<isOutput, ringVars, dmaVars, irq>>

\* Where the first call begins.
FirstBuffer == IF isOutput THEN (nextBuffer + 2) % BufferCount
                           ELSE (curBuffer - 1 + BufferCount) % BufferCount

Call ==
  /\ Sketch("idle", "empty")
  /\ userBuffer' = IF userBuffer = NoBuffer THEN FirstBuffer ELSE userBuffer
  /\ UNCHANGED <<buff, empty, userOff, wordVars>>

\* Variant: the flag of the buffer is not looked at.
UsableAlways == TRUE

\* An empty buffer to write to, or a full one to read from.
Usable == empty[userBuffer] = isOutput

\* Variant: the buffer that is being played is as good as any.
OnCurrentNever == FALSE

OnCurrent == userBuffer = curBuffer

\* The two loops that wait, or else return false.
CheckEmpty ==
  /\ Sketch("empty", "current") /\ Usable
  /\ UNCHANGED <<buff, empty, userVars, wordVars>>

CheckCurrent ==
  /\ Sketch("current", "move") /\ ~ OnCurrent
  /\ UNCHANGED <<buff, empty, userVars, wordVars>>

\* A call that is not to wait (sync = false) returns.
GiveUp ==
  /\ \/ Sketch("empty", "idle") /\ ~ Usable
     \/ Sketch("current", "idle") /\ OnCurrent
  /\ UNCHANGED <<buff, empty, userVars, wordVars>>

\* The sketch is about to use a buffer that the DMA is on.
Strays == userBuffer \in {curBuffer, addr[channel]}

\* What comes of that is not followed: from here on all words are alike.
Stray ==
  /\ buff' = [b \in Buffers |-> [i \in Slots |-> Silence]]
  /\ made' = WordNumbers /\ heard' = Silence /\ strayed' = TRUE

MoveWord ==
  /\ Sketch("move", IF userOff + 1 = WordsPerBuffer THEN "pass" ELSE "idle")
  /\ userOff' = userOff + 1
  /\ \/ Strays /\ Stray
     \/ ~ Strays /\ isOutput /\ Make(userBuffer, userOff) /\ UNCHANGED strayed
     \/ ~ Strays /\ ~ isOutput /\ Hear(userBuffer, userOff) /\ UNCHANGED strayed
  /\ UNCHANGED <<empty, userBuffer>>

\* With its last word the buffer goes to the DMA, and the sketch to the next.
PassBuffer ==
  /\ Sketch("pass", "idle")
  /\ empty' = [empty EXCEPT ![userBuffer] = ~isOutput]
  /\ userBuffer' = Following(userBuffer) /\ userOff' = 0
  /\ UNCHANGED <<buff, wordVars>>

CallFlush ==
  /\ Sketch("idle", "flush")
  /\ UNCHANGED <<buff, empty, userVars, wordVars>>

Flushed ==
  /\ Sketch("flush", "idle") /\ OnCurrent
  /\ UNCHANGED <<buff, empty, userVars, wordVars>>

Proceed == CheckEmpty \/ CheckCurrent \/ MoveWord \/ PassBuffer \/ Flushed

Next == Transfer \/ Handle \/ Call \/ CallFlush \/ GiveUp \/ Proceed

\* The device and the handler go on for ever.  A sketch that waits looks again
\* and again: what it waits for lasts a whole buffer or more.
Spec ==
  /\ Init /\ [][Next]_vars
  /\ WF_vars(Transfer) /\ WF_vars(Handle) /\ SF_vars(Proceed)
-------------------------------------------------------------------------------
\* Types: the three indices stay inside the ring, and the offset inside its buffer but
\* for the moment when the buffer is handed over.
TypeOK ==
  /\ isOutput \in BOOLEAN
  /\ buff \in [Buffers -> [Slots -> Words \cup {Silence}]]
  /\ empty \in [Buffers -> BOOLEAN]
  /\ curBuffer \in Buffers /\ nextBuffer \in Buffers
  /\ userBuffer \in Buffers \cup {NoBuffer}
  /\ userOff \in 0 .. WordsPerBuffer
  /\ noted \in [Buffers -> BOOLEAN] /\ begun \subseteq Channels
  /\ channel \in Channels /\ done \in Slots
  /\ addr \in [Channels -> Buffers]
  /\ raised \in [Channels -> BOOLEAN]
  /\ irq \in IrqLabels /\ pc \in Labels
  /\ made \in Words /\ heard \in Words \cup {Silence} /\ strayed \in BOOLEAN

\* The DMA and the handler go through the ring in step: the channel that runs is on
\* the current buffer, or on the one after it until the handler has moved there; the
\* other channel is to go on with the buffer after that; and what the handler
\* silences and hands to the sketch is never what the DMA is on.
InStep ==
  LET Moved == ~ Raised \/ irq = "next"
      Here  == IF Moved THEN curBuffer ELSE Following(curBuffer)
  IN /\ addr[channel] = Here
     /\ addr[1 - channel] = IF Raised /\ irq \in {"none", "flag", "point"}
                            THEN curBuffer ELSE Following(Here)
     /\ nextBuffer = IF irq = "next" THEN Following(Here)
                     ELSE Following(Following(curBuffer))

\* The next word that is taken is not the one that comes next.
Skips == heard # Silence /\ heard' \notin {heard, After(heard)}

\* Words that the sketch has written are played in order, each once and none left
\* out, however late it writes them, as long as it keeps off the running buffer.
InOrder == [][Transfer => ~ Skips]_vars

\* What the DMA was given was late, or it is an empty buffer of an output that begin()
\* gave it: begin() notes nothing.
Excused(b) == noted[b] \/ (isOutput /\ b \in begun)

\* The sketch never uses a buffer while the DMA is on it, unless the handler set
\* _overunderflow when it gave that buffer to the DMA, or begin() gave it, although the
\* flag, the current buffer and the word are looked at in turn.
StraysNoted == [][MoveWord /\ Strays => Excused(userBuffer)]_vars

\* No recorded word is lost in silence: when a read() gets a word that does not follow
\* the last one, _overunderflow was set for its buffer.  Only an input is read; what
\* begin() gave its DMA was empty, and so in time.
SkipsNoted == [][MoveWord /\ ~ isOutput /\ Skips => noted[userBuffer]]_vars

\* What is written gets played, in a buffer that is full or not.  The numbers go round,
\* so word 1 stands for them all.
Played == isOutput /\ made = 1 ~> heard = 1 \/ strayed

\* Every call returns, but for a flush() of a port that was never written to or read.
CallsReturn == pc # "idle" ~> pc = "idle" \/ (pc = "flush" /\ userBuffer = NoBuffer)
===============================================================================
