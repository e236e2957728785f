---------------------------- MODULE AudioRing_proof ----------------------------
(* Proofs about AudioRing, for any number of buffers from three on, any number *)
(* of words in each, and both directions: first the channels, the handler and  *)
(* the flags, then the words in the slots, by how far they are from the sketch *)
(* and from the DMA.                                                           *)
EXTENDS AudioRing, TLAPS

-------------------------------------------------------------------------------
(* The inductive invariant.                                                    *)

\* Only the channel that is done raises its interrupt, and the handler runs for it.
IRaised == ~ raised[channel] /\ (irq # "none" => raised[1 - channel])

\* The channel that does not run has been given its next buffer.
Pointed == ~ Raised \/ irq \in {"current", "next"}

\* A buffer that the DMA was given unprepared, and that is so still, was noted, or
\* begin() gave it.
IGiven == \A b \in Buffers :
  /\ b = addr[channel] \/ (b = addr[1 - channel] /\ Pointed)
  /\ empty[b] = isOutput
  => Excused(b)

\* What the sketch has checked lasts: the flag until it passes the buffer on.  The
\* buffer may become the current one in the meantime, if it was noted or begin() gave it.
IChecked ==
  /\ pc \in {"empty", "current", "move", "pass"} => userBuffer \in Buffers
  /\ userOff = WordsPerBuffer <=> pc = "pass"
  /\ pc \in {"current", "move"} => empty[userBuffer] = isOutput
  /\ pc = "move" /\ userBuffer = curBuffer => Excused(userBuffer)

IInv == TypeOK /\ InStep /\ IRaised /\ IGiven /\ IChecked

-------------------------------------------------------------------------------
(* Going around the ring.                                                      *)
USE RingAssumption DEF RingAssumption

LEMMA FollowingIs ==
  ASSUME NEW b \in Buffers
  PROVE  Following(b) = IF b = BufferCount - 1 THEN 0 ELSE b + 1
  BY DEF Following, Buffers

\* With three buffers or more, the next two are others.
LEMMA FollowingOther ==
  ASSUME NEW b \in Buffers
  PROVE  /\ Following(b) \in Buffers /\ Following(Following(b)) \in Buffers
         /\ b # Following(b) /\ b # Following(Following(b))
         /\ Following(b) # Following(Following(b))
<1>1. Following(b) \in Buffers
  BY FollowingIs DEF Buffers
<1> QED
  BY <1>1, FollowingIs DEF Buffers

LEMMA FirstIsBuffer ==
  ASSUME TypeOK
  PROVE  FirstBuffer \in Buffers
<1>1. (nextBuffer + 2) % BufferCount \in Buffers
  BY DEF TypeOK, Buffers
<1>2. (curBuffer - 1 + BufferCount) % BufferCount \in Buffers
  BY DEF TypeOK, Buffers
<1> QED
  BY <1>1, <1>2 DEF FirstBuffer

LEMMA AfterIsWord ==
  ASSUME NEW w \in Words
  PROVE  After(w) \in Words
  BY DEF After, Words

LEMMA BufferFacts ==
  /\ {0, 1, 2} \subseteq Buffers /\ NoBuffer \notin Buffers
  /\ 0 \in Slots /\ WordNumbers \in Words /\ Silence \notin Words
  /\ \A c \in Channels : 1 - c \in Channels /\ 1 - c # c /\ 1 - (1 - c) = c
  /\ Channels \subseteq Buffers
  BY DEF Buffers, NoBuffer, Slots, Words, Silence, Channels

-------------------------------------------------------------------------------
(* The words.                                                                  *)

WordTypes == /\ buff \in [Buffers -> [Slots -> Words \cup {Silence}]]
             /\ made \in Words /\ heard \in Words \cup {Silence}

LEMMA MakeTypes ==
  ASSUME TypeOK, NEW b \in Buffers, NEW i \in Slots, Make(b, i)
  PROVE  WordTypes'
<1>1. made' \in Words
  BY AfterIsWord DEF Make, TypeOK
<1>2. buff' \in [Buffers -> [Slots -> Words \cup {Silence}]]
  BY <1>1 DEF Make, TypeOK
<1> QED
  BY <1>1, <1>2 DEF Make, TypeOK, WordTypes

LEMMA HearTypes ==
  ASSUME TypeOK, NEW b \in Buffers, NEW i \in Slots, Hear(b, i)
  PROVE  WordTypes'
  BY DEF Hear, TypeOK, WordTypes

-------------------------------------------------------------------------------
(* The invariant holds at first, and every step keeps it.                      *)

LEMMA Begins == Init => IInv
<1> SUFFICES ASSUME Init PROVE IInv
  OBVIOUS
<1>1. TypeOK
  <2>1. curBuffer \in Buffers /\ nextBuffer \in Buffers /\ addr \in [Channels -> Buffers]
    BY BufferFacts DEF Init, Buffers, Channels
  <2>2. buff \in [Buffers -> [Slots -> Words \cup {Silence}]]
    BY DEF Init
  <2>3. isOutput \in BOOLEAN
    BY Zenon DEF Init
  <2>4. noted \in [Buffers -> BOOLEAN] /\ empty \in [Buffers -> BOOLEAN] /\ begun \subseteq Channels
    BY Zenon DEF Init
  <2>5. raised \in [Channels -> BOOLEAN]
    BY DEF Init
  <2>6. userBuffer = NoBuffer /\ userOff \in 0 .. WordsPerBuffer /\ channel \in Channels
    BY DEF Init, Channels
  <2>7. done \in Slots /\ made \in Words /\ heard \in Words \cup {Silence} /\ strayed \in BOOLEAN
    BY BufferFacts DEF Init
  <2>8. irq \in IrqLabels /\ pc \in Labels
    BY DEF Init, Labels, IrqLabels
  <2> QED
    BY <2>1, <2>2, <2>3, <2>4, <2>5, <2>6, <2>7, <2>8 DEF TypeOK
<1>2. ~ Raised
  BY DEF Init, Raised
<1>3. Following(0) = 1 /\ Following(1) = 2 % BufferCount
  BY DEF Following
<1>4. InStep
  BY <1>2, <1>3, BufferFacts DEF Init, InStep, Channels
<1>5. IRaised /\ IGiven /\ IChecked
  BY BufferFacts DEF Init, IRaised, IGiven, IChecked, Excused, Channels, Pointed, Slots
<1> QED
  BY <1>1, <1>4, <1>5 DEF IInv

\* Types.
LEMMA TypeStep == IInv /\ [Next]_vars => TypeOK'
<1> SUFFICES ASSUME IInv, [Next]_vars PROVE TypeOK'
  OBVIOUS
<1> USE DEF Labels, IrqLabels
<1>0. TypeOK
  BY DEF IInv
<1>1. ASSUME Transfer PROVE TypeOK'
  <2>1. WordTypes'
    <3>1. addr[channel] \in Buffers /\ done \in Slots
      BY <1>0 DEF TypeOK
    <3> QED
      BY <1>0, <1>1, <3>1, MakeTypes, HearTypes DEF Transfer, TransferCount
  <2>2. /\ channel' \in Channels /\ done' \in Slots
        /\ raised' \in [Channels -> BOOLEAN]
    <3>1. CASE done + 1 = WordsPerBuffer
      BY <1>0, <1>1, <3>1, BufferFacts DEF TypeOK, Transfer, TransferCount, Chain
    <3>2. CASE done + 1 # WordsPerBuffer
      BY <1>0, <1>1, <3>2 DEF TypeOK, Transfer, TransferCount, Slots
    <3> QED
      BY <3>1, <3>2
  <2> QED
    BY <1>0, <1>1, <2>1, <2>2 DEF TypeOK, Transfer, TransferCount, WordTypes, userVars, ringVars
<1>2. ASSUME SilenceBuffer PROVE TypeOK'
  BY <1>0, <1>2 DEF TypeOK, SilenceBuffer, Handler, userVars, ringVars, dmaVars, wordVars
<1>3. ASSUME FlagBuffer PROVE TypeOK'
  BY <1>0, <1>3 DEF TypeOK, FlagBuffer, Marks, Handler, userVars, ringVars, dmaVars, wordVars
<1>4. ASSUME PointChannel PROVE TypeOK'
  BY <1>0, <1>4 DEF TypeOK, PointChannel, Late, Points, Handler, userVars, wordVars
<1>5. ASSUME StepCurrent PROVE TypeOK'
  BY <1>0, <1>5, FollowingOther DEF TypeOK, StepCurrent, Handler, userVars, dmaVars, wordVars
<1>6. ASSUME StepNext PROVE TypeOK'
  BY <1>0, <1>6, FollowingOther DEF TypeOK, StepNext, Handler, userVars, wordVars
<1>7. ASSUME Call PROVE TypeOK'
  BY <1>0, <1>7, FirstIsBuffer DEF TypeOK, Call, Sketch, ringVars, dmaVars, wordVars
<1>8. ASSUME CheckEmpty \/ CheckCurrent \/ GiveUp \/ CallFlush \/ Flushed PROVE TypeOK'
  BY <1>0, <1>8 DEF TypeOK, CheckEmpty, CheckCurrent, GiveUp, CallFlush, Flushed, Sketch,
     userVars, ringVars, dmaVars, wordVars
<1>9. ASSUME MoveWord PROVE TypeOK'
  <2>1. userBuffer \in Buffers /\ userOff \in Slots
    BY <1>0, <1>9 DEF IInv, IChecked, MoveWord, Sketch, TypeOK, Slots
  <2>2. WordTypes' /\ strayed' \in BOOLEAN
    <3>1. CASE Stray
      BY <3>1, BufferFacts DEF Stray, WordTypes
    <3>2. CASE Make(userBuffer, userOff) /\ UNCHANGED strayed
      BY <1>0, <2>1, <3>2, MakeTypes DEF TypeOK
    <3>3. CASE Hear(userBuffer, userOff) /\ UNCHANGED strayed
      BY <1>0, <2>1, <3>3, HearTypes DEF TypeOK
    <3> QED
      BY <1>9, <3>1, <3>2, <3>3 DEF MoveWord
  <2>3. userOff' \in 0 .. WordsPerBuffer
    BY <1>9, <2>1 DEF MoveWord, Slots
  <2>4. pc' \in Labels /\ UNCHANGED <<isOutput, ringVars, dmaVars, irq, empty, userBuffer>>
    BY <1>9 DEF MoveWord, Sketch
  <2> QED
    BY <1>0, <2>2, <2>3, <2>4 DEF TypeOK, WordTypes, ringVars, dmaVars
<1>10. ASSUME PassBuffer PROVE TypeOK'
  <2>1. userBuffer' \in Buffers
    BY <1>10, FollowingOther DEF IInv, IChecked, PassBuffer, Sketch
  <2>2. empty' \in [Buffers -> BOOLEAN]
    BY <1>0, <1>10 DEF TypeOK, PassBuffer
  <2>3. userOff' \in 0 .. WordsPerBuffer /\ pc' \in Labels
    BY <1>10 DEF PassBuffer, Sketch
  <2>4. UNCHANGED <<isOutput, ringVars, dmaVars, irq, buff, wordVars>>
    BY <1>10 DEF PassBuffer, Sketch
  <2> QED
    BY <1>0, <2>1, <2>2, <2>3, <2>4 DEF TypeOK, ringVars, dmaVars, wordVars
<1>11. CASE UNCHANGED vars
  BY <1>0, <1>11 DEF TypeOK, vars, userVars, ringVars, dmaVars, wordVars
<1> QED
  BY <1>1, <1>2, <1>3, <1>4, <1>5, <1>6, <1>7, <1>8, <1>9, <1>10, <1>11
     DEF Next, Handle, Proceed

\* The DMA and the handler.
LEMMA RingStep == IInv /\ [Next]_vars => InStep' /\ IRaised'
<1> SUFFICES ASSUME IInv, [Next]_vars PROVE InStep' /\ IRaised'
  OBVIOUS
<1>0. TypeOK /\ InStep /\ IRaised
  BY DEF IInv
<1>1. ASSUME Transfer PROVE InStep' /\ IRaised'
  <2>1. CASE done + 1 = WordsPerBuffer
    <3>1. ~ Raised /\ Raised' /\ irq' = "none" /\ irq = "none"
      BY <1>0, <1>1, <2>1 DEF Transfer, TransferCount, Chain, Raised, TypeOK
    <3>2. channel' = 1 - channel /\ 1 - channel' = channel
      BY <1>0, <1>1, <2>1, BufferFacts DEF Transfer, TransferCount, Chain, TypeOK
    <3>3. UNCHANGED <<addr, curBuffer, nextBuffer>>
      BY <1>1 DEF Transfer, TransferCount, ringVars
    <3>4. InStep'
      BY <1>0, <3>1, <3>2, <3>3 DEF InStep, Following
    <3>5. IRaised'
      BY <1>0, <1>1, <2>1, <3>1, <3>2, BufferFacts DEF IRaised, Transfer, TransferCount, Chain, TypeOK, Raised
    <3> QED
      BY <3>4, <3>5
  <2>2. CASE done + 1 # WordsPerBuffer
    BY <1>0, <1>1, <2>2 DEF Transfer, TransferCount, ringVars, InStep, IRaised, Raised, Following
  <2> QED
    BY <2>1, <2>2
<1>2. ASSUME SilenceBuffer PROVE InStep' /\ IRaised'
  <2>1. raised[1 - channel]
    BY <1>0, <1>2, BufferFacts DEF SilenceBuffer, Raised, IRaised, TypeOK, Channels
  <2> QED
    BY <1>0, <1>2, <2>1 DEF SilenceBuffer, Handler, dmaVars, ringVars, InStep, IRaised, Raised, Following
<1>3. ASSUME FlagBuffer PROVE InStep' /\ IRaised'
  <2>1. raised[1 - channel]
    BY <1>0, <1>3, BufferFacts DEF FlagBuffer, Handler, Raised, IRaised, TypeOK, Channels
  <2> QED
    BY <1>0, <1>3, <2>1 DEF FlagBuffer, Handler, dmaVars, ringVars, InStep, IRaised, Raised, Following
<1>4. ASSUME PointChannel PROVE InStep' /\ IRaised'
  <2>1. raised[1 - channel] /\ Raised /\ ~ raised[channel] /\ 1 - channel \in Channels /\ channel \in Channels
    BY <1>0, <1>4, BufferFacts DEF PointChannel, Handler, Raised, IRaised, TypeOK
  <2>2. addr'[1 - channel] = nextBuffer /\ addr'[channel] = addr[channel]
    BY <1>4, <2>1 DEF PointChannel, Points
  <2>3. UNCHANGED <<curBuffer, nextBuffer, channel, raised>> /\ irq = "point" /\ irq' = "current"
    BY <1>4 DEF PointChannel, Handler
  <2> QED
    BY <1>0, <2>1, <2>2, <2>3 DEF InStep, IRaised, Raised, Following
<1>5. ASSUME StepCurrent PROVE InStep' /\ IRaised'
  <2>1. Raised
    BY <1>0, <1>5, BufferFacts DEF StepCurrent, Handler, Raised, IRaised, TypeOK
  <2> QED
    BY <1>0, <1>5, <2>1 DEF StepCurrent, Handler, dmaVars, InStep, IRaised, Raised, Following
<1>6. ASSUME StepNext PROVE InStep' /\ IRaised'
  <2>1. ~ Raised'
    BY <1>6 DEF StepNext, Raised
  <2>2. /\ UNCHANGED <<channel, addr, curBuffer>> /\ irq = "next" /\ irq' = "none"
        /\ nextBuffer' = Following(nextBuffer)
    BY <1>6 DEF StepNext, Handler
  <2>3. channel \in Channels /\ 1 - channel \in Channels
    BY <1>0, BufferFacts DEF TypeOK
  <2>4. InStep'
    BY <1>0, <2>1, <2>2 DEF InStep, Following
  <2> QED
    BY <2>1, <2>2, <2>3, <2>4 DEF IRaised, Raised
<1>7. ASSUME UNCHANGED <<ringVars, dmaVars, irq>> PROVE InStep' /\ IRaised'
  BY <1>0, <1>7 DEF InStep, IRaised, Raised, Following, ringVars, dmaVars
<1>8. ASSUME Call \/ CallFlush \/ GiveUp \/ Proceed \/ UNCHANGED vars
      PROVE  UNCHANGED <<ringVars, dmaVars, irq>>
  BY <1>8 DEF Call, CallFlush, GiveUp, Proceed, CheckEmpty, CheckCurrent, MoveWord, PassBuffer,
     Flushed, Sketch, vars
<1> QED
  BY <1>1, <1>2, <1>3, <1>4, <1>5, <1>6, <1>7, <1>8 DEF Next, Handle

\* Where the two channels are, for a step that leaves them there.
LEMMA Places ==
  ASSUME TypeOK, InStep, IRaised
  PROVE  /\ addr[channel] \in Buffers /\ addr[1 - channel] \in Buffers
         /\ Raised /\ irq # "next" => addr[channel] = Following(curBuffer)
         /\ irq # "none" => Raised
<1>1. channel \in Channels /\ 1 - channel \in Channels
  BY BufferFacts DEF TypeOK
<1>2. irq # "none" => Raised
  BY <1>1 DEF IRaised, Raised
<1> QED
  BY <1>1, <1>2 DEF InStep, TypeOK

\* What the DMA was given.
LEMMA GivenStep == IInv /\ [Next]_vars => IGiven'
<1> SUFFICES ASSUME IInv, [Next]_vars PROVE IGiven'
  OBVIOUS
<1>0. TypeOK /\ InStep /\ IRaised /\ IGiven
  BY DEF IInv
<1>1. ASSUME Transfer PROVE IGiven'
  <2>1. CASE done + 1 = WordsPerBuffer
    <3>1. ~ Raised /\ channel' = 1 - channel
      BY <1>1, <2>1 DEF Transfer, TransferCount, Chain, Raised
    <3>2. UNCHANGED <<addr, noted, begun, empty, isOutput, irq>> /\ irq = "none"
      BY <1>1, <2>1 DEF Transfer, TransferCount, Chain, ringVars
    <3>3. Raised'
      BY <1>0, <1>1, <2>1 DEF Transfer, TransferCount, Chain, Raised, TypeOK
    <3> QED
      BY <1>0, <3>1, <3>2, <3>3 DEF IGiven, Excused, Pointed
  <2>2. CASE done + 1 # WordsPerBuffer
    BY <1>0, <1>1, <2>2 DEF Transfer, TransferCount, ringVars, IGiven, Excused, Pointed, Raised
  <2> QED
    BY <2>1, <2>2
<1>2. ASSUME SilenceBuffer PROVE IGiven'
  BY <1>0, <1>2 DEF SilenceBuffer, Handler, dmaVars, ringVars, IGiven, Excused, Pointed, Raised
<1>3. ASSUME FlagBuffer PROVE IGiven'
  <2>1. Raised /\ irq \in {"none", "flag"} /\ irq' = "point"
    BY <1>0, <1>3, Places DEF FlagBuffer, Handler
  <2>2. addr[channel] # curBuffer
    BY <1>0, <2>1, Places, FollowingOther DEF TypeOK
  <2>3. UNCHANGED <<noted, begun, isOutput, dmaVars>> /\ empty' = [empty EXCEPT ![curBuffer] = isOutput]
    BY <1>3 DEF FlagBuffer, Handler, ringVars, Marks
  <2>4. ~ Pointed'
    BY <2>1, <2>3 DEF Pointed, Raised, dmaVars
  <2> QED
    BY <1>0, <2>2, <2>3, <2>4 DEF IGiven, Excused, dmaVars, TypeOK
<1>4. ASSUME PointChannel PROVE IGiven'
  <2>1. Raised /\ 1 - channel \in Channels /\ raised[1 - channel] /\ ~ raised[channel]
        /\ channel \in Channels
    BY <1>0, <1>4, Places, BufferFacts DEF PointChannel, Handler, IRaised, TypeOK
  <2>2. addr'[1 - channel] = nextBuffer /\ addr'[channel] = addr[channel]
    BY <1>4, <2>1 DEF PointChannel, Points
  <2>3. noted' = [noted EXCEPT ![nextBuffer] = Late] /\ begun' = begun \ {nextBuffer}
        /\ UNCHANGED <<isOutput, empty, channel>>
    BY <1>4 DEF PointChannel, Handler
  <2>4. ASSUME NEW b \in Buffers, b # nextBuffer, b = addr[channel], empty[b] = isOutput
        PROVE  Excused(b)'
    BY <1>0, <2>3, <2>4 DEF IGiven, Excused, TypeOK
  <2>5. empty[nextBuffer] = isOutput => \A b \in {nextBuffer} : Excused(b)'
    BY <1>0, <2>3 DEF TypeOK, Late, Excused
  <2> QED
    BY <2>2, <2>3, <2>4, <2>5 DEF IGiven, Excused
<1>5. ASSUME StepCurrent PROVE IGiven'
  BY <1>0, <1>5 DEF StepCurrent, Handler, dmaVars, IGiven, Excused, Pointed, Raised
<1>6. ASSUME StepNext PROVE IGiven'
  BY <1>0, <1>6 DEF StepNext, Handler, IGiven, Excused, Pointed
<1>7. ASSUME Call \/ CheckEmpty \/ CheckCurrent \/ GiveUp \/ MoveWord \/ CallFlush \/ Flushed
             \/ UNCHANGED vars
      PROVE  IGiven'
  <2>1. UNCHANGED <<isOutput, empty, ringVars, dmaVars, irq>>
    BY <1>7 DEF Call, CheckEmpty, CheckCurrent, GiveUp, MoveWord, CallFlush, Flushed, Sketch, vars
  <2> QED
    BY <1>0, <2>1 DEF IGiven, Excused, Pointed, Raised, ringVars, dmaVars
<1>8. ASSUME PassBuffer PROVE IGiven'
  <2>1. UNCHANGED <<isOutput, ringVars, dmaVars, irq>> /\ empty' = [empty EXCEPT ![userBuffer] = ~isOutput]
    BY <1>8 DEF PassBuffer, Sketch
  <2>2. ASSUME NEW b \in Buffers, empty'[b] = isOutput PROVE empty[b] = isOutput
    BY <1>0, <2>1, <2>2 DEF TypeOK
  <2> QED
    BY <1>0, <2>1, <2>2 DEF IGiven, Excused, Pointed, Raised, ringVars, dmaVars
<1> QED
  BY <1>1, <1>2, <1>3, <1>4, <1>5, <1>6, <1>7, <1>8 DEF Next, Handle, Proceed

\* What the sketch has checked.
LEMMA CheckedStep == IInv /\ [Next]_vars => IChecked'
<1> SUFFICES ASSUME IInv, [Next]_vars PROVE IChecked'
  OBVIOUS
<1>0. TypeOK /\ InStep /\ IRaised /\ IGiven /\ IChecked
  BY DEF IInv
<1>1. ASSUME Transfer PROVE IChecked'
  BY <1>0, <1>1 DEF Transfer, TransferCount, userVars, ringVars, IChecked, Excused
<1>2. ASSUME SilenceBuffer PROVE IChecked'
  BY <1>0, <1>2 DEF SilenceBuffer, Handler, userVars, ringVars, IChecked, Excused
<1>3. ASSUME FlagBuffer PROVE IChecked'
  <2>1. UNCHANGED <<isOutput, pc, userVars, ringVars>> /\ empty' = [empty EXCEPT ![curBuffer] = isOutput]
    BY <1>3 DEF FlagBuffer, Handler, Marks
  <2>2. ASSUME userBuffer \in Buffers, empty[userBuffer] = isOutput
        PROVE  empty'[userBuffer] = isOutput
    BY <1>0, <2>1, <2>2 DEF TypeOK
  <2> QED
    BY <1>0, <2>1, <2>2 DEF IChecked, Excused, userVars, ringVars
<1>4. ASSUME PointChannel PROVE IChecked'
  <2>1. UNCHANGED <<isOutput, pc, userVars, empty, curBuffer>>
        /\ noted' = [noted EXCEPT ![nextBuffer] = Late] /\ begun' = begun \ {nextBuffer}
    BY <1>4 DEF PointChannel, Handler
  <2>2. nextBuffer # curBuffer
    BY <1>0, <1>4, Places, FollowingOther DEF PointChannel, Handler, InStep, TypeOK
  <2>3. Excused(curBuffer) => Excused(curBuffer)'
    BY <1>0, <2>1, <2>2 DEF TypeOK, Excused
  <2> QED
    BY <1>0, <2>1, <2>3 DEF IChecked, Excused, userVars
<1>5. ASSUME StepCurrent PROVE IChecked'
  <2>1. UNCHANGED <<isOutput, pc, userVars, empty, noted, begun>> /\ curBuffer' = Following(curBuffer)
    BY <1>5 DEF StepCurrent, Handler
  <2>2. addr[channel] = curBuffer' /\ addr[channel] \in Buffers
    BY <1>0, <1>5, <2>1, Places DEF StepCurrent, Handler
  <2>3. empty[curBuffer'] = isOutput => Excused(curBuffer')
    BY <1>0, <2>2 DEF IGiven, Excused
  <2> QED
    BY <1>0, <2>1, <2>3 DEF IChecked, Excused, userVars
<1>6. ASSUME StepNext PROVE IChecked'
  BY <1>0, <1>6 DEF StepNext, Handler, userVars, IChecked, Excused
<1>7. ASSUME Call PROVE IChecked'
  BY <1>0, <1>7, FirstIsBuffer DEF Call, Sketch, IChecked, Excused, TypeOK
<1>8. ASSUME CheckEmpty PROVE IChecked'
  BY <1>0, <1>8 DEF CheckEmpty, Usable, Sketch, userVars, IChecked, Excused
<1>9. ASSUME CheckCurrent PROVE IChecked'
  BY <1>0, <1>9 DEF CheckCurrent, OnCurrent, Sketch, userVars, ringVars, IChecked, Excused
<1>10. ASSUME GiveUp \/ CallFlush \/ Flushed PROVE IChecked'
  BY <1>0, <1>10 DEF GiveUp, CallFlush, Flushed, Sketch, userVars, IChecked, Excused
<1>11. ASSUME MoveWord PROVE IChecked'
  <2>1. userOff \in Slots
    BY <1>0, <1>11 DEF MoveWord, Sketch, IChecked, Excused, TypeOK, Slots
  <2> QED
    BY <1>0, <1>11, <2>1 DEF MoveWord, Sketch, IChecked, Excused, Slots
<1>12. ASSUME PassBuffer PROVE IChecked'
  BY <1>0, <1>12 DEF PassBuffer, Sketch, IChecked, Excused
<1>13. CASE UNCHANGED vars
  BY <1>0, <1>13 DEF vars, userVars, ringVars, IChecked, Excused
<1> QED
  BY <1>1, <1>2, <1>3, <1>4, <1>5, <1>6, <1>7, <1>8, <1>9, <1>10, <1>11, <1>12, <1>13
     DEF Next, Handle, Proceed

-------------------------------------------------------------------------------
(* The theorems.                                                               *)

\* The invariant holds in every reachable state.
THEOREM Invariance == Spec => []IInv
<1>1. IInv /\ [Next]_vars => IInv'
  BY TypeStep, RingStep, GivenStep, CheckedStep DEF IInv
<1> QED
  BY Begins, <1>1, PTL DEF Spec

\* For every ring the indices stay inside it and every variable keeps its type.
THEOREM TypeCorrect == Spec => []TypeOK
<1>1. IInv => TypeOK
  BY DEF IInv
<1> QED
  BY Invariance, <1>1, PTL

\* For every ring the DMA, the handler and the two indices go round it in step.
THEOREM InStepCorrect == Spec => []InStep
<1>1. IInv => InStep
  BY DEF IInv
<1> QED
  BY Invariance, <1>1, PTL

\* For every ring of three buffers or more the sketch uses no buffer that the DMA is
\* on, unless _overunderflow was set when the handler gave it to the DMA, or begin() gave it.
THEOREM StraysNotedCorrect == Spec => StraysNoted
<1>1. ASSUME IInv, [Next]_vars, MoveWord, Strays PROVE Excused(userBuffer)
  <2>1. /\ userBuffer \in Buffers /\ empty[userBuffer] = isOutput
        /\ userBuffer = curBuffer => Excused(userBuffer)
    BY <1>1 DEF IInv, IChecked, MoveWord, Sketch
  <2>2. userBuffer = addr[channel] => Excused(userBuffer)
    BY <1>1, <2>1 DEF IInv, IGiven
  <2> QED
    BY <1>1, <2>1, <2>2 DEF Strays
<1>2. IInv /\ [Next]_vars => [MoveWord /\ Strays => Excused(userBuffer)]_vars
  BY <1>1
<1> QED
  BY Invariance, <1>2, PTL DEF Spec, StraysNoted

-------------------------------------------------------------------------------
(* Distances in the ring, in words.                                            *)

RingWords == BufferCount * WordsPerBuffer

\* How many buffers it is from b on to c.
Turns(b, c) == IF c >= b THEN c - b ELSE c - b + BufferCount

\* How many words it is from slot i of b on to place j of c, at least one; place
\* WordsPerBuffer is the end of a buffer.
Gap(b, i, c, j) ==
  LET g == Turns(b, c) * WordsPerBuffer + j - i IN IF g > 0 THEN g ELSE g + RingWords

\* The ring is longer than a buffer, and the numbers of the words tell all of it apart.
LEMMA RingWordsIs == RingWords \in Nat /\ RingWords > WordsPerBuffer /\ WordNumbers > RingWords
<1>1. (BufferCount - 2) * WordsPerBuffer >= 0
  OBVIOUS
<1> QED
  BY <1>1 DEF RingWords

\* Going on by one buffer with either end.
LEMMA TurnsIs ==
  ASSUME NEW b \in Buffers, NEW c \in Buffers
  PROVE  /\ Turns(b, c) \in 0 .. BufferCount - 1
         /\ Turns(b, c) = 0 <=> b = c
         /\ Turns(b, Following(c)) = IF Turns(b, c) = BufferCount - 1 THEN 0 ELSE Turns(b, c) + 1
         /\ Turns(Following(b), c) = IF b = c THEN BufferCount - 1 ELSE Turns(b, c) - 1
  BY FollowingIs DEF Turns, Buffers

\* Two buffers are at different distances from a third.
LEMMA TurnsInjective ==
  ASSUME NEW b \in Buffers, NEW c \in Buffers, NEW d \in Buffers, Turns(b, d) = Turns(c, d)
  PROVE  b = c
  BY DEF Turns, Buffers

\* A whole number of buffers, in words.
LEMMA WholeBuffers ==
  ASSUME NEW t \in 0 .. BufferCount - 1
  PROVE  /\ t * WordsPerBuffer \in Nat
         /\ t * WordsPerBuffer <= RingWords - WordsPerBuffer
         /\ t > 0 => t * WordsPerBuffer >= WordsPerBuffer
         /\ (t + 1) * WordsPerBuffer = t * WordsPerBuffer + WordsPerBuffer
         /\ (BufferCount - 1) * WordsPerBuffer = RingWords - WordsPerBuffer
<1>1. (BufferCount - 1 - t) * WordsPerBuffer >= 0
  OBVIOUS
<1>2. t > 0 => (t - 1) * WordsPerBuffer >= 0
  OBVIOUS
<1>3. t * WordsPerBuffer >= 0
  OBVIOUS
<1> QED
  BY <1>1, <1>2, <1>3 DEF RingWords

\* The two cases of a distance: with a full round, or without.
LEMMA GapIs ==
  ASSUME NEW b \in Buffers, NEW i \in Slots, NEW c \in Buffers, NEW j \in 0 .. WordsPerBuffer
  PROVE  /\ Gap(b, i, c, j) \in 1 .. RingWords
         /\ Gap(b, i, c, j) = IF b = c /\ j <= i THEN RingWords + j - i
                              ELSE Turns(b, c) * WordsPerBuffer + j - i
         /\ b = c => Turns(b, c) * WordsPerBuffer = 0
<1> DEFINE t == Turns(b, c) * WordsPerBuffer
<1>1. /\ t \in Nat /\ t <= RingWords - WordsPerBuffer
      /\ b # c => t >= WordsPerBuffer
      /\ b = c => t = 0
  <2>1. Turns(b, c) \in 0 .. BufferCount - 1 /\ (Turns(b, c) = 0 <=> b = c)
    BY TurnsIs
  <2> QED
    BY <2>1, WholeBuffers
<1>2. RingWords \in Nat
  BY RingWordsIs
<1>3. i \in Nat /\ i < WordsPerBuffer
  BY DEF Slots
<1> QED
  BY <1>1, <1>2, <1>3 DEF Gap

\* One word on with the far end.
LEMMA GapForward ==
  ASSUME NEW b \in Buffers, NEW i \in Slots, NEW c \in Buffers, NEW j \in Slots
  PROVE  /\ Gap(b, i, c, j + 1) = IF b = c /\ i = j THEN 1 ELSE Gap(b, i, c, j) + 1
         /\ Gap(b, i, c, j) = RingWords <=> b = c /\ i = j
<1> DEFINE t == Turns(b, c) * WordsPerBuffer
<1>1. t \in Nat /\ t <= RingWords - WordsPerBuffer
  BY TurnsIs, WholeBuffers
<1>2. RingWords \in Nat /\ i \in Nat /\ j \in Nat /\ i < WordsPerBuffer /\ j < WordsPerBuffer
  BY RingWordsIs DEF Slots
<1>3. j \in 0 .. WordsPerBuffer /\ j + 1 \in 0 .. WordsPerBuffer
  BY <1>2
<1>4. /\ Gap(b, i, c, j) = IF b = c /\ j <= i THEN RingWords + j - i ELSE t + j - i
      /\ Gap(b, i, c, j + 1) = IF b = c /\ j + 1 <= i THEN RingWords + (j + 1) - i ELSE t + (j + 1) - i
      /\ b = c => t = 0
  BY <1>3, GapIs
<1> HIDE DEF t
<1> QED
  BY <1>1, <1>2, <1>4

\* The end of a buffer is the beginning of the next.
LEMMA GapTurn ==
  ASSUME NEW b \in Buffers, NEW i \in Slots, NEW c \in Buffers
  PROVE  Gap(b, i, Following(c), 0) = Gap(b, i, c, WordsPerBuffer)
<1> DEFINE t == Turns(b, c)
           f == Turns(b, Following(c))
<1>1. /\ t \in 0 .. BufferCount - 1 /\ (t = 0 <=> b = c)
      /\ f = IF t = BufferCount - 1 THEN 0 ELSE t + 1
      /\ Following(c) \in Buffers /\ f \in 0 .. BufferCount - 1 /\ (f = 0 <=> b = Following(c))
  BY TurnsIs, FollowingOther
<1>2. /\ t * WordsPerBuffer \in Nat
      /\ (t + 1) * WordsPerBuffer = t * WordsPerBuffer + WordsPerBuffer
      /\ (BufferCount - 1) * WordsPerBuffer = RingWords - WordsPerBuffer
  BY <1>1, WholeBuffers
<1>3. i \in Nat /\ i < WordsPerBuffer /\ RingWords \in Nat
  BY RingWordsIs DEF Slots
<1>4. Gap(b, i, Following(c), 0) = IF b = Following(c) THEN RingWords + 0 - i ELSE f * WordsPerBuffer + 0 - i
  <2>1. 0 \in 0 .. WordsPerBuffer
    OBVIOUS
  <2> QED
    BY <1>1, <1>3, <2>1, GapIs
<1>5. Gap(b, i, c, WordsPerBuffer) = t * WordsPerBuffer + WordsPerBuffer - i
  <2>1. WordsPerBuffer \in 0 .. WordsPerBuffer
    OBVIOUS
  <2> QED
    BY <1>1, <1>3, <2>1, GapIs
<1> HIDE DEF t, f
<1>6. CASE t = BufferCount - 1
  BY <1>1, <1>2, <1>3, <1>4, <1>5, <1>6
<1>7. CASE t # BufferCount - 1
  <2>1. f = t + 1 /\ f # 0
    BY <1>1, <1>7
  <2>2. f * WordsPerBuffer = t * WordsPerBuffer + WordsPerBuffer
    BY <1>2, <2>1
  <2> QED
    BY <1>1, <1>2, <1>3, <1>4, <1>5, <2>1, <2>2
<1> QED
  BY <1>6, <1>7

\* One word on with the near end.
LEMMA GapNext ==
  ASSUME NEW b \in Buffers, NEW i \in Slots, NEW c \in Buffers, NEW j \in 0 .. WordsPerBuffer
  PROVE  LET g == Gap(b, i, c, j)
         IN /\ i + 1 < WordsPerBuffer =>
                 Gap(b, i + 1, c, j) = IF g = 1 THEN RingWords ELSE g - 1
            /\ i + 1 = WordsPerBuffer =>
                 Gap(Following(b), 0, c, j) = IF g = 1 THEN RingWords ELSE g - 1
<1> DEFINE t == Turns(b, c)
           f == Turns(Following(b), c)
           g == Gap(b, i, c, j)
<1>1. /\ t \in 0 .. BufferCount - 1 /\ (t = 0 <=> b = c)
      /\ f = IF b = c THEN BufferCount - 1 ELSE t - 1
      /\ Following(b) \in Buffers /\ f \in 0 .. BufferCount - 1 /\ (f = 0 <=> c = Following(b))
  BY TurnsIs, FollowingOther, ZenonT(30)
<1>2. /\ t * WordsPerBuffer \in Nat /\ t * WordsPerBuffer <= RingWords - WordsPerBuffer
      /\ t > 0 => t * WordsPerBuffer >= WordsPerBuffer
      /\ f * WordsPerBuffer \in Nat /\ (f > 0 => f * WordsPerBuffer >= WordsPerBuffer)
      /\ (f + 1) * WordsPerBuffer = f * WordsPerBuffer + WordsPerBuffer
      /\ (BufferCount - 1) * WordsPerBuffer = RingWords - WordsPerBuffer
  BY <1>1, WholeBuffers
<1>3. /\ i \in Nat /\ i < WordsPerBuffer /\ RingWords \in Nat /\ j \in Nat /\ j <= WordsPerBuffer
      /\ RingWords > WordsPerBuffer
  BY RingWordsIs DEF Slots
<1>4. /\ g = IF b = c /\ j <= i THEN RingWords + j - i ELSE t * WordsPerBuffer + j - i
      /\ b = c => t * WordsPerBuffer = 0
  BY GapIs
<1>5. ASSUME i + 1 < WordsPerBuffer
      PROVE  Gap(b, i + 1, c, j) = IF g = 1 THEN RingWords ELSE g - 1
  <2>1. i + 1 \in Slots
    BY <1>5, <1>3 DEF Slots
  <2>2. Gap(b, i + 1, c, j) = IF b = c /\ j <= i + 1 THEN RingWords + j - (i + 1)
                              ELSE t * WordsPerBuffer + j - (i + 1)
    BY <2>1, GapIs
  <2> HIDE DEF t, f, g
  <2> QED
    BY <1>1, <1>2, <1>3, <1>4, <1>5, <2>2
<1>6. ASSUME i + 1 = WordsPerBuffer
      PROVE  Gap(Following(b), 0, c, j) = IF g = 1 THEN RingWords ELSE g - 1
  <2>1. 0 \in Slots
    BY DEF Slots
  <2>2. Gap(Following(b), 0, c, j) = IF Following(b) = c /\ j <= 0 THEN RingWords + j - 0
                                     ELSE f * WordsPerBuffer + j - 0
    BY <1>1, <2>1, GapIs
  <2>3. Following(b) = c => f * WordsPerBuffer = 0
    BY <1>1
  <2>4. CASE b = c
    <3>1. f * WordsPerBuffer = RingWords - WordsPerBuffer /\ Following(b) # c
      BY <1>1, <1>2, <2>4
    <3> HIDE DEF t, f, g
    <3> QED
      BY <1>3, <1>4, <1>6, <2>2, <2>4, <3>1
  <2>5. CASE b # c
    <3>1. t = f + 1
      BY <1>1, <2>5
    <3>2. t * WordsPerBuffer = f * WordsPerBuffer + WordsPerBuffer
      BY <1>2, <3>1
    <3> HIDE DEF t, f, g
    <3>3. g = f * WordsPerBuffer + j + 1
      BY <1>2, <1>3, <1>4, <1>6, <2>5, <3>2
    <3> QED
      BY <1>1, <1>2, <1>3, <2>2, <2>3, <3>3
  <2> QED
    BY <2>4, <2>5
<1> QED
  BY <1>5, <1>6

\* Two slots are at different distances.
LEMMA GapInjective ==
  ASSUME NEW b \in Buffers, NEW i \in Slots, NEW d \in Buffers, NEW k \in Slots,
         NEW c \in Buffers, NEW j \in 0 .. WordsPerBuffer,
         Gap(b, i, c, j) = Gap(d, k, c, j)
  PROVE  b = d /\ i = k
<1> DEFINE t == Turns(b, c)
           s == Turns(d, c)
           tw == t * WordsPerBuffer
           sw == s * WordsPerBuffer
<1>1. /\ t \in 0 .. BufferCount - 1 /\ (t = 0 <=> b = c)
      /\ s \in 0 .. BufferCount - 1 /\ (s = 0 <=> d = c)
      /\ t = s => b = d
  BY TurnsIs, TurnsInjective
<1>2. i \in Nat /\ i < WordsPerBuffer /\ k \in Nat /\ k < WordsPerBuffer /\ RingWords \in Nat
      /\ j \in Nat /\ j <= WordsPerBuffer
  BY RingWordsIs DEF Slots
<1>3. /\ tw \in Nat /\ tw <= RingWords - WordsPerBuffer
      /\ sw \in Nat /\ sw <= RingWords - WordsPerBuffer
      /\ t > 0 => tw >= WordsPerBuffer
      /\ s > 0 => sw >= WordsPerBuffer
  BY <1>1, WholeBuffers
<1>4. /\ Gap(b, i, c, j) = IF b = c /\ j <= i THEN RingWords + j - i ELSE tw + j - i
      /\ Gap(d, k, c, j) = IF d = c /\ j <= k THEN RingWords + j - k ELSE sw + j - k
      /\ b = c => tw = 0
      /\ d = c => sw = 0
  BY GapIs
<1>5. t < s => tw + WordsPerBuffer <= sw
  <2>1. t < s => (s - t - 1) * WordsPerBuffer >= 0
    BY <1>1
  <2> QED
    BY <1>1, <2>1
<1>6. s < t => sw + WordsPerBuffer <= tw
  <2>1. s < t => (t - s - 1) * WordsPerBuffer >= 0
    BY <1>1
  <2> QED
    BY <1>1, <2>1
<1>7. t = s => tw = sw
  OBVIOUS
<1> DEFINE g == Gap(b, i, c, j)
<1>g. /\ g = IF b = c /\ j <= i THEN RingWords + j - i ELSE tw + j - i
      /\ g = IF d = c /\ j <= k THEN RingWords + j - k ELSE sw + j - k
  BY <1>4
<1> HIDE DEF t, s, tw, sw, g
<1>8. t = s => i = k
  BY <1>1, <1>2, <1>3, <1>4, <1>g, <1>7
<1>9. ~ t < s
  BY <1>1, <1>2, <1>3, <1>4, <1>g, <1>5
<1>10. ~ s < t
  BY <1>1, <1>2, <1>3, <1>4, <1>g, <1>6
<1> QED
  BY <1>1, <1>8, <1>9, <1>10

-------------------------------------------------------------------------------
(* The numbers of the words.                                                   *)

\* The word made n words before w, and how many words w was made after h.
Earlier(w, n) == IF w > n THEN w - n ELSE w - n + WordNumbers
Since(w, h) == IF w >= h THEN w - h ELSE w - h + WordNumbers

\* The number that comes next.
LEMMA AfterIs ==
  ASSUME NEW w \in Words
  PROVE  After(w) \in Words /\ After(w) = IF w = WordNumbers THEN 1 ELSE w + 1
  BY DEF After, Words

\* Counting back from the last word, up to a round.
LEMMA EarlierIs ==
  ASSUME NEW w \in Words, NEW n \in Nat, n < WordNumbers
  PROVE  /\ Earlier(w, n) \in Words /\ Earlier(w, n) # Silence
         /\ Earlier(w, 0) = w
         /\ n + 1 < WordNumbers => Earlier(After(w), n + 1) = Earlier(w, n)
         /\ n > 0 => After(Earlier(w, n)) = Earlier(w, n - 1)
         /\ Since(w, Earlier(w, n)) = n
<1>1. Earlier(w, n) \in Words
  BY DEF Earlier, Words
<1>2. After(Earlier(w, n)) = IF Earlier(w, n) = WordNumbers THEN 1 ELSE Earlier(w, n) + 1
  BY <1>1, AfterIs
<1> QED
  BY <1>1, <1>2, AfterIs DEF Earlier, Words, Silence, Since

\* Counting how far a word is back.
LEMMA SinceIs ==
  ASSUME NEW w \in Words, NEW h \in Words
  PROVE  /\ Since(w, h) \in Nat /\ Since(w, h) < WordNumbers
         /\ Earlier(w, Since(w, h)) = h
         /\ Since(w, h) + 1 < WordNumbers => Since(After(w), h) = Since(w, h) + 1
  BY AfterIs DEF Since, Earlier, Words

-------------------------------------------------------------------------------
(* What the words in the ring are.                                             *)

ToDma(b, i) == Gap(b, i, addr[channel], done)
ToUser(b, i) == Gap(b, i, userBuffer, userOff)

\* The DMA is done with the slot, and the handler has not silenced its buffer.
Passed(b, i) == \/ b = addr[channel] /\ i < done
                \/ b = curBuffer /\ Raised /\ irq = "none"

AllSilent == \A b \in Buffers : \A i \in Slots : buff[b][i] = Silence

\* How many words have been written and not played.
Lag == Since(made, heard)

\* On an output those words are the ones before the place of the sketch, and the DMA is
\* not among them; the other slots are silent, or played.
IPending ==
  IF userBuffer = NoBuffer THEN Lag = 0 /\ AllSilent
  ELSE /\ ToUser(addr[channel], done) >= Lag
       /\ \A b \in Buffers : \A i \in Slots :
            IF ToUser(b, i) <= Lag
            THEN ~ Passed(b, i) /\ buff[b][i] = Earlier(made, ToUser(b, i) - 1)
            ELSE Passed(b, i) \/ buff[b][i] = Silence

\* A buffer marked empty has no words but those of the sketch that writes to it.
IEmpty == \A b \in Buffers : \A i \in Slots :
  empty[b] /\ buff[b][i] # Silence => b = userBuffer /\ i < userOff

ISilenced == irq = "flag" => \A i \in Slots : buff[curBuffer][i] = Silence

IOutput == isOutput /\ ~strayed => heard \in Words /\ IPending /\ IEmpty /\ ISilenced

\* Once the sketch has strayed no word is followed any more.
IStrayed == strayed => heard = Silence /\ AllSilent

\* The distances are between one word and the whole ring.
LEMMA UserGap ==
  ASSUME TypeOK, userBuffer # NoBuffer, NEW b \in Buffers, NEW i \in Slots
  PROVE  ToUser(b, i) \in 1 .. RingWords
  BY GapIs DEF TypeOK, ToUser

\* The distance to the DMA is too.
LEMMA DmaGap ==
  ASSUME TypeOK, NEW b \in Buffers, NEW i \in Slots
  PROVE  ToDma(b, i) \in 1 .. RingWords
<1>1. addr[channel] \in Buffers /\ done \in 0 .. WordsPerBuffer
  BY DEF TypeOK, Slots
<1> QED
  BY <1>1, GapIs DEF ToDma

\* The DMA goes from slot to slot.
LEMMA DmaPlace ==
  ASSUME IInv, Transfer
  PROVE  /\ addr[channel] \in Buffers /\ done \in Slots
         /\ done + 1 < WordsPerBuffer => (addr[channel])' = addr[channel] /\ done' = done + 1
         /\ done + 1 = WordsPerBuffer => (addr[channel])' = Following(addr[channel]) /\ done' = 0
         /\ \A b \in Buffers, i \in Slots :
               Passed(b, i)' <=> Passed(b, i) \/ (b = addr[channel] /\ i = done)
<1>0. TypeOK /\ InStep /\ IRaised
  BY DEF IInv
<1>1. addr[channel] \in Buffers /\ done \in Slots /\ UNCHANGED <<addr, curBuffer, irq>>
  BY <1>0 DEF TypeOK, Transfer, TransferCount, ringVars
<1>2. CASE done + 1 = WordsPerBuffer
  <2>1. /\ ~ Raised /\ irq = "none" /\ channel' = 1 - channel /\ done' = 0 /\ Raised'
    BY <1>0, <1>2 DEF Transfer, TransferCount, Chain, Raised, TypeOK
  <2>2. addr[channel] = curBuffer /\ addr[1 - channel] = Following(curBuffer)
    BY <1>0, <2>1 DEF InStep
  <2>3. \A i \in Slots : i < done \/ i = done
    BY <1>1, <1>2 DEF Slots
  <2>4. \A i \in Slots : ~ i < 0
    BY DEF Slots
  <2> QED
    BY <1>1, <1>2, <2>1, <2>2, <2>3, <2>4 DEF Passed
<1>3. CASE done + 1 # WordsPerBuffer
  <2>1. UNCHANGED <<channel, raised>> /\ done' = done + 1
    BY <1>3 DEF Transfer, TransferCount
  <2>2. \A i \in Slots : i < done + 1 <=> i < done \/ i = done
    BY <1>1 DEF Slots
  <2> QED
    BY <1>1, <1>3, <2>1, <2>2 DEF Passed, Raised, Slots
<1> QED
  BY <1>2, <1>3 DEF Slots

\* On an output the DMA takes one slot after another.
LEMMA DmaNearsUser ==
  ASSUME IInv, Transfer, userBuffer # NoBuffer
  PROVE  LET g == ToUser(addr[channel], done)
         IN  /\ g \in 1 .. RingWords
             /\ ToUser(addr[channel], done)' = IF g = 1 THEN RingWords ELSE g - 1
<1>1. userBuffer \in Buffers /\ userOff \in 0 .. WordsPerBuffer /\ UNCHANGED <<userBuffer, userOff>>
  BY DEF IInv, TypeOK, Transfer, TransferCount, userVars
<1>2. addr[channel] \in Buffers /\ done \in Slots
  BY DmaPlace
<1>3. CASE done + 1 = WordsPerBuffer
  BY <1>1, <1>2, <1>3, DmaPlace, GapNext, GapIs DEF ToUser
<1>4. CASE done + 1 # WordsPerBuffer
  <2>1. done + 1 < WordsPerBuffer
    BY <1>2, <1>4 DEF Slots
  <2> QED
    BY <1>1, <1>2, <2>1, DmaPlace, GapNext, GapIs DEF ToUser
<1> QED
  BY <1>3, <1>4

\* On an input the slots fall behind the DMA.
LEMMA DmaLeaves ==
  ASSUME IInv, Transfer, NEW b \in Buffers, NEW i \in Slots
  PROVE  /\ ToDma(b, i)' = IF b = addr[channel] /\ i = done THEN 1 ELSE ToDma(b, i) + 1
         /\ ToDma(b, i) = RingWords <=> b = addr[channel] /\ i = done
<1>1. addr[channel] \in Buffers /\ done \in Slots
  BY DmaPlace
<1>2. CASE done + 1 = WordsPerBuffer
  BY <1>1, <1>2, DmaPlace, GapForward, GapTurn DEF ToDma
<1>3. CASE done + 1 # WordsPerBuffer
  <2>1. done + 1 < WordsPerBuffer
    BY <1>1, <1>3 DEF Slots
  <2> QED
    BY <1>1, <2>1, DmaPlace, GapForward DEF ToDma
<1> QED
  BY <1>2, <1>3

-------------------------------------------------------------------------------
(* An output.                                                                  *)

\* The DMA plays a word, or silence.
LEMMA PlaysNext ==
  ASSUME IInv, isOutput, ~ strayed, IOutput, Transfer
  PROVE  /\ heard' \in Words /\ heard' \in {heard, After(heard)}
         /\ IPending'
<1> DEFINE s == buff[addr[channel]][done]
           g == ToUser(addr[channel], done)
<1>0. /\ TypeOK /\ IPending /\ heard \in Words /\ made \in Words
      /\ addr[channel] \in Buffers /\ done \in Slots
  BY DmaPlace DEF IInv, IOutput, TypeOK
<1>1. /\ heard' = IF s = Silence THEN heard ELSE s
      /\ UNCHANGED <<buff, made, userBuffer, userOff, isOutput, strayed>>
  BY DEF Transfer, TransferCount, Hear, userVars
<1>2. /\ Lag \in Nat /\ Lag < WordNumbers /\ Earlier(made, Lag) = heard
      /\ RingWords \in Nat /\ RingWords < WordNumbers
  BY <1>0, SinceIs, RingWordsIs DEF Lag
<1>3. CASE userBuffer = NoBuffer
  <2>1. s = Silence
    BY <1>0, <1>3 DEF IPending, AllSilent
  <2> QED
    BY <1>0, <1>1, <1>3, <2>1 DEF IPending, AllSilent, Lag
<1>4. CASE userBuffer # NoBuffer
  <2>1. /\ g \in 1 .. RingWords /\ g >= Lag
        /\ ToUser(addr[channel], done)' = IF g = 1 THEN RingWords ELSE g - 1
    BY <1>0, <1>4, DmaNearsUser DEF IPending
  <2>2. ~ Passed(addr[channel], done)
    <3>1. ~ done < done
      BY <1>0 DEF Slots
    <3>2. addr[channel] = curBuffer => ~ (Raised /\ irq = "none")
      BY <1>0, Places, FollowingOther DEF IInv, TypeOK
    <3> QED
      BY <3>1, <3>2 DEF Passed
  <2>3. CASE s = Silence
    <3>1. g > Lag
      BY <1>0, <1>2, <1>4, <2>1, <2>3, EarlierIs DEF IPending
    <3>2. heard' = heard /\ Lag' = Lag
      BY <1>1, <2>3 DEF Lag
    <3>3. ToUser(addr[channel], done)' >= Lag'
      BY <1>2, <2>1, <3>1, <3>2
    <3>4. ASSUME NEW b \in Buffers, NEW i \in Slots
          PROVE  (IF ToUser(b, i) <= Lag
                  THEN ~ Passed(b, i) /\ buff[b][i] = Earlier(made, ToUser(b, i) - 1)
                  ELSE Passed(b, i) \/ buff[b][i] = Silence)'
      <4>1. ToUser(b, i)' = ToUser(b, i)
        BY <1>1 DEF ToUser
      <4>2. b = addr[channel] /\ i = done => ToUser(b, i) > Lag
        BY <3>1
      <4>3. Passed(b, i)' <=> Passed(b, i) \/ (b = addr[channel] /\ i = done)
        BY DmaPlace
      <4>4. IF ToUser(b, i) <= Lag
            THEN ~ Passed(b, i) /\ buff[b][i] = Earlier(made, ToUser(b, i) - 1)
            ELSE Passed(b, i) \/ buff[b][i] = Silence
        BY <1>0, <1>4 DEF IPending
      <4>5. ToUser(b, i) \in Nat
        BY <1>0, <1>4, UserGap
      <4> QED
        BY <1>1, <1>2, <3>2, <4>1, <4>2, <4>3, <4>4, <4>5
    <3> QED
      BY <1>0, <1>1, <1>4, <3>2, <3>3, <3>4 DEF IPending
  <2>4. CASE s # Silence
    <3>1. g = Lag /\ Lag > 0 /\ s = Earlier(made, Lag - 1)
      BY <1>0, <1>2, <1>4, <2>1, <2>2, <2>4 DEF IPending
    <3>2. heard' = Earlier(made, Lag - 1) /\ heard' = After(heard) /\ heard' \in Words /\ Lag' = Lag - 1
      <4>1. Lag - 1 \in Nat /\ Lag - 1 < WordNumbers
        BY <1>2, <3>1
      <4> QED
        BY <1>0, <1>1, <1>2, <2>4, <3>1, <4>1, EarlierIs DEF Lag
    <3>3. ToUser(addr[channel], done)' >= Lag'
      BY <1>2, <2>1, <3>1, <3>2
    <3>4. ASSUME NEW b \in Buffers, NEW i \in Slots
          PROVE  (IF ToUser(b, i) <= Lag
                  THEN ~ Passed(b, i) /\ buff[b][i] = Earlier(made, ToUser(b, i) - 1)
                  ELSE Passed(b, i) \/ buff[b][i] = Silence)'
      <4>1. ToUser(b, i)' = ToUser(b, i)
        BY <1>1 DEF ToUser
      <4>2. b = addr[channel] /\ i = done <=> ToUser(b, i) = Lag
        BY <1>0, <1>4, <3>1, GapInjective DEF ToUser, TypeOK
      <4>3. Passed(b, i)' <=> Passed(b, i) \/ (b = addr[channel] /\ i = done)
        BY DmaPlace
      <4>4. IF ToUser(b, i) <= Lag
            THEN ~ Passed(b, i) /\ buff[b][i] = Earlier(made, ToUser(b, i) - 1)
            ELSE Passed(b, i) \/ buff[b][i] = Silence
        BY <1>0, <1>4 DEF IPending
      <4>5. ToUser(b, i) \in Nat
        BY <1>0, <1>4, UserGap
      <4> QED
        BY <1>1, <1>2, <3>1, <3>2, <4>1, <4>2, <4>3, <4>4, <4>5
    <3> QED
      BY <1>0, <1>1, <1>4, <3>2, <3>3, <3>4 DEF IPending
  <2> QED
    BY <2>3, <2>4
<1> QED
  BY <1>3, <1>4

\* A step that leaves the words and the places, or silences what was played.
LEMMA PendingStays ==
  ASSUME IPending, UNCHANGED <<userVars, done, made, heard>>, (addr[channel])' = addr[channel],
         \A b \in Buffers, i \in Slots :
           \/ (Passed(b, i)' <=> Passed(b, i)) /\ buff'[b][i] = buff[b][i]
           \/ Passed(b, i) /\ ~ Passed(b, i)' /\ buff'[b][i] = Silence
           \/ buff[b][i] = Silence /\ buff'[b][i] = Silence /\ userBuffer = NoBuffer
  PROVE  IPending'
<1>1. Lag' = Lag /\ \A b \in Buffers, i \in Slots : ToUser(b, i)' = ToUser(b, i)
  BY DEF Lag, ToUser, userVars
<1>2. ToUser(addr[channel], done)' = ToUser(addr[channel], done)
  BY DEF ToUser, userVars
<1> QED
  BY <1>1, <1>2 DEF IPending, AllSilent, userVars

\* The sketch writes a word.
LEMMA WritesNext ==
  ASSUME IInv, isOutput, ~ strayed, IOutput, MoveWord, ~ Strays
  PROVE  (heard \in Words /\ IPending /\ IEmpty /\ ISilenced)'
<1>0. /\ TypeOK /\ IPending /\ IEmpty /\ ISilenced /\ heard \in Words /\ made \in Words
      /\ InStep /\ IRaised /\ IChecked
  BY DEF IInv, IOutput, TypeOK
<1>1. /\ userBuffer \in Buffers /\ userOff \in Slots /\ userBuffer # NoBuffer
      /\ empty[userBuffer]
  <2>1. userBuffer \in Buffers /\ empty[userBuffer] = isOutput /\ userOff # WordsPerBuffer
    BY <1>0 DEF IChecked, MoveWord, Sketch
  <2> QED
    BY <1>0, <2>1, BufferFacts DEF TypeOK, Slots
<1>2. /\ made' = After(made) /\ heard' = heard /\ userOff' = userOff + 1
      /\ buff' = [buff EXCEPT ![userBuffer][userOff] = made']
      /\ UNCHANGED <<userBuffer, empty, curBuffer, channel, done, addr, raised, irq>>
  BY DEF MoveWord, Make, Sketch, ringVars, dmaVars
<1>3. /\ Lag \in Nat /\ RingWords \in Nat /\ RingWords < WordNumbers
      /\ \A b \in Buffers, i \in Slots : ToUser(b, i) \in 1 .. RingWords
  BY <1>0, <1>1, SinceIs, RingWordsIs, UserGap DEF Lag
<1>4. buff[userBuffer][userOff] = Silence
  <2>1. ~ userOff < userOff
    BY <1>1 DEF Slots
  <2> QED
    BY <1>0, <1>1, <2>1 DEF IEmpty
<1>5. ~ Passed(userBuffer, userOff)
  BY DEF Strays, Passed
<1>6. ToUser(userBuffer, userOff) > Lag
  <2>1. \A n \in 1 .. RingWords : Earlier(made, n - 1) # Silence
    BY <1>0, <1>3, EarlierIs
  <2> QED
    BY <1>0, <1>1, <1>3, <1>4, <2>1 DEF IPending
<1>7. Lag + 1 <= RingWords /\ Lag' = Lag + 1
  <2>1. Lag + 1 <= RingWords
    BY <1>1, <1>3, <1>6
  <2> QED
    BY <1>0, <1>2, <1>3, <2>1, SinceIs DEF Lag
<1>8. ASSUME NEW b \in Buffers, NEW i \in Slots
      PROVE  ToUser(b, i)' = IF b = userBuffer /\ i = userOff THEN 1 ELSE ToUser(b, i) + 1
  BY <1>1, <1>2, GapForward DEF ToUser
<1>9. ToUser(addr[channel], done)' >= Lag'
  <2>1. addr[channel] \in Buffers /\ done \in Slots /\ addr[channel] # userBuffer
    BY <1>0 DEF TypeOK, Strays
  <2>2. ToUser(addr[channel], done)' = ToUser(addr[channel], done) + 1
    BY <1>2, <1>8, <2>1 DEF ToUser
  <2>3. ToUser(addr[channel], done) >= Lag
    BY <1>0, <1>1 DEF IPending
  <2> QED
    BY <1>3, <1>7, <2>1, <2>2, <2>3
<1>10. ASSUME NEW b \in Buffers, NEW i \in Slots
       PROVE  (IF ToUser(b, i) <= Lag
               THEN ~ Passed(b, i) /\ buff[b][i] = Earlier(made, ToUser(b, i) - 1)
               ELSE Passed(b, i) \/ buff[b][i] = Silence)'
  <2>1. Passed(b, i)' <=> Passed(b, i)
    BY <1>2 DEF Passed, Raised
  <2>2. CASE b = userBuffer /\ i = userOff
    <3>1. buff'[b][i] = made' /\ made' \in Words
      BY <1>0, <1>1, <1>2, <2>2, AfterIs DEF TypeOK
    <3>2. Earlier(made', 0) = made'
      BY <3>1, EarlierIs DEF Words
    <3> QED
      BY <1>2, <1>3, <1>5, <1>7, <1>8, <2>1, <2>2, <3>1, <3>2
  <2>3. CASE ~ (b = userBuffer /\ i = userOff)
    <3>1. buff'[b][i] = buff[b][i]
      BY <1>0, <1>1, <1>2, <2>3 DEF TypeOK
    <3>2. IF ToUser(b, i) <= Lag
          THEN ~ Passed(b, i) /\ buff[b][i] = Earlier(made, ToUser(b, i) - 1)
          ELSE Passed(b, i) \/ buff[b][i] = Silence
      BY <1>0, <1>1 DEF IPending
    <3>3. ToUser(b, i)' = ToUser(b, i) + 1 /\ ToUser(b, i) \in 1 .. RingWords
      BY <1>3, <1>8, <2>3
    <3>4. ToUser(b, i) <= Lag => Earlier(made', ToUser(b, i)) = Earlier(made, ToUser(b, i) - 1)
      <4>1. SUFFICES ASSUME ToUser(b, i) <= Lag
                     PROVE  Earlier(made', ToUser(b, i)) = Earlier(made, ToUser(b, i) - 1)
        OBVIOUS
      <4> DEFINE n == ToUser(b, i) - 1
      <4>2. n \in Nat /\ n < WordNumbers /\ n + 1 < WordNumbers /\ n + 1 = ToUser(b, i)
        BY <1>3, <3>3
      <4> HIDE DEF n
      <4>3. Earlier(After(made), n + 1) = Earlier(made, n)
        BY <1>0, <4>2, EarlierIs
      <4> QED
        BY <1>2, <4>2, <4>3 DEF n
    <3>5. ToUser(b, i)' - 1 = ToUser(b, i)
      BY <3>3
    <3> QED
      BY <1>2, <1>3, <1>7, <2>1, <3>1, <3>2, <3>3, <3>4, <3>5
  <2> QED
    BY <2>2, <2>3
<1>11. IPending'
  BY <1>1, <1>2, <1>9, <1>10 DEF IPending
<1>12. IEmpty'
  <2> SUFFICES ASSUME NEW b \in Buffers, NEW i \in Slots, empty[b], buff'[b][i] # Silence
               PROVE  b = userBuffer /\ i < userOff + 1
    BY <1>2 DEF IEmpty
  <2>1. CASE b = userBuffer /\ i = userOff
    BY <2>1 DEF Slots
  <2>2. CASE ~ (b = userBuffer /\ i = userOff)
    <3>1. buff'[b][i] = buff[b][i]
      BY <1>0, <1>1, <1>2, <2>2 DEF TypeOK
    <3>2. b = userBuffer /\ i < userOff
      BY <1>0, <3>1 DEF IEmpty
    <3> QED
      BY <1>1, <3>2 DEF Slots
  <2> QED
    BY <2>1, <2>2
<1>13. ISilenced'
  BY <1>0, <1>2 DEF ISilenced, Strays, TypeOK
<1> QED
  BY <1>0, <1>2, <1>11, <1>12, <1>13

\* Each step keeps the words of an output.
LEMMA OutputStep ==
  ASSUME IInv, IOutput, [Next]_vars
  PROVE  IOutput'
<1> SUFFICES ASSUME isOutput', ~ strayed'
             PROVE  (heard \in Words /\ IPending /\ IEmpty /\ ISilenced)'
  BY DEF IOutput
<1>0. /\ TypeOK /\ InStep /\ IRaised /\ IChecked /\ isOutput /\ ~ strayed
      /\ heard \in Words /\ IPending /\ IEmpty /\ ISilenced
  <2>1. isOutput' = isOutput
    BY DEF Next, Handle, Proceed, Transfer, TransferCount, SilenceBuffer, FlagBuffer, PointChannel, StepCurrent,
       StepNext, Handler, Call, CallFlush, GiveUp, CheckEmpty, CheckCurrent, MoveWord, PassBuffer,
       Flushed, Sketch, vars
  <2>2. strayed => strayed'
    BY DEF Next, Handle, Proceed, Transfer, TransferCount, SilenceBuffer, FlagBuffer, PointChannel, StepCurrent,
       StepNext, Handler, Call, CallFlush, GiveUp, CheckEmpty, CheckCurrent, MoveWord, PassBuffer,
       Flushed, Sketch, vars, wordVars, Stray
  <2> QED
    BY <2>1, <2>2 DEF IInv, IOutput
<1>1. ASSUME Transfer PROVE (heard \in Words /\ IPending /\ IEmpty /\ ISilenced)'
  <2>1. UNCHANGED <<buff, empty, userBuffer, userOff, curBuffer, irq>>
    BY <1>0, <1>1 DEF Transfer, TransferCount, Hear, userVars, ringVars
  <2>2. heard' \in Words /\ IPending'
    BY <1>0, <1>1, PlaysNext
  <2> QED
    BY <1>0, <2>1, <2>2 DEF IEmpty, ISilenced
<1>2. ASSUME SilenceBuffer PROVE (heard \in Words /\ IPending /\ IEmpty /\ ISilenced)'
  <2>1. /\ buff' = [buff EXCEPT ![curBuffer] = [i \in Slots |-> Silence]] /\ irq = "none" /\ irq' = "flag"
        /\ UNCHANGED <<empty, userVars, curBuffer, addr, channel, done, raised, made, heard>> /\ Raised
    BY <1>2 DEF SilenceBuffer, Handler, Silenced, ringVars, dmaVars, wordVars
  <2>2. addr[channel] # curBuffer /\ (addr[channel])' = addr[channel]
    BY <1>0, <2>1, Places, FollowingOther DEF TypeOK
  <2>3. ASSUME NEW b \in Buffers, NEW i \in Slots
        PROVE  IF b = curBuffer THEN Passed(b, i) /\ ~ Passed(b, i)' /\ buff'[b][i] = Silence
               ELSE (Passed(b, i)' <=> Passed(b, i)) /\ buff'[b][i] = buff[b][i]
    BY <1>0, <2>1, <2>2 DEF Passed, Raised, TypeOK
  <2>4. IPending'
    BY <1>0, <2>1, <2>2, <2>3, PendingStays
  <2>5. IEmpty' /\ ISilenced'
    BY <1>0, <2>1, <2>3 DEF IEmpty, ISilenced, userVars, TypeOK
  <2> QED
    BY <1>0, <2>1, <2>4, <2>5
<1>3. ASSUME FlagBuffer PROVE (heard \in Words /\ IPending /\ IEmpty /\ ISilenced)'
  <2>1. /\ irq = "flag" /\ irq' = "point" /\ empty' = [empty EXCEPT ![curBuffer] = TRUE]
        /\ UNCHANGED <<buff, userVars, curBuffer, addr, channel, done, raised, made, heard>>
    BY <1>0, <1>3 DEF FlagBuffer, Handler, Marks, ringVars, dmaVars, wordVars
  <2>2. IPending'
    BY <1>0, <2>1, PendingStays DEF Passed
  <2>3. IEmpty'
    <3> SUFFICES ASSUME NEW b \in Buffers, NEW i \in Slots, empty'[b], buff[b][i] # Silence
                 PROVE  b = userBuffer /\ i < userOff
      BY <2>1 DEF IEmpty, userVars
    <3>1. b # curBuffer
      BY <1>0, <2>1 DEF ISilenced
    <3> QED
      BY <1>0, <2>1, <3>1 DEF IEmpty, TypeOK
  <2> QED
    BY <1>0, <2>1, <2>2, <2>3 DEF ISilenced
<1>4. ASSUME PointChannel PROVE (heard \in Words /\ IPending /\ IEmpty /\ ISilenced)'
  <2>1. /\ irq = "point" /\ irq' = "current"
        /\ UNCHANGED <<buff, empty, userVars, curBuffer, channel, done, raised, made, heard>>
    BY <1>4 DEF PointChannel, Handler, wordVars
  <2>2. (addr[channel])' = addr[channel]
    BY <1>0, <1>4, <2>1 DEF PointChannel, IRaised, TypeOK
  <2>3. IPending'
    BY <1>0, <2>1, <2>2, PendingStays DEF Passed
  <2> QED
    BY <1>0, <2>1, <2>3 DEF IEmpty, ISilenced, userVars
<1>5. ASSUME StepCurrent PROVE (heard \in Words /\ IPending /\ IEmpty /\ ISilenced)'
  <2>1. /\ irq = "current" /\ irq' = "next"
        /\ UNCHANGED <<buff, empty, userVars, addr, channel, done, raised, made, heard>>
    BY <1>5 DEF StepCurrent, Handler, dmaVars, wordVars
  <2>2. IPending'
    BY <1>0, <2>1, PendingStays DEF Passed
  <2> QED
    BY <1>0, <2>1, <2>2 DEF IEmpty, ISilenced, userVars
<1>6. ASSUME StepNext PROVE (heard \in Words /\ IPending /\ IEmpty /\ ISilenced)'
  <2>1. /\ irq = "next" /\ irq' = "none" /\ ~ Raised'
        /\ UNCHANGED <<buff, empty, userVars, curBuffer, addr, channel, done, made, heard>>
    BY <1>6 DEF StepNext, Handler, wordVars, Raised
  <2>2. IPending'
    BY <1>0, <2>1, PendingStays DEF Passed
  <2> QED
    BY <1>0, <2>1, <2>2 DEF IEmpty, ISilenced, userVars
<1>7. ASSUME Call PROVE (heard \in Words /\ IPending /\ IEmpty /\ ISilenced)'
  <2>1. UNCHANGED <<buff, empty, userOff, curBuffer, channel, done, addr, raised, irq, made, heard>>
    BY <1>7 DEF Call, Sketch, ringVars, dmaVars, wordVars
  <2>2. CASE userBuffer = NoBuffer
    <3>1. userBuffer' \in Buffers /\ userBuffer' # NoBuffer /\ Lag = 0 /\ AllSilent
      BY <1>0, <1>7, <2>2, FirstIsBuffer, BufferFacts DEF Call, IPending
    <3>2. TypeOK'
      BY TypeStep
    <3>3. ASSUME NEW b \in Buffers, NEW i \in Slots PROVE ToUser(b, i)' \in 1 .. RingWords
      BY <3>1, <3>2, GapIs DEF TypeOK, ToUser
    <3>4. addr[channel] \in Buffers /\ done \in Slots /\ RingWords \in Nat
      BY <1>0, RingWordsIs DEF TypeOK
    <3>5. ToUser(addr[channel], done)' \in 1 .. RingWords
      BY <2>1, <3>3, <3>4 DEF ToUser
    <3>6. Lag' = 0
      BY <2>1, <3>1 DEF Lag
    <3>7. IPending'
      BY <2>1, <3>1, <3>3, <3>4, <3>5, <3>6 DEF IPending, AllSilent
    <3> QED
      BY <1>0, <2>1, <3>1, <3>7 DEF IEmpty, ISilenced, AllSilent, TypeOK
  <2>3. CASE userBuffer # NoBuffer
    <3>1. UNCHANGED userBuffer
      BY <1>7, <2>3 DEF Call
    <3>2. IPending'
      BY <1>0, <2>1, <3>1, PendingStays DEF Passed, Raised, userVars
    <3> QED
      BY <1>0, <2>1, <3>1, <3>2 DEF IEmpty, ISilenced
  <2> QED
    BY <2>2, <2>3
<1>8. ASSUME CheckEmpty \/ CheckCurrent \/ GiveUp \/ CallFlush \/ Flushed \/ UNCHANGED vars
      PROVE  (heard \in Words /\ IPending /\ IEmpty /\ ISilenced)'
  <2>1. UNCHANGED <<buff, empty, userVars, curBuffer, channel, done, addr, raised, irq, made, heard>>
    BY <1>8 DEF CheckEmpty, CheckCurrent, GiveUp, CallFlush, Flushed, Sketch, ringVars, dmaVars,
       wordVars, vars
  <2>2. IPending'
    BY <1>0, <2>1, PendingStays DEF Passed, Raised
  <2> QED
    BY <1>0, <2>1, <2>2 DEF IEmpty, ISilenced, userVars
<1>9. ASSUME MoveWord PROVE (heard \in Words /\ IPending /\ IEmpty /\ ISilenced)'
  <2>1. ~ Strays
    BY <1>9 DEF MoveWord, Stray
  <2> QED
    BY <1>0, <1>9, <2>1, WritesNext
<1>10. ASSUME PassBuffer PROVE (heard \in Words /\ IPending /\ IEmpty /\ ISilenced)'
  <2>1. /\ userOff = WordsPerBuffer /\ userBuffer \in Buffers
        /\ userBuffer' = Following(userBuffer) /\ userOff' = 0
        /\ empty' = [empty EXCEPT ![userBuffer] = FALSE]
        /\ UNCHANGED <<buff, curBuffer, channel, done, addr, raised, irq, made, heard>>
    BY <1>0, <1>10 DEF PassBuffer, Sketch, IChecked, ringVars, dmaVars, wordVars
  <2>2. /\ \A b \in Buffers, i \in Slots : ToUser(b, i)' = ToUser(b, i)
        /\ ToUser(addr[channel], done)' = ToUser(addr[channel], done)
    BY <1>0, <2>1, GapTurn DEF ToUser, TypeOK
  <2>3. Lag' = Lag /\ \A b \in Buffers, i \in Slots : Passed(b, i)' <=> Passed(b, i)
    BY <2>1 DEF Lag, Passed, Raised
  <2>4. IPending'
    BY <1>0, <2>1, <2>2, <2>3, BufferFacts, FollowingOther DEF IPending
  <2>5. IEmpty'
    <3> SUFFICES ASSUME NEW b \in Buffers, NEW i \in Slots, empty'[b], buff[b][i] # Silence
                 PROVE  FALSE
      BY <2>1 DEF IEmpty
    <3>1. b # userBuffer /\ empty[b]
      BY <1>0, <2>1 DEF TypeOK
    <3> QED
      BY <1>0, <3>1 DEF IEmpty
  <2> QED
    BY <1>0, <2>1, <2>4, <2>5 DEF ISilenced
<1> QED
  BY <1>1, <1>2, <1>3, <1>4, <1>5, <1>6, <1>7, <1>8, <1>9, <1>10 DEF Next, Handle, Proceed

\* After a stray there are no words.
LEMMA StrayedStep == IInv /\ IStrayed /\ [Next]_vars => IStrayed'
<1> SUFFICES ASSUME IInv, IStrayed, [Next]_vars, strayed' PROVE (heard = Silence /\ AllSilent)'
  BY DEF IStrayed
<1>0. TypeOK
  BY DEF IInv
<1>1. CASE MoveWord /\ Strays
  BY <1>1 DEF MoveWord, Stray, AllSilent
<1>2. CASE ~ (MoveWord /\ Strays)
  <2>1. strayed /\ heard = Silence /\ AllSilent
    BY <1>2 DEF IStrayed, Next, Handle, Proceed, Transfer, TransferCount, SilenceBuffer, FlagBuffer, PointChannel,
       StepCurrent, StepNext, Handler, Call, CallFlush, GiveUp, CheckEmpty, CheckCurrent, MoveWord,
       PassBuffer, Flushed, Sketch, vars, wordVars
  <2>2. ASSUME NEW b \in Buffers, NEW i \in Slots, Make(b, i) \/ Hear(b, i)
        PROVE  (heard = Silence /\ AllSilent)'
    <3>1. CASE Make(b, i)
      BY <1>0, <2>1, <3>1 DEF Make, AllSilent, TypeOK
    <3>2. CASE Hear(b, i)
      BY <2>1, <3>2 DEF Hear, AllSilent
    <3> QED
      BY <2>2, <3>1, <3>2
  <2>3. CASE Transfer
    BY <2>2, <2>3, DmaPlace DEF Transfer, TransferCount
  <2>4. CASE MoveWord
    <3>1. userBuffer \in Buffers /\ userOff \in Slots
      BY <2>4 DEF IInv, IChecked, MoveWord, Sketch, TypeOK, Slots
    <3> QED
      BY <1>2, <2>2, <2>4, <3>1 DEF MoveWord
  <2>5. CASE SilenceBuffer
    BY <1>0, <2>1, <2>5 DEF SilenceBuffer, Handler, wordVars, AllSilent, TypeOK
  <2>6. CASE FlagBuffer \/ PointChannel \/ StepCurrent \/ StepNext \/ Call \/ CallFlush \/ GiveUp
             \/ CheckEmpty \/ CheckCurrent \/ PassBuffer \/ Flushed \/ UNCHANGED vars
    <3>1. UNCHANGED <<heard, buff>>
      BY <2>6 DEF FlagBuffer, PointChannel, StepCurrent, StepNext, Handler, Call, CallFlush, GiveUp,
         CheckEmpty, CheckCurrent, PassBuffer, Flushed, Sketch, vars, wordVars
    <3> QED
      BY <2>1, <3>1 DEF AllSilent
  <2> QED
    BY <2>3, <2>4, <2>5, <2>6 DEF Next, Handle, Proceed
<1> QED
  BY <1>1, <1>2

-------------------------------------------------------------------------------
(* An input.                                                                   *)

Preceding(b) == IF b = 0 THEN BufferCount - 1 ELSE b - 1

\* The slot the sketch has read last, and the buffer it reads next.
LastBuffer == IF userOff = 0 THEN Preceding(userBuffer) ELSE userBuffer
LastSlot == IF userOff = 0 THEN WordsPerBuffer - 1 ELSE userOff - 1
Upcoming == IF pc = "pass" THEN Following(userBuffer) ELSE userBuffer

\* The DMA has left in each slot the word of its last time round.
IRecorded == \A b \in Buffers : \A i \in Slots :
  buff[b][i] \in {Silence, Earlier(made, ToDma(b, i) - 1)}

IFilled == \A b \in Buffers : \A i \in Slots :
  ~ empty[b] \/ Passed(b, i) => buff[b][i] # Silence

\* A buffer in which the sketch has begun to read is not empty.
IFresh == /\ userBuffer = NoBuffer => userOff = 0
          /\ userBuffer \in Buffers /\ empty[userBuffer] => userOff = 0

\* A sketch that has read waits for nothing but the current buffer.
IReady == heard # Silence =>
  userBuffer \in Buffers /\ (userBuffer # curBuffer => ~ empty[userBuffer])

\* From the sketch on to the handler the buffers have not been read.
IFull == userBuffer \in Buffers => \A b \in Buffers :
  Turns(userBuffer, b) \in 1 .. Turns(userBuffer, curBuffer) - 1 => ~ empty[b]

\* The DMA has come round to the buffer that the sketch is about to pass on.
ILapped == pc = "pass" /\ userBuffer = curBuffer => \A b \in Buffers : b = curBuffer \/ ~ empty[b]

\* The sketch has taken what was recorded meanwhile for what it has read.
ISlip == irq \in {"point", "current"} /\ empty[curBuffer] =>
  userBuffer = Following(curBuffer) /\ pc # "pass"

\* The last word the sketch has read is still in the ring, or lost its place to one
\* that came when the buffers from there on had been noted.
IRead == heard # Silence /\ ~ noted[Upcoming] =>
  heard = Earlier(made, ToDma(LastBuffer, LastSlot) - 1)

\* The handler of an input has nothing to silence.
INeverSilences == irq # "flag"

IFlags == INeverSilences /\ IFresh /\ IReady /\ IFull /\ ILapped /\ ISlip
IInput == ~ isOutput /\ ~ strayed => IRecorded /\ IFilled /\ IFlags /\ IRead

\* Going back by one buffer, as read() and write() compute it.
LEMMA PrecedingIs ==
  ASSUME NEW b \in Buffers
  PROVE  /\ Preceding(b) \in Buffers /\ Following(Preceding(b)) = b /\ Preceding(Following(b)) = b
         /\ (b - 1 + BufferCount) % BufferCount = Preceding(b)
<1>1. Preceding(b) \in Buffers
  BY DEF Preceding, Buffers
<1>2. (b - 1 + BufferCount) % BufferCount = Preceding(b)
  <2>1. CASE b = 0
    BY <2>1 DEF Preceding
  <2>2. CASE b # 0
    <3>1. b - 1 \in 0 .. BufferCount - 1 /\ b - 1 + BufferCount = (b - 1) + 1 * BufferCount
      BY <2>2 DEF Buffers
    <3>2. (b - 1 + BufferCount) % BufferCount = b - 1
      BY <3>1
    <3> QED
      BY <2>2, <3>2 DEF Preceding
  <2> QED
    BY <2>1, <2>2
<1>3. Following(b) \in Buffers
  BY FollowingOther
<1> QED
  BY <1>1, <1>2, <1>3, FollowingIs DEF Preceding, Buffers

\* Two buffers are at different distances, seen from a third.
LEMMA TurnsFrom ==
  ASSUME NEW d \in Buffers, NEW b \in Buffers, NEW c \in Buffers, Turns(d, b) = Turns(d, c)
  PROVE  b = c
  BY DEF Turns, Buffers

\* What the sketch has read last is a place in the ring.
LEMMA LastIs ==
  ASSUME TypeOK, userBuffer \in Buffers
  PROVE  LastBuffer \in Buffers /\ LastSlot \in Slots
  BY PrecedingIs DEF LastBuffer, LastSlot, Slots, TypeOK

\* The DMA does not record over what the sketch has read last, unless noted.
LEMMA KeepsRead ==
  ASSUME IInv, ~ isOutput, IFlags, Transfer, heard # Silence, ~ noted[Upcoming]
  PROVE  ~ (LastBuffer = addr[channel] /\ LastSlot = done)
<1> SUFFICES ASSUME LastBuffer = addr[channel], LastSlot = done PROVE FALSE
  OBVIOUS
<1>0. /\ TypeOK /\ InStep /\ IRaised /\ IGiven /\ IChecked
      /\ userBuffer \in Buffers /\ curBuffer \in Buffers
  BY DEF IInv, IFlags, IReady, TypeOK
<1>1. ASSUME LastSlot = WordsPerBuffer - 1
      PROVE  /\ addr[channel] = curBuffer /\ addr[1 - channel] = Following(curBuffer)
             /\ empty[Following(curBuffer)] \/ noted[Following(curBuffer)]
  <2>1. done + 1 = WordsPerBuffer /\ ~ Raised
    BY <1>1 DEF Transfer, TransferCount, Chain, Raised
  <2>2. addr[channel] = curBuffer /\ addr[1 - channel] = Following(curBuffer)
    BY <1>0, <2>1 DEF InStep
  <2>3. Following(curBuffer) \in Buffers
    BY <1>0, FollowingOther
  <2> QED
    BY <1>0, <2>1, <2>2, <2>3 DEF IGiven, Excused, Pointed, TypeOK
<1>2. CASE pc = "pass"
  <2>1. userOff = WordsPerBuffer /\ LastBuffer = userBuffer /\ LastSlot = WordsPerBuffer - 1
    BY <1>0, <1>2 DEF IChecked, LastBuffer, LastSlot
  <2>2. userBuffer = curBuffer /\ Upcoming = Following(curBuffer)
    BY <1>1, <1>2, <2>1 DEF Upcoming
  <2> QED
    BY <1>0, <1>1, <1>2, <2>1, <2>2, FollowingOther DEF IFlags, ILapped
<1>3. CASE pc # "pass" /\ userOff = 0
  <2>1. LastBuffer = Preceding(userBuffer) /\ LastSlot = WordsPerBuffer - 1 /\ Upcoming = userBuffer
    BY <1>3 DEF LastBuffer, LastSlot, Upcoming
  <2>2. userBuffer = Following(curBuffer)
    BY <1>0, <1>1, <2>1, PrecedingIs
  <2> QED
    BY <1>0, <1>1, <2>1, <2>2, FollowingOther DEF IFlags, IReady
<1>4. CASE pc # "pass" /\ userOff # 0
  <2>1. addr[channel] = userBuffer /\ Upcoming = userBuffer
    BY <1>4 DEF LastBuffer, Upcoming
  <2> QED
    BY <1>0, <1>4, <2>1 DEF IGiven, Excused, IFlags, IFresh, TypeOK
<1> QED
  BY <1>2, <1>3, <1>4

\* The device makes a word.
LEMMA RecordsNext ==
  ASSUME IInv, ~ isOutput, ~ strayed, IInput, Transfer
  PROVE  (IRecorded /\ IFilled /\ IFlags /\ IRead)'
<1>0. /\ TypeOK /\ IRecorded /\ IFilled /\ IFlags /\ IRead /\ made \in Words
      /\ addr[channel] \in Buffers /\ done \in Slots /\ RingWords \in Nat /\ RingWords < WordNumbers
  BY DmaPlace, RingWordsIs DEF IInv, IInput, TypeOK
<1>1. /\ made' = After(made) /\ buff' = [buff EXCEPT ![addr[channel]][done] = made']
      /\ UNCHANGED <<heard, empty, userBuffer, userOff, curBuffer, nextBuffer, noted, irq, pc>>
  BY DEF Transfer, TransferCount, Make, userVars, ringVars
<1>2. made' \in Words /\ Earlier(made', 0) = made' /\ made' # Silence
  BY <1>0, <1>1, AfterIs, EarlierIs DEF Words, Silence
<1>3. ASSUME NEW b \in Buffers, NEW i \in Slots, ~ (b = addr[channel] /\ i = done)
      PROVE  /\ buff'[b][i] = buff[b][i]
             /\ Earlier(made', ToDma(b, i)' - 1) = Earlier(made, ToDma(b, i) - 1)
  <2> DEFINE n == ToDma(b, i) - 1
  <2>1. ToDma(b, i)' = ToDma(b, i) + 1 /\ ToDma(b, i) \in 1 .. RingWords
    BY <1>0, <1>3, DmaLeaves, DmaGap
  <2>2. n \in Nat /\ n + 1 < WordNumbers /\ n < WordNumbers /\ ToDma(b, i)' - 1 = n + 1
    BY <1>0, <2>1
  <2> HIDE DEF n
  <2>3. Earlier(After(made), n + 1) = Earlier(made, n)
    BY <1>0, <2>2, EarlierIs
  <2> QED
    BY <1>0, <1>1, <1>3, <2>2, <2>3 DEF n, TypeOK
<1>4. ASSUME NEW b \in Buffers, NEW i \in Slots, b = addr[channel], i = done
      PROVE  buff'[b][i] = made' /\ ToDma(b, i)' = 1 /\ Earlier(made', ToDma(b, i)' - 1) = made'
  <2>1. ToDma(b, i)' = 1
    BY <1>4, DmaLeaves
  <2>2. Earlier(made', ToDma(b, i)' - 1) = made'
    BY <1>2, <2>1
  <2> QED
    BY <1>0, <1>1, <1>4, <2>1, <2>2 DEF TypeOK
<1>5. IRecorded'
  <2> SUFFICES ASSUME NEW b \in Buffers, NEW i \in Slots
               PROVE  buff'[b][i] \in {Silence, Earlier(made', ToDma(b, i)' - 1)}
    BY DEF IRecorded
  <2>1. CASE b = addr[channel] /\ i = done
    BY <1>4, <2>1
  <2>2. CASE ~ (b = addr[channel] /\ i = done)
    BY <1>0, <1>3, <2>2 DEF IRecorded
  <2> QED
    BY <2>1, <2>2
<1>6. IFilled'
  <2> SUFFICES ASSUME NEW b \in Buffers, NEW i \in Slots, ~ empty[b] \/ Passed(b, i)'
               PROVE  buff'[b][i] # Silence
    BY <1>1 DEF IFilled
  <2>1. CASE b = addr[channel] /\ i = done
    BY <1>2, <1>4, <2>1
  <2>2. CASE ~ (b = addr[channel] /\ i = done)
    <3>1. Passed(b, i)' <=> Passed(b, i)
      BY <2>2, DmaPlace
    <3> QED
      BY <1>0, <1>3, <2>2, <3>1 DEF IFilled
  <2> QED
    BY <2>1, <2>2
<1>7. IFlags'
  BY <1>0, <1>1 DEF IFlags, INeverSilences, IFresh, IReady, IFull, ILapped, ISlip
<1>8. IRead'
  <2> SUFFICES ASSUME heard # Silence, ~ noted[Upcoming]
               PROVE  heard = Earlier(made', ToDma(LastBuffer, LastSlot)' - 1)
    BY <1>1 DEF IRead, Upcoming
  <2>1. heard = Earlier(made, ToDma(LastBuffer, LastSlot) - 1)
    BY <1>0 DEF IRead
  <2>2. LastBuffer \in Buffers /\ LastSlot \in Slots /\ ~ (LastBuffer = addr[channel] /\ LastSlot = done)
    BY <1>0, KeepsRead, LastIs DEF IFlags, IReady
  <2>3. LastBuffer' = LastBuffer /\ LastSlot' = LastSlot
    BY <1>1 DEF LastBuffer, LastSlot
  <2> QED
    BY <1>3, <2>1, <2>2, <2>3 DEF ToDma
<1> QED
  BY <1>5, <1>6, <1>7, <1>8

\* A step that leaves the words and their places.
LEMMA WordsStay ==
  ASSUME IRecorded, IFilled, IRead, UNCHANGED <<buff, made, heard, done>>,
         (addr[channel])' = addr[channel],
         LastBuffer' = LastBuffer, LastSlot' = LastSlot,
         heard # Silence /\ ~ noted[Upcoming]' => ~ noted[Upcoming],
         \A b \in Buffers, i \in Slots :
           ~ empty'[b] \/ Passed(b, i)' => ~ empty[b] \/ Passed(b, i)
  PROVE  (IRecorded /\ IFilled /\ IRead)'
<1>1. \A b \in Buffers, i \in Slots : ToDma(b, i)' = ToDma(b, i)
  BY DEF ToDma
<1>2. ToDma(LastBuffer, LastSlot)' = ToDma(LastBuffer, LastSlot)
  BY DEF ToDma
<1> QED
  BY <1>1, <1>2 DEF IRecorded, IFilled, IRead

\* The handler gives the buffer to the sketch.
LEMMA InputFlags ==
  ASSUME IInv, IInput, ~ isOutput, ~ strayed, FlagBuffer
  PROVE  (IRecorded /\ IFilled /\ IFlags /\ IRead)'
<1>0. TypeOK /\ IRecorded /\ IFilled /\ IFlags /\ IRead
  BY DEF IInv, IInput
<1>1. /\ irq = "none" /\ irq' = "point" /\ Raised
      /\ empty' = [empty EXCEPT ![curBuffer] = FALSE]
      /\ UNCHANGED <<buff, userVars, curBuffer, noted, addr, channel, done, pc, made, heard>>
  BY <1>0 DEF TypeOK, FlagBuffer, Handler, Marks, IFlags, INeverSilences, ringVars, dmaVars, wordVars
<1>2. ASSUME NEW b \in Buffers, NEW i \in Slots, ~ empty'[b] \/ Passed(b, i)'
      PROVE  ~ empty[b] \/ Passed(b, i)
  BY <1>0, <1>1, <1>2 DEF Passed, TypeOK
<1>3. UNCHANGED <<LastBuffer, LastSlot, Upcoming>>
  BY <1>1 DEF LastBuffer, LastSlot, Upcoming, userVars
<1>4. (IRecorded /\ IFilled /\ IRead)'
  BY <1>0, <1>1, <1>2, <1>3, WordsStay
<1>5. \A b \in Buffers : ~ empty[b] => ~ empty'[b]
  BY <1>0, <1>1 DEF TypeOK
<1>6. ~ empty'[curBuffer]
  BY <1>0, <1>1 DEF TypeOK
<1>7. IFlags'
  BY <1>0, <1>1, <1>5, <1>6 DEF IFlags, INeverSilences, IFresh, IReady, IFull, ILapped, ISlip, userVars
<1> QED
  BY <1>4, <1>7

\* The handler gives the DMA a buffer, and notes that nobody has read it.
LEMMA InputPoints ==
  ASSUME IInv, IInput, ~ isOutput, ~ strayed, PointChannel
  PROVE  (IRecorded /\ IFilled /\ IFlags /\ IRead)'
<1>0. /\ TypeOK /\ InStep /\ IRaised /\ IChecked /\ IRecorded /\ IFilled /\ IFlags /\ IRead
      /\ curBuffer \in Buffers /\ nextBuffer \in Buffers
  BY DEF IInv, IInput, TypeOK
<1>1. /\ irq = "point" /\ irq' = "current"
      /\ noted' = [noted EXCEPT ![nextBuffer] = ~ empty[nextBuffer]]
      /\ UNCHANGED <<buff, empty, userVars, curBuffer, nextBuffer, channel, done, pc, made, heard>>
  BY <1>0 DEF PointChannel, Late, Handler, wordVars, TypeOK
<1>2. (addr[channel])' = addr[channel]
  BY <1>0, <1>1 DEF PointChannel, IRaised, TypeOK
<1>3. nextBuffer = Following(Following(curBuffer))
  BY <1>0, <1>1 DEF InStep
<1>4. UNCHANGED <<LastBuffer, LastSlot, Upcoming>>
  BY <1>1 DEF LastBuffer, LastSlot, Upcoming, userVars
<1>5. ASSUME heard # Silence, ~ noted[Upcoming]' PROVE ~ noted[Upcoming]
  <2> SUFFICES ASSUME Upcoming = nextBuffer, empty[nextBuffer] PROVE FALSE
    BY <1>0, <1>1, <1>4, <1>5 DEF TypeOK
  <2>1. userBuffer \in Buffers
    BY <1>0, <1>5 DEF IFlags, IReady
  <2>2. CASE pc # "pass"
    <3>1. userBuffer = nextBuffer /\ userBuffer # curBuffer
      BY <1>0, <1>3, <2>2, FollowingOther DEF Upcoming
    <3> QED
      BY <1>0, <1>5, <3>1 DEF IFlags, IReady
  <2>3. CASE pc = "pass"
    <3>1. Following(userBuffer) = nextBuffer /\ userBuffer = Following(curBuffer)
      BY <1>0, <1>3, <2>1, <2>3, FollowingOther, PrecedingIs DEF Upcoming
    <3>2. Turns(userBuffer, curBuffer) = BufferCount - 1 /\ Turns(userBuffer, nextBuffer) = 1
      <4>1. Turns(Following(curBuffer), curBuffer) = BufferCount - 1
        BY <1>0, TurnsIs
      <4>2. Turns(userBuffer, Following(userBuffer)) = 1
        <5>1. Turns(userBuffer, userBuffer) = 0
          BY <2>1, TurnsIs
        <5> QED
          BY <2>1, <5>1, TurnsIs
      <4> QED
        BY <3>1, <4>1, <4>2
    <3> QED
      BY <1>0, <2>1, <3>2 DEF IFlags, IFull
  <2> QED
    BY <2>2, <2>3
<1>6. \A b \in Buffers, i \in Slots : Passed(b, i)' <=> Passed(b, i)
  BY <1>1, <1>2 DEF Passed
<1>7. (IRecorded /\ IFilled /\ IRead)'
  BY <1>0, <1>1, <1>2, <1>4, <1>5, <1>6, WordsStay
<1>8. IFlags'
  BY <1>0, <1>1 DEF IFlags, INeverSilences, IFresh, IReady, IFull, ILapped, ISlip, userVars
<1> QED
  BY <1>7, <1>8

\* The handler goes on to the buffer that is being recorded.
LEMMA InputSteps ==
  ASSUME IInv, IInput, ~ isOutput, ~ strayed, StepCurrent
  PROVE  (IRecorded /\ IFilled /\ IFlags /\ IRead)'
<1>0. /\ TypeOK /\ IRecorded /\ IFilled /\ IFlags /\ IRead
      /\ curBuffer \in Buffers /\ Following(curBuffer) \in Buffers
      /\ curBuffer # Following(curBuffer)
  BY FollowingOther DEF IInv, IInput, TypeOK
<1>1. /\ irq = "current" /\ irq' = "next" /\ curBuffer' = Following(curBuffer)
      /\ UNCHANGED <<buff, empty, userVars, noted, addr, channel, done, pc, made, heard>>
  BY DEF StepCurrent, Handler, dmaVars, wordVars
<1>2. UNCHANGED <<LastBuffer, LastSlot, Upcoming>>
  BY <1>1 DEF LastBuffer, LastSlot, Upcoming, userVars
<1>3. \A b \in Buffers, i \in Slots : Passed(b, i)' <=> Passed(b, i)
  BY <1>1 DEF Passed
<1>4. (IRecorded /\ IFilled /\ IRead)'
  BY <1>0, <1>1, <1>2, <1>3, WordsStay
<1>5. ISlip /\ IFull /\ IReady /\ IFresh
  BY <1>0 DEF IFlags
<1>6. IReady'
  <2>1. userBuffer = curBuffer => ~ empty[userBuffer]
    BY <1>0, <1>1, <1>5 DEF ISlip
  <2> QED
    BY <1>1, <1>5, <2>1 DEF IReady, userVars
<1>7. ASSUME userBuffer \in Buffers, NEW b \in Buffers,
             Turns(userBuffer, b) \in 1 .. Turns(userBuffer, Following(curBuffer)) - 1
      PROVE  ~ empty[b]
  <2>1. /\ Turns(userBuffer, curBuffer) \in 0 .. BufferCount - 1
        /\ Turns(userBuffer, b) \in 0 .. BufferCount - 1
        /\ Turns(userBuffer, Following(curBuffer)) =
             IF Turns(userBuffer, curBuffer) = BufferCount - 1 THEN 0
             ELSE Turns(userBuffer, curBuffer) + 1
    BY <1>0, <1>7, TurnsIs
  <2>2. CASE Turns(userBuffer, b) < Turns(userBuffer, curBuffer)
    BY <1>5, <1>7, <2>1, <2>2 DEF IFull
  <2>3. CASE ~ Turns(userBuffer, b) < Turns(userBuffer, curBuffer)
    <3>1. Turns(userBuffer, b) = Turns(userBuffer, curBuffer)
      BY <1>7, <2>1, <2>3
    <3>2. b = curBuffer
      BY <1>0, <1>7, <3>1, TurnsFrom
    <3>3. userBuffer # Following(curBuffer)
      BY <1>0, <1>7, <2>1, TurnsIs
    <3> QED
      BY <1>1, <1>5, <3>2, <3>3 DEF ISlip
  <2> QED
    BY <2>2, <2>3
<1>8. IFull'
  BY <1>1, <1>7 DEF IFull, userVars
<1>9. ILapped'
  <2> SUFFICES ASSUME pc = "pass", userBuffer = Following(curBuffer),
                      NEW b \in Buffers, b # Following(curBuffer)
               PROVE  ~ empty[b]
    BY <1>1 DEF ILapped, userVars
  <2>1. ~ empty[curBuffer]
    BY <1>1, <1>5 DEF ISlip
  <2>2. CASE b # curBuffer
    <3>1. /\ Turns(userBuffer, curBuffer) = BufferCount - 1
          /\ Turns(userBuffer, b) \in 0 .. BufferCount - 1
          /\ Turns(userBuffer, b) # 0
      BY <1>0, TurnsIs
    <3>2. Turns(userBuffer, b) # BufferCount - 1
      BY <1>0, <2>2, <3>1, TurnsFrom
    <3> QED
      BY <1>0, <1>5, <3>1, <3>2 DEF IFull
  <2> QED
    BY <2>1, <2>2
<1> QED
  BY <1>1, <1>4, <1>5, <1>6, <1>8, <1>9 DEF IFlags, INeverSilences, IFresh, ISlip, userVars

\* The sketch reads a word: it is one that was recorded, and the next one, if the
\* buffer has not been noted.
LEMMA ReadsNext ==
  ASSUME IInv, IInput, ~ isOutput, ~ strayed, MoveWord, ~ Strays
  PROVE  /\ heard' = Earlier(made, ToDma(userBuffer, userOff) - 1)
         /\ userBuffer \in Buffers /\ userOff \in Slots /\ ~ empty[userBuffer]
         /\ heard # Silence /\ ~ noted[userBuffer] => heard' = After(heard)
<1>0. TypeOK /\ IChecked /\ IRecorded /\ IFilled /\ IFlags /\ IRead /\ made \in Words
  BY DEF IInv, IInput, TypeOK
<1>1. userBuffer \in Buffers /\ userOff \in Slots /\ ~ empty[userBuffer] /\ pc = "move"
  BY <1>0 DEF MoveWord, Sketch, IChecked, TypeOK, Slots
<1>2. heard' = Earlier(made, ToDma(userBuffer, userOff) - 1)
  <2>1. buff[userBuffer][userOff] # Silence
    BY <1>0, <1>1 DEF IFilled
  <2>2. heard' = buff[userBuffer][userOff]
    BY <2>1 DEF MoveWord, Hear
  <2> QED
    BY <1>0, <1>1, <2>1, <2>2 DEF IRecorded
<1>3. ASSUME heard # Silence, ~ noted[userBuffer] PROVE heard' = After(heard)
  <2> DEFINE g == ToDma(LastBuffer, LastSlot)
             n == g - 1
  <2>1. heard = Earlier(made, n)
    BY <1>0, <1>1, <1>3 DEF IRead, Upcoming
  <2>2. /\ LastBuffer \in Buffers /\ LastSlot \in Slots /\ addr[channel] \in Buffers
        /\ done \in Slots /\ done \in 0 .. WordsPerBuffer
    BY <1>0, <1>1, LastIs DEF TypeOK, Slots
  <2>3. ToDma(userBuffer, userOff) = IF g = 1 THEN RingWords ELSE g - 1
    <3>1. CASE userOff = 0
      <4>1. LastSlot + 1 = WordsPerBuffer /\ Following(LastBuffer) = userBuffer
        BY <1>1, <3>1, PrecedingIs DEF LastBuffer, LastSlot
      <4> QED
        BY <2>2, <3>1, <4>1, GapNext DEF ToDma
    <3>2. CASE userOff # 0
      <4>1. LastSlot + 1 = userOff /\ userOff < WordsPerBuffer /\ LastBuffer = userBuffer
        BY <1>1, <3>2 DEF LastBuffer, LastSlot, Slots
      <4> QED
        BY <2>2, <4>1, GapNext DEF ToDma
    <3> QED
      BY <3>1, <3>2
  <2>4. ToDma(userBuffer, userOff) # RingWords
    BY <1>1, <2>2, GapForward DEF ToDma, Strays
  <2>5. g \in 1 .. RingWords /\ RingWords \in Nat /\ RingWords < WordNumbers
    BY <1>0, <2>2, DmaGap, RingWordsIs
  <2>6. n \in Nat /\ n < WordNumbers /\ n > 0 /\ ToDma(userBuffer, userOff) = n
    BY <2>3, <2>4, <2>5
  <2> HIDE DEF g, n
  <2>7. After(Earlier(made, n)) = Earlier(made, n - 1)
    BY <1>0, <2>6, EarlierIs
  <2> QED
    BY <1>2, <2>1, <2>6, <2>7
<1> QED
  BY <1>1, <1>2, <1>3

\* The sketch reads a word of a buffer that the DMA is not on.
LEMMA InputReads ==
  ASSUME IInv, IInput, ~ isOutput, ~ strayed, MoveWord, ~ Strays
  PROVE  (IRecorded /\ IFilled /\ IFlags /\ IRead)'
<1>0. /\ TypeOK /\ InStep /\ IRaised /\ IRecorded /\ IFilled /\ IFlags /\ IRead
      /\ userBuffer \in Buffers /\ userOff \in Slots /\ ~ empty[userBuffer]
      /\ heard' = Earlier(made, ToDma(userBuffer, userOff) - 1)
  BY ReadsNext DEF IInv, IInput
<1>1. /\ userOff' = userOff + 1 /\ pc = "move"
      /\ UNCHANGED <<buff, empty, userBuffer, ringVars, dmaVars, irq, made>>
  BY DEF MoveWord, Sketch, Hear
<1>2. IRecorded' /\ IFilled'
  BY <1>0, <1>1 DEF IRecorded, IFilled, ToDma, Passed, Raised, ringVars, dmaVars
<1>3. IRead'
  <2>1. LastBuffer' = userBuffer /\ LastSlot' = userOff
    BY <1>0, <1>1 DEF LastBuffer, LastSlot, Slots
  <2> QED
    BY <1>0, <1>1, <2>1 DEF IRead, ToDma, dmaVars
<1>4. userBuffer # curBuffer /\ userBuffer # addr[channel]
  BY DEF Strays
<1>5. ~ (irq \in {"point", "current"} /\ empty[curBuffer])
  BY <1>0, <1>4, Places DEF IFlags, ISlip
<1>6. IFlags'
  BY <1>0, <1>1, <1>4, <1>5, BufferFacts DEF IFlags, INeverSilences, IFresh, IReady, IFull, ILapped, ISlip, ringVars
<1> QED
  BY <1>2, <1>3, <1>6

\* The sketch passes its buffer on.
LEMMA InputPasses ==
  ASSUME IInv, IInput, ~ isOutput, ~ strayed, PassBuffer
  PROVE  (IRecorded /\ IFilled /\ IFlags /\ IRead)'
<1> DEFINE t == Turns(userBuffer, curBuffer)
<1>0. /\ TypeOK /\ IChecked /\ IRecorded /\ IFilled /\ IFlags /\ IRead
      /\ curBuffer \in Buffers /\ userBuffer \in Buffers /\ userOff = WordsPerBuffer
  BY DEF IInv, IInput, TypeOK, IChecked, PassBuffer, Sketch
<1>1. /\ pc = "pass" /\ pc' = "idle" /\ userOff' = 0 /\ userBuffer' = Following(userBuffer)
      /\ empty' = [empty EXCEPT ![userBuffer] = TRUE]
      /\ UNCHANGED <<buff, curBuffer, noted, channel, done, addr, raised, irq, made, heard>>
  BY DEF PassBuffer, Sketch, ringVars, dmaVars, wordVars
<1>2. Following(userBuffer) \in Buffers /\ Following(userBuffer) # userBuffer
  BY <1>0, FollowingOther
<1>3. UNCHANGED <<LastBuffer, LastSlot, Upcoming>>
  BY <1>0, <1>1, <1>2, PrecedingIs DEF LastBuffer, LastSlot, Upcoming
<1>4. \A b \in Buffers : empty'[b] = (b = userBuffer \/ empty[b])
  BY <1>0, <1>1 DEF TypeOK
<1>5. \A b \in Buffers, i \in Slots : Passed(b, i)' <=> Passed(b, i)
  BY <1>1 DEF Passed, Raised
<1>6. (IRecorded /\ IFilled /\ IRead)'
  BY <1>0, <1>1, <1>3, <1>4, <1>5, WordsStay
<1>7. /\ t \in 0 .. BufferCount - 1 /\ (t = 0 <=> userBuffer = curBuffer)
      /\ \A b \in Buffers : Turns(userBuffer, b) \in 0 .. BufferCount - 1
      /\ \A b \in Buffers : Turns(Following(userBuffer), b) =
           IF userBuffer = b THEN BufferCount - 1 ELSE Turns(userBuffer, b) - 1
  BY <1>0, TurnsIs
<1>8. t = 0 => \A b \in Buffers : b = curBuffer \/ ~ empty[b]
  BY <1>0, <1>1, <1>7 DEF IFlags, ILapped
<1>9. \A b \in Buffers : Turns(userBuffer, b) \in 1 .. t - 1 => ~ empty[b]
  BY <1>0 DEF IFlags, IFull
<1>10. Turns(userBuffer, Following(userBuffer)) = 1
  <2>1. Turns(userBuffer, userBuffer) = 0
    BY <1>0, TurnsIs
  <2> QED
    BY <1>0, <2>1, TurnsIs
<1>11. t = 1 => Following(userBuffer) = curBuffer
  BY <1>0, <1>2, <1>10, TurnsFrom
<1> HIDE DEF t
<1>12. IReady'
  <2>1. Following(userBuffer) # curBuffer => ~ empty[Following(userBuffer)]
    BY <1>2, <1>7, <1>8, <1>9, <1>10, <1>11
  <2> QED
    BY <1>1, <1>2, <1>4, <2>1 DEF IReady
<1>13. IFull'
  <2> SUFFICES ASSUME NEW b \in Buffers,
                      Turns(Following(userBuffer), b) \in 1 .. Turns(Following(userBuffer), curBuffer) - 1
               PROVE  ~ empty'[b]
    BY <1>1 DEF IFull
  <2>1. b # userBuffer
    BY <1>0, <1>7 DEF t
  <2>2. b # curBuffer
    BY <1>0, <1>7
  <2>3. CASE t = 0
    BY <1>4, <1>8, <2>1, <2>2, <2>3
  <2>4. CASE t # 0
    <3>1. Turns(userBuffer, b) - 1 \in 1 .. (t - 1) - 1
      BY <1>0, <1>7, <2>1, <2>4 DEF t
    <3>2. Turns(userBuffer, b) \in 1 .. t - 1
      BY <1>7, <3>1
    <3> QED
      BY <1>4, <1>9, <2>1, <3>2
  <2> QED
    BY <2>3, <2>4
<1>14. ISlip'
  BY <1>0, <1>1, <1>4 DEF IFlags, ISlip
<1> QED
  BY <1>0, <1>1, <1>2, <1>6, <1>12, <1>13, <1>14, BufferFacts DEF IFlags, INeverSilences, IFresh, ILapped

\* Where the first call begins to read.
LEMMA InputBegins ==
  ASSUME IInv, IInput, ~ isOutput, ~ strayed, Call
  PROVE  (IRecorded /\ IFilled /\ IFlags /\ IRead)'
<1>0. TypeOK /\ IRecorded /\ IFilled /\ IFlags /\ IRead /\ curBuffer \in Buffers
  BY DEF IInv, IInput, TypeOK
<1>1. /\ pc = "idle" /\ pc' = "empty"
      /\ UNCHANGED <<buff, empty, userOff, curBuffer, noted, channel, done, addr, raised, irq, made, heard>>
  BY DEF Call, Sketch, ringVars, dmaVars, wordVars
<1>2. CASE userBuffer = NoBuffer
  <2>1. userBuffer' = Preceding(curBuffer) /\ Preceding(curBuffer) \in Buffers /\ userBuffer' # NoBuffer
    BY <1>0, <1>2, PrecedingIs, BufferFacts DEF Call, FirstBuffer
  <2>2. Turns(Preceding(curBuffer), curBuffer) = 1
    <3>1. Turns(Preceding(curBuffer), Preceding(curBuffer)) = 0
      BY <2>1, TurnsIs
    <3>2. Turns(Preceding(curBuffer), Following(Preceding(curBuffer))) = 1
      BY <2>1, <3>1, TurnsIs
    <3> QED
      BY <1>0, <3>2, PrecedingIs
  <2>3. heard = Silence /\ userOff = 0
    BY <1>0, <1>2, BufferFacts DEF IFlags, IReady, IFresh
  <2>4. ~ (irq \in {"point", "current"} /\ empty[curBuffer])
    BY <1>0, <1>2, FollowingOther, BufferFacts DEF IFlags, ISlip
  <2>5. IRecorded' /\ IFilled'
    BY <1>0, <1>1 DEF IRecorded, IFilled, ToDma, Passed, Raised
  <2>6. IFlags' /\ IRead'
    BY <1>0, <1>1, <2>1, <2>2, <2>3, <2>4
       DEF IFlags, INeverSilences, IFresh, IReady, IFull, ILapped, ISlip, IRead
  <2> QED
    BY <2>5, <2>6
<1>3. CASE userBuffer # NoBuffer
  <2>1. UNCHANGED userBuffer
    BY <1>3 DEF Call
  <2>2. UNCHANGED <<LastBuffer, LastSlot, Upcoming>>
    BY <1>1, <2>1 DEF LastBuffer, LastSlot, Upcoming
  <2>3. (IRecorded /\ IFilled /\ IRead)'
    BY <1>0, <1>1, <2>1, <2>2, WordsStay DEF Passed, Raised
  <2>4. IFlags'
    BY <1>0, <1>1, <2>1 DEF IFlags, INeverSilences, IFresh, IReady, IFull, ILapped, ISlip
  <2> QED
    BY <2>3, <2>4
<1> QED
  BY <1>2, <1>3

\* Each step keeps the words of an input.
LEMMA InputStep ==
  ASSUME IInv, IInput, [Next]_vars
  PROVE  IInput'
<1> SUFFICES ASSUME ~ isOutput', ~ strayed'
             PROVE  (IRecorded /\ IFilled /\ IFlags /\ IRead)'
  BY DEF IInput
<1>0. ~ isOutput /\ ~ strayed /\ IRecorded /\ IFilled /\ IFlags /\ IRead
  <2>1. isOutput' = isOutput
    BY DEF Next, Handle, Proceed, Transfer, TransferCount, SilenceBuffer, FlagBuffer, PointChannel, StepCurrent,
       StepNext, Handler, Call, CallFlush, GiveUp, CheckEmpty, CheckCurrent, MoveWord, PassBuffer,
       Flushed, Sketch, vars
  <2>2. strayed => strayed'
    BY DEF Next, Handle, Proceed, Transfer, TransferCount, SilenceBuffer, FlagBuffer, PointChannel, StepCurrent,
       StepNext, Handler, Call, CallFlush, GiveUp, CheckEmpty, CheckCurrent, MoveWord, PassBuffer,
       Flushed, Sketch, vars, wordVars, Stray
  <2> QED
    BY <2>1, <2>2 DEF IInput
<1>1. ASSUME Transfer PROVE (IRecorded /\ IFilled /\ IFlags /\ IRead)'
  BY <1>0, <1>1, RecordsNext
<1>2. ~ SilenceBuffer
  BY <1>0 DEF SilenceBuffer
<1>3. ASSUME FlagBuffer PROVE (IRecorded /\ IFilled /\ IFlags /\ IRead)'
  BY <1>0, <1>3, InputFlags
<1>4. ASSUME PointChannel PROVE (IRecorded /\ IFilled /\ IFlags /\ IRead)'
  BY <1>0, <1>4, InputPoints
<1>5. ASSUME StepCurrent PROVE (IRecorded /\ IFilled /\ IFlags /\ IRead)'
  BY <1>0, <1>5, InputSteps
<1>6. ASSUME StepNext PROVE (IRecorded /\ IFilled /\ IFlags /\ IRead)'
  <2>1. /\ irq = "next" /\ irq' = "none" /\ ~ Raised'
        /\ UNCHANGED <<buff, empty, userVars, curBuffer, noted, addr, channel, done, pc, made, heard>>
    BY <1>6 DEF StepNext, Handler, wordVars, Raised
  <2>2. UNCHANGED <<LastBuffer, LastSlot, Upcoming>>
    BY <2>1 DEF LastBuffer, LastSlot, Upcoming, userVars
  <2>3. (IRecorded /\ IFilled /\ IRead)'
    BY <1>0, <2>1, <2>2, WordsStay DEF Passed
  <2>4. IFlags'
    BY <1>0, <2>1 DEF IFlags, INeverSilences, IFresh, IReady, IFull, ILapped, ISlip, userVars
  <2> QED
    BY <2>3, <2>4
<1>7. ASSUME Call PROVE (IRecorded /\ IFilled /\ IFlags /\ IRead)'
  BY <1>0, <1>7, InputBegins
<1>8. ASSUME CheckEmpty \/ CheckCurrent \/ GiveUp \/ CallFlush \/ Flushed \/ UNCHANGED vars
      PROVE  (IRecorded /\ IFilled /\ IFlags /\ IRead)'
  <2>1. /\ UNCHANGED <<buff, empty, userVars, curBuffer, noted, channel, done, addr, raised, irq, made, heard>>
        /\ pc = "pass" <=> pc' = "pass"
    BY <1>8 DEF CheckEmpty, CheckCurrent, GiveUp, CallFlush, Flushed, Sketch, ringVars, dmaVars,
       wordVars, vars
  <2>2. UNCHANGED <<LastBuffer, LastSlot, Upcoming>>
    BY <2>1 DEF LastBuffer, LastSlot, Upcoming, userVars
  <2>3. (IRecorded /\ IFilled /\ IRead)'
    BY <1>0, <2>1, <2>2, WordsStay DEF Passed, Raised
  <2>4. IFlags'
    BY <1>0, <2>1 DEF IFlags, INeverSilences, IFresh, IReady, IFull, ILapped, ISlip, userVars
  <2> QED
    BY <2>3, <2>4
<1>9. ASSUME MoveWord PROVE (IRecorded /\ IFilled /\ IFlags /\ IRead)'
  <2>1. ~ Strays
    BY <1>9 DEF MoveWord, Stray
  <2> QED
    BY <1>0, <1>9, <2>1, InputReads
<1>10. ASSUME PassBuffer PROVE (IRecorded /\ IFilled /\ IFlags /\ IRead)'
  BY <1>0, <1>10, InputPasses
<1> QED
  BY <1>1, <1>2, <1>3, <1>4, <1>5, <1>6, <1>7, <1>8, <1>9, <1>10 DEF Next, Handle, Proceed

-------------------------------------------------------------------------------
(* The theorems about words.                                                   *)

\* At first nothing has been made or heard.
LEMMA WordsBegin == Init => IOutput /\ IInput /\ IStrayed
<1> SUFFICES ASSUME Init PROVE IOutput /\ IInput /\ IStrayed
  OBVIOUS
<1>0. /\ userBuffer = NoBuffer /\ NoBuffer \notin Buffers /\ userOff = 0 /\ irq = "none" /\ pc = "idle"
      /\ ~ strayed /\ ~ Raised /\ done = 0 /\ empty = [b \in Buffers |-> TRUE]
      /\ WordNumbers \in Words
  BY BufferFacts DEF Init, Raised
<1>1. AllSilent
  BY DEF Init, AllSilent
<1>2. \A b \in Buffers, i \in Slots : ~ Passed(b, i)
  BY <1>0 DEF Passed, Slots
<1>3. IOutput
  <2>1. isOutput => heard = WordNumbers /\ made = WordNumbers
    BY DEF Init
  <2> QED
    BY <1>0, <1>1, <2>1 DEF IOutput, IPending, IEmpty, ISilenced, AllSilent, Lag, Since
<1>4. IInput
  <2>1. ~ isOutput => heard = Silence
    BY DEF Init
  <2> QED
    BY <1>0, <1>1, <1>2, <2>1 DEF IInput, IRecorded, IFilled, IFlags, INeverSilences, IFresh, IReady,
       IFull, ILapped, ISlip, IRead, AllSilent
<1> QED
  BY <1>0, <1>3, <1>4 DEF IStrayed

\* The invariant of the words holds in every reachable state.
THEOREM WordsInvariance == Spec => [](IInv /\ IOutput /\ IInput /\ IStrayed)
<1>1. IInv /\ IOutput /\ IInput /\ IStrayed /\ [Next]_vars => (IOutput /\ IInput /\ IStrayed)'
  BY OutputStep, InputStep, StrayedStep
<1> QED
  BY Invariance, WordsBegin, <1>1, PTL DEF Spec

\* For every ring the words that the sketch writes are played in order.
THEOREM InOrderCorrect == Spec => InOrder
<1>1. ASSUME IInv, IOutput, IInput, IStrayed, Transfer PROVE ~ Skips
  <2>1. CASE strayed
    BY <1>1, <2>1 DEF IStrayed, Skips
  <2>2. CASE ~ strayed /\ isOutput
    BY <1>1, <2>2, PlaysNext DEF Skips
  <2>3. CASE ~ isOutput
    BY <1>1, <2>3 DEF Transfer, TransferCount, Make, Skips
  <2> QED
    BY <2>1, <2>2, <2>3
<1>2. IInv /\ IOutput /\ IInput /\ IStrayed => [Transfer => ~ Skips]_vars
  BY <1>1
<1> QED
  BY WordsInvariance, <1>2, PTL DEF InOrder

\* For every ring a word that the sketch of an input does not get was noted.
THEOREM SkipsNotedCorrect == Spec => SkipsNoted
<1>1. ASSUME IInv, IOutput, IInput, IStrayed, MoveWord, ~ isOutput, Skips PROVE noted[userBuffer]
  <2>1. CASE Strays
    <3>1. /\ userBuffer \in Buffers /\ empty[userBuffer] = isOutput
          /\ userBuffer = curBuffer => noted[userBuffer]
      BY <1>1 DEF IInv, IChecked, Excused, MoveWord, Sketch
    <3>2. userBuffer = addr[channel] => noted[userBuffer]
      BY <1>1, <3>1 DEF IInv, IGiven, Excused
    <3> QED
      BY <2>1, <3>1, <3>2 DEF Strays
  <2>2. CASE ~ Strays
    <3>1. ~ strayed /\ ~ isOutput
      BY <1>1, <2>2 DEF IStrayed, Skips, MoveWord, Make
    <3> QED
      BY <1>1, <2>2, <3>1, ReadsNext DEF Skips
  <2> QED
    BY <2>1, <2>2
<1>2. IInv /\ IOutput /\ IInput /\ IStrayed => [MoveWord /\ ~ isOutput /\ Skips => noted[userBuffer]]_vars
  BY <1>1
<1> QED
  BY WordsInvariance, <1>2, PTL DEF SkipsNoted
================================================================================
