\* The smallest ring I2S::setBuffers() allows, of short buffers, played from or
\* recorded to.  Seven numbers tell apart the six words the ring holds and the next.
SPECIFICATION Spec
CONSTANTS
    BufferCount = 3
    WordsPerBuffer = 2
    Directions <- MCBoth
    WordNumbers = 7
INVARIANTS TypeOK InStep
PROPERTIES InOrder StraysNoted SkipsNoted Played CallsReturn
