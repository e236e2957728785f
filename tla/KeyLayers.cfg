SPECIFICATION Spec
CONSTANTS
  KeyCount = 4
  LayerCount = 4
  ArraySize = 5
  Keymap <- StackKeymap
  Commands <- StackCommands
INVARIANTS
  ListAgrees
PROPERTIES
  StackSpec
  ShiftHolds
