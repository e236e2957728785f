SPECIFICATION Spec
CONSTANTS
  KeyCount = 4
  LayerCount = 4
  ArraySize = 5
  Keymap <- MoveKeymap
  Commands <- NoCommands
INVARIANTS
  ListAgrees
