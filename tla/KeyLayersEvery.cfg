SPECIFICATION Spec
CONSTANTS
  KeyCount = 4
  LayerCount = 3
  ArraySize = 4
  Keymap <- EveryKeymap
  Commands <- EveryCommands
INVARIANTS
  TypeOK
  CountAgrees
  OnlyActive
PROPERTIES
  HeldKeepsKey
