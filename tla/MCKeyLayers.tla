----------------------------- MODULE MCKeyLayers ------------------------------
(***************************************************************************)
(* Keyboards for TLC.                                                      *)
(***************************************************************************)
EXTENDS KeyLayers

Key(l)      == [kind |-> "key", layer |-> l]
ShiftTo(l)  == [kind |-> "shift", layer |-> l]
Lock(l)     == [kind |-> "lock", layer |-> l]
MoveTo(l)   == [kind |-> "move", layer |-> l]
NextLayer   == [kind |-> "next"]
PreviousLayer == [kind |-> "previous"]
Order(op, l) == [op |-> op, layer |-> l]

Hole        == [kind |-> "transparent"]

\* Two keys that shift to layer 1, in front of and behind a key that locks
\* layer 2 and, once there, shifts to layer 3; and a key with holes.
StackKeymap ==
  [l \in 0 .. 3 |->
    CASE l = 0 -> <<ShiftTo(1), Lock(2),    ShiftTo(1), Key(0)>>
      [] l = 1 -> <<Hole,       Hole,       Hole,       Key(1)>>
      [] l = 2 -> <<Hole,       ShiftTo(3), Lock(2),    Hole>>
      [] l = 3 -> <<Hole,       Hole,       Hole,       Key(3)>>]
StackCommands == {Order("activate", 3), Order("deactivate", 2), Order("activate", 4)}

\* Every kind of entry, on three layers.
EveryKeymap ==
  [l \in 0 .. 2 |->
    CASE l = 0 -> <<ShiftTo(1), NextLayer,     MoveTo(2),  Key(0)>>
      [] l = 1 -> <<Hole,       PreviousLayer, Lock(2),    ShiftTo(0)>>
      [] l = 2 -> <<Lock(0),    Hole,          Hole,       MoveTo(3)>>]
EveryCommands == [op : {"activate", "deactivate", "moveTo"}, layer : {0, 1, 3}]

\* Three shift keys and a key that moves back to layer 0.
MoveKeymap ==
  [l \in 0 .. 3 |->
    IF l = 0 THEN <<MoveTo(0), ShiftTo(1), ShiftTo(2), ShiftTo(3)>>
             ELSE <<MoveTo(0), Hole, Hole, Hole>>]
NoCommands == {}
===============================================================================
