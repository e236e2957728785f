------------------------------- MODULE KeyLayers -------------------------------
(***************************************************************************)
(* The layers of the Kaleidoscope keyboard firmware: Layer_ of             *)
(* kaleidoscope/layers.cpp, driven by the scan of the key matrix           *)
(* (device/dygma/DefyWired.cpp), by handleKeyswitchEvent of key_events.cpp *)
(* and by the commands of a host (plugin/LayerFocus.cpp).                  *)
(*                                                                         *)
(* The firmware is one loop.  Each cycle takes a snapshot of the switches, *)
(* then handles every key that is or was down, in the order of the scan,   *)
(* and ends with at most one command of the host.  The layers live in a    *)
(* bit field, in an array with the order of their activation, and in two   *)
(* caches of the keymap.  The array is used up to active_layer_count_, and *)
(* what lies behind is what earlier activations left there.                *)
(***************************************************************************)
EXTENDS Integers, FiniteSets, Sequences

CONSTANTS
  KeyCount,       \* keys of the matrix, numbered in the order of the scan
  LayerCount,     \* layer_count: the layers of the keymap
  ArraySize,      \* entries of active_layers_ (31)
  Keymap,         \* getKey: [Layers -> [Keys -> Entries]]
  Commands        \* what the host may send

Keys   == 1 .. KeyCount
Layers == 0 .. LayerCount - 1

\* An entry of the keymap: a key as seen from a layer, a hole, or a key that
\* switches layers.  A target that is no layer stands for every such number.
Targets  == 0 .. LayerCount
Switches == [kind : {"shift", "lock", "move"}, layer : Targets]
              \cup [kind : {"next", "previous"}]
Transparent == [kind |-> "transparent"]
Entries  == [kind : {"key"}, layer : Layers] \cup Switches \cup {Transparent}
Orders   == [op : {"activate", "deactivate", "moveTo"}, layer : Targets]

\* active_layers_[active_layer_count_] is read, so the array has to be longer
\* than the keymap has layers.
ASSUME LayersAssumption ==
  /\ KeyCount \in Nat \ {0} /\ LayerCount \in Nat \ {0}
  /\ ArraySize \in Nat /\ ArraySize > LayerCount
  /\ Keymap \in [Layers -> [Keys -> Entries]]
  /\ Commands \subseteq Orders

VARIABLES
  wasDown,              \* previousLeftHandState, previousRightHandState
  isDown,               \* leftHandState, rightHandState
  cursor,               \* the next key of the scan; 0: the cycle has not begun
  layer_state,          \* the layers that are on
  active_layer_count,   \* how much of active_layers is in use
  active_layers,        \* the layers in the order of their activation
  active_layer_keymap,  \* per key: the layer it is looked up on
  live                  \* live_composite_keymap_: per key, what it means now

scan   == <<wasDown, isDown, cursor>>
layers == <<layer_state, active_layer_count, active_layers, active_layer_keymap>>
vars   == <<scan, layers, live>>
-------------------------------------------------------------------------------
(***************************************************************************)
(* The activation order.                                                   *)
(***************************************************************************)
Last(S) == CHOOSE i \in S : \A j \in S : j <= i

\* Variant: the layer need not be on.
OpaqueOff(l, k) == Keymap[l][k] # Transparent

Opaque(l, k) == l \in layer_state' /\ Keymap[l][k] # Transparent

\* Variant: the keymap cache is not refreshed.
UpdateActiveLayersNot == UNCHANGED active_layer_keymap

\* updateActiveLayers(): per key, the last layer of the array that is on and
\* not transparent there; layer 0 if there is none.
UpdateActiveLayers ==
  active_layer_keymap' =
    [k \in Keys |->
       LET found == {i \in 0 .. active_layer_count' - 1 : Opaque(active_layers'[i], k)}
       IN  IF found = {} THEN 0 ELSE active_layers'[Last(found)]]

\* Where move() goes if there is no such layer.
MovesTo(layer) == IF layer >= LayerCount THEN 0 ELSE layer

Move(layer) ==
  /\ layer_state' = {MovesTo(layer)}
  /\ active_layer_count' = 1
  /\ active_layers' = [active_layers EXCEPT ![0] = MovesTo(layer)]
  /\ UpdateActiveLayers

\* Variant: a layer that is on is activated again.
ActivatesAgain(l) == l < LayerCount

Activates(l) == l < LayerCount /\ l \notin layer_state

Activate(l) ==
  IF Activates(l)
  THEN /\ layer_state' = layer_state \cup {l}
       /\ active_layers' = [active_layers EXCEPT ![active_layer_count] = l]
       /\ active_layer_count' = active_layer_count + 1
       /\ UpdateActiveLayers
  ELSE UNCHANGED layers

\* Variant: the first entry of the array is dropped.
FoundFirst(l) == 0

\* The search of deactivate() starts one place behind the entries in use and
\* ends before the first one, which is what is left if nothing else is found.
Found(l) ==
  LET places == {i \in 1 .. active_layer_count : active_layers[i] = l}
  IN  IF places = {} THEN 0 ELSE Last(places)

Deactivate(l) ==
  IF l \in layer_state
  THEN /\ layer_state' = layer_state \ {l}
       /\ active_layers' =
            [i \in DOMAIN active_layers |->
               active_layers[IF i \in Found(l) .. active_layer_count - 1 THEN i + 1 ELSE i]]
       /\ active_layer_count' = active_layer_count - 1
       /\ UpdateActiveLayers
  ELSE UNCHANGED layers

\* active_layers_[active_layer_count_ - 1]; without an entry it is the byte in
\* front of the array, which may be anything; -1 makes activateNext() turn on
\* layer 0.
MostRecent ==
  IF active_layer_count > 0 THEN {active_layers[active_layer_count - 1]}
  ELSE Targets \cup {-1}
-------------------------------------------------------------------------------
(***************************************************************************)
(* Key events.                                                             *)
(***************************************************************************)
ToggledOn(k)  == k \in isDown \ wasDown
ToggledOff(k) == k \in wasDown \ isDown

\* Variant: only when it goes down.
AsksOnce(k) == ToggledOn(k)

\* A shift key asks for its layer in every cycle it is down.
Asks(k) == k \in isDown

Set(condition, layer) == IF condition THEN {layer} ELSE {}

\* handleKeymapKeyswitchEvent(): the layer that entry e of key k turns on ...
TurnsOn(e, k) ==
  CASE e.kind = "shift"    -> Set(Asks(k), e.layer)
    [] e.kind = "lock"     -> Set(ToggledOn(k) /\ e.layer \notin layer_state \ {0}, e.layer)
    [] e.kind = "next"     -> {l + 1 : l \in {m \in MostRecent : ToggledOn(k)}}
    [] e.kind = "previous" -> {l + 1 : l \in {m \in MostRecent : ToggledOff(k)}}
    [] OTHER               -> {}

\* ... and the layer it turns off.
TurnsOff(e, k) ==
  CASE e.kind = "shift"    -> Set(ToggledOff(k), e.layer)
    [] e.kind = "lock"     -> Set(ToggledOn(k) /\ e.layer \in layer_state \ {0}, e.layer)
    [] e.kind = "next"     -> {m \in MostRecent : ToggledOff(k)}
    [] e.kind = "previous" -> {m \in MostRecent : ToggledOn(k)}
    [] OTHER               -> {}

Moves(e, k) == e.kind = "move" /\ ToggledOn(k)

EventHandler(e, k) ==
  \/ \E l \in TurnsOn(e, k) : Activate(l)
  \/ \E l \in TurnsOff(e, k) : Deactivate(l)
  \/ Moves(e, k) /\ Move(e.layer)
  \/ TurnsOn(e, k) = {} /\ TurnsOff(e, k) = {} /\ ~ Moves(e, k) /\ UNCHANGED layers

\* Variant: a held key is looked up again.
LooksUpAgain(k) == k \in isDown

\* What a key means is looked up when it goes down, and kept.
LooksUp(k) == ToggledOn(k)
-------------------------------------------------------------------------------
(***************************************************************************)
(* The loop.                                                               *)
(***************************************************************************)
\* readMatrix(): the user has pressed and released any keys since.
ReadMatrix ==
  /\ cursor = 0
  /\ wasDown' = isDown
  /\ isDown' \in SUBSET Keys
  /\ cursor' = 1
  /\ UNCHANGED <<layers, live>>

Advance == cursor' = cursor + 1 /\ UNCHANGED <<wasDown, isDown>>

\* actOnMatrixScan() and handleKeyswitchEvent(), for a key that is or was down.
HandleKey(k) ==
  /\ cursor = k /\ k \in wasDown \cup isDown
  /\ Advance
  /\ live' = [live EXCEPT ![k] = IF LooksUp(k) THEN Keymap[active_layer_keymap[k]][k] ELSE @]
  /\ EventHandler(live'[k], k)

SkipKey(k) ==
  /\ cursor = k /\ k \notin wasDown \cup isDown
  /\ Advance
  /\ UNCHANGED <<layers, live>>

EndOfCycle ==
  /\ cursor = KeyCount + 1
  /\ cursor' = 0
  /\ UNCHANGED <<wasDown, isDown, live>>

\* beforeReportingState(): a command of the host, LayerFocus::onFocusEvent().
FocusEvent(c) ==
  /\ EndOfCycle
  /\ CASE c.op = "activate"   -> Activate(c.layer)
       [] c.op = "deactivate" -> Deactivate(c.layer)
       [] c.op = "moveTo"     -> Move(c.layer)

SendReport == EndOfCycle /\ UNCHANGED layers

\* The firmware after Layer.setup().
Init ==
  /\ wasDown = {} /\ isDown = {} /\ cursor = 0
  /\ layer_state = {0}
  /\ active_layer_count = 1
  /\ active_layers = [i \in 0 .. ArraySize - 1 |-> 0]
  /\ active_layer_keymap = [k \in Keys |-> 0]
  /\ live = [k \in Keys |-> Keymap[0][k]]

Next ==
  \/ ReadMatrix
  \/ \E k \in Keys : HandleKey(k) \/ SkipKey(k)
  \/ \E c \in Commands : FocusEvent(c)
  \/ SendReport

\* The loop of the firmware never stops.
Spec == Init /\ [][Next]_vars /\ WF_vars(Next)
-------------------------------------------------------------------------------
(***************************************************************************)
(* Properties.                                                             *)
(***************************************************************************)
\* Every variable keeps its type, and the search of deactivate(), which looks
\* one place behind the entries in use, stays inside active_layers_.
TypeOK ==
  /\ wasDown \subseteq Keys /\ isDown \subseteq Keys
  /\ cursor \in 0 .. KeyCount + 1
  /\ layer_state \subseteq Layers
  /\ active_layer_count \in 0 .. LayerCount
  /\ active_layers \in [0 .. ArraySize - 1 -> Layers]
  /\ active_layer_keymap \in [Keys -> Layers]
  /\ live \in [Keys -> Entries]

\* active_layer_count_ is the number of layers that are on, whatever the array
\* holds: an activation and a deactivation never count a layer twice.
CountAgrees == active_layer_count = Cardinality(layer_state)

\* The array names exactly the layers that are on: docs/layers.md looks keys
\* up "on the most recently activated layer" first, and a layer that is on but
\* not in the array is never looked at.
ListAgrees == {active_layers[i] : i \in 0 .. active_layer_count - 1} = layer_state

\* No key is looked up on a layer that is off, whatever the array holds, except
\* on layer 0 if no layer has anything at its place.
OnlyActive ==
  \A k \in Keys : active_layer_keymap[k] \in layer_state \cup {0}

\* The keys the firmware takes for held: a key of which the scan has not come
\* by is as it was in the previous cycle.
Held == {k \in Keys : k \in (IF cursor \in 1 .. k THEN wasDown ELSE isDown)}

\* Comment of layers.h: a key keeps its meaning while it is held, also when the
\* layer it was pressed on goes away.
HeldKeepsKey == [][\A k \in Held \cap Held' : live'[k] = live[k]]_vars

ShiftsTo(k, l) == k \in Held /\ live[k] = [kind |-> "shift", layer |-> l]

\* A layer whose ShiftToLayer key stays down comes back whenever another key or
\* the host has turned it off.
ShiftHolds ==
  \A k \in Keys, l \in Layers : <>[] ShiftsTo(k, l) => []<>(l \in layer_state)

\* A keyboard that never moves to a layer and never turns layer 0 off: it has no
\* MoveToLayer, next or previous key and no ShiftToLayer(0).
Orderly ==
  /\ \A l \in Layers, k \in Keys :
       LET e == Keymap[l][k]
       IN  e.kind \in {"key", "transparent", "lock"} \/ (e.kind = "shift" /\ e.layer # 0)
  /\ \A c \in Commands : c.op = "activate" \/ (c.op = "deactivate" /\ c.layer # 0)

\* The array and the caches implement the stack of layers of LayerStack.
Stack ==
  INSTANCE LayerStack WITH
    order <- [i \in 1 .. active_layer_count |-> active_layers[i - 1]],
    code  <- [k \in Held |-> live[k]]
StackSpec == Stack!Spec
===============================================================================
