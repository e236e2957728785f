---------------------------- MODULE KeyLayers_proof ----------------------------
(***************************************************************************)
(* Proofs about KeyLayers, for every keymap and every number of keys and   *)
(* layers.                                                                 *)
(***************************************************************************)
EXTENDS KeyLayers, FiniteSetTheorems, WellFoundedInduction, SequenceTheorems, TLAPS

USE LayersAssumption DEF LayersAssumption
-------------------------------------------------------------------------------
(***************************************************************************)
(* The layers by themselves: what activate(), deactivate() and move() keep.*)
(***************************************************************************)
LayersOK ==
  /\ layer_state \subseteq Layers
  /\ active_layer_count \in 0 .. LayerCount
  /\ active_layers \in [0 .. ArraySize - 1 -> Layers]
  /\ active_layer_keymap \in [Keys -> Layers]

LInv == LayersOK /\ CountAgrees /\ OnlyActive

\* A set of places that is not empty has a last one, and Last finds it: of the
\* sets of places behind a member, take one that includes no other.
LEMMA LastOf ==
  ASSUME NEW n \in Nat, NEW S \in SUBSET (0 .. n), S # {}
  PROVE  Last(S) \in S /\ \A j \in S : j <= Last(S)
<1> DEFINE R == StrictSubsetOrdering(0 .. n)
           T == {i + 1 .. n : i \in S}
<1>1. IsWellFoundedOn(R, SUBSET (0 .. n))
  <2>1. IsFiniteSet(0 .. n)
    BY FS_Interval
  <2>2. FiniteSubsetsOf(0 .. n) = SUBSET (0 .. n)
    BY <2>1, FS_FiniteSubsetsOfFinite
  <2> QED  BY <2>2, FS_StrictSubsetOrderingWellFounded
<1>2. \A i \in S : i \in Nat /\ i <= n /\ i + 1 .. n \in SUBSET (0 .. n)
  OBVIOUS
<1>3. T \subseteq SUBSET (0 .. n) /\ T # {}
  BY <1>2
<1>4. PICK t \in T : \A u \in T : <<u, t>> \notin R
  <2> HIDE DEF R, T
  <2> QED  BY <1>1, <1>3, WFMin
<1>5. PICK i \in S : t = i + 1 .. n
  OBVIOUS
<1>6. ASSUME NEW j \in S PROVE j <= i
  <2>1. SUFFICES ASSUME j > i PROVE FALSE
    BY <1>2
  <2>2. j + 1 .. n \subseteq i + 1 .. n /\ j \in i + 1 .. n /\ j \notin j + 1 .. n
    BY <1>2, <2>1
  <2>3. <<j + 1 .. n, i + 1 .. n>> \in R
    BY <1>2, <2>2 DEF StrictSubsetOrdering
  <2> QED  BY <1>4, <1>5, <2>3
<1> QED  BY <1>6 DEF Last

\* The keymap cache names a layer that is on, or layer 0.
LEMMA CacheOK ==
  ASSUME UpdateActiveLayers, active_layer_count' \in 0 .. LayerCount,
         active_layers' \in [0 .. ArraySize - 1 -> Layers]
  PROVE  active_layer_keymap' \in [Keys -> Layers] /\ OnlyActive'
<1> DEFINE found(k) == {i \in 0 .. active_layer_count' - 1 : Opaque(active_layers'[i], k)}
           entry(k) == IF found(k) = {} THEN 0 ELSE active_layers'[Last(found(k))]
<1>1. active_layer_keymap' = [k \in Keys |-> entry(k)]
  BY DEF UpdateActiveLayers
<1>2. ASSUME NEW k \in Keys PROVE entry(k) \in Layers /\ entry(k) \in layer_state' \cup {0}
  <2>1. CASE found(k) = {}
    BY <2>1 DEF Layers
  <2>2. CASE found(k) # {}
    <3>1. found(k) \in SUBSET (0 .. LayerCount) /\ LayerCount \in Nat
      OBVIOUS
    <3>2. Last(found(k)) \in found(k)
      <4> HIDE DEF found
      <4> QED  BY <3>1, <2>2, LastOf
    <3>3. Last(found(k)) \in 0 .. ArraySize - 1 /\ active_layers'[Last(found(k))] \in layer_state'
      BY <3>2 DEF Opaque
    <3>4. entry(k) = active_layers'[Last(found(k))]
      BY <2>2
    <3> HIDE DEF found, entry
    <3> QED  BY <3>3, <3>4
  <2> HIDE DEF found, entry
  <2> QED  BY <2>1, <2>2
<1> HIDE DEF entry
<1> QED  BY <1>1, <1>2 DEF OnlyActive

LEMMA FiniteLayers ==
  /\ IsFiniteSet(Layers) /\ Cardinality(Layers) = LayerCount
  /\ \A S \in SUBSET Layers : IsFiniteSet(S) /\ Cardinality(S) \in 0 .. LayerCount
<1>1. IsFiniteSet(Layers) /\ Cardinality(Layers) = LayerCount
  BY FS_Interval DEF Layers
<1>2. ASSUME NEW S \in SUBSET Layers PROVE IsFiniteSet(S) /\ Cardinality(S) \in 0 .. LayerCount
  BY <1>1, FS_Subset, FS_CardinalityType
<1> QED  BY <1>1, <1>2

LEMMA ActivateKeeps ==
  ASSUME LInv, NEW l \in Nat, Activate(l)
  PROVE  LInv'
<1>1. CASE ~ Activates(l)
  BY <1>1 DEF LInv, LayersOK, CountAgrees, OnlyActive, Activate, layers
<1>2. CASE Activates(l)
  <2>1. /\ layer_state' = layer_state \cup {l}
        /\ active_layers' = [active_layers EXCEPT ![active_layer_count] = l]
        /\ active_layer_count' = active_layer_count + 1
        /\ UpdateActiveLayers
        /\ l \in Layers /\ l \notin layer_state
    BY <1>2 DEF Activate, Activates, Layers
  <2>2. layer_state' \subseteq Layers
    BY <2>1 DEF LInv, LayersOK
  <2>3. Cardinality(layer_state') = Cardinality(layer_state) + 1
    BY <2>1, FiniteLayers, FS_AddElement DEF LInv, LayersOK
  <2>4. CountAgrees' /\ active_layer_count' \in 0 .. LayerCount
    BY <2>1, <2>2, <2>3, FiniteLayers DEF LInv, CountAgrees
  <2>5. active_layers' \in [0 .. ArraySize - 1 -> Layers]
    BY <2>1 DEF LInv, LayersOK
  <2> QED  BY <2>1, <2>2, <2>4, <2>5, CacheOK DEF LInv, LayersOK
<1> QED  BY <1>1, <1>2

LEMMA FoundPlace ==
  ASSUME LayersOK, NEW l
  PROVE  Found(l) \in 0 .. active_layer_count
<1> DEFINE places == {i \in 1 .. active_layer_count : active_layers[i] = l}
<1>1. Found(l) = IF places = {} THEN 0 ELSE Last(places)
  BY DEF Found
<1>2. active_layer_count \in Nat /\ places \in SUBSET (0 .. active_layer_count)
  BY DEF LayersOK
<1>3. places # {} => Last(places) \in places
  <2> HIDE DEF places
  <2> QED  BY <1>2, LastOf
<1>4. 0 \in 0 .. active_layer_count
  BY <1>2
<1> HIDE DEF places
<1> QED  BY <1>1, <1>2, <1>3, <1>4

LEMMA DeactivateKeeps ==
  ASSUME LInv, NEW l, Deactivate(l)
  PROVE  LInv'
<1>1. CASE l \notin layer_state
  BY <1>1 DEF LInv, LayersOK, CountAgrees, OnlyActive, Deactivate, layers
<1>2. CASE l \in layer_state
  <2>1. /\ layer_state' = layer_state \ {l}
        /\ active_layers' =
             [i \in DOMAIN active_layers |->
                active_layers[IF i \in Found(l) .. active_layer_count - 1 THEN i + 1 ELSE i]]
        /\ active_layer_count' = active_layer_count - 1
        /\ UpdateActiveLayers
    BY <1>2 DEF Deactivate
  <2>2. layer_state' \subseteq Layers
    BY <2>1 DEF LInv, LayersOK
  <2>3. Cardinality(layer_state') = Cardinality(layer_state) - 1
    BY <1>2, <2>1, FiniteLayers, FS_RemoveElement DEF LInv, LayersOK
  <2>4. CountAgrees' /\ active_layer_count' \in 0 .. LayerCount
    BY <2>1, <2>2, <2>3, FiniteLayers DEF LInv, CountAgrees
  <2>5. active_layers' \in [0 .. ArraySize - 1 -> Layers]
    BY <2>1, FoundPlace DEF LInv, LayersOK
  <2> QED  BY <2>1, <2>2, <2>4, <2>5, CacheOK DEF LInv, LayersOK
<1> QED  BY <1>1, <1>2

LEMMA MoveKeeps ==
  ASSUME LInv, NEW l \in Nat, Move(l)
  PROVE  LInv'
<1>1. MovesTo(l) \in Layers
  BY DEF MovesTo, Layers
<1>2. /\ layer_state' = {MovesTo(l)}
      /\ active_layer_count' = 1
      /\ active_layers' = [active_layers EXCEPT ![0] = MovesTo(l)]
      /\ UpdateActiveLayers
  BY DEF Move
<1>3. CountAgrees'
  BY <1>2, FS_Singleton DEF CountAgrees
<1>4. active_layers' \in [0 .. ArraySize - 1 -> Layers]
  BY <1>1, <1>2 DEF LInv, LayersOK
<1> QED  BY <1>1, <1>2, <1>3, <1>4, CacheOK DEF LInv, LayersOK
-------------------------------------------------------------------------------
(***************************************************************************)
(* The loop: the types, the count and the caches, for every keymap.        *)
(***************************************************************************)
ScanOK ==
  /\ wasDown \subseteq Keys /\ isDown \subseteq Keys
  /\ cursor \in 0 .. KeyCount + 1
  /\ live \in [Keys -> Entries]

IInv == ScanOK /\ LInv

LEMMA EntriesHaveTargets ==
  ASSUME LayersOK, NEW e \in Entries, NEW k
  PROVE  TurnsOn(e, k) \subseteq Nat /\ (e.kind = "move" => e.layer \in Nat)
<1>1. /\ e.kind \in {"shift", "lock", "move"} => e.layer \in Nat
      /\ e.kind \in {"key", "shift", "lock", "move", "next", "previous", "transparent"}
  BY DEF Entries, Switches, Targets, Transparent
<1>2. MostRecent \subseteq Nat \cup {-1}
  BY DEF MostRecent, LayersOK, Layers, Targets
<1>3. CASE e.kind \in {"next", "previous"}
  BY <1>2, <1>3 DEF TurnsOn
<1>4. CASE e.kind \in {"shift", "lock"}
  BY <1>1, <1>4 DEF TurnsOn, Set
<1>5. CASE e.kind \in {"key", "move", "transparent"}
  BY <1>1, <1>5 DEF TurnsOn
<1> QED  BY <1>1, <1>3, <1>4, <1>5

LEMMA EventKeeps ==
  ASSUME LInv, NEW e \in Entries, NEW k, EventHandler(e, k)
  PROVE  LInv'
<1>1. ASSUME NEW l \in TurnsOn(e, k), Activate(l) PROVE LInv'
  BY <1>1, EntriesHaveTargets, ActivateKeeps DEF LInv
<1>2. ASSUME NEW l \in TurnsOff(e, k), Deactivate(l) PROVE LInv'
  BY <1>2, DeactivateKeeps
<1>3. CASE Moves(e, k) /\ Move(e.layer)
  BY <1>3, EntriesHaveTargets, MoveKeeps DEF LInv, Moves
<1>4. CASE UNCHANGED layers
  BY <1>4 DEF LInv, LayersOK, CountAgrees, OnlyActive, layers
<1> QED  BY <1>1, <1>2, <1>3, <1>4 DEF EventHandler

LEMMA HandleKeyKeeps ==
  ASSUME IInv, NEW k \in Keys, HandleKey(k)
  PROVE  IInv'
<1>1. Keymap[active_layer_keymap[k]][k] \in Entries
  BY DEF IInv, LInv, LayersOK
<1>2. live' \in [Keys -> Entries]
  BY <1>1 DEF HandleKey, IInv, ScanOK
<1>3. ScanOK'
  BY <1>2 DEF HandleKey, Advance, IInv, ScanOK, Keys
<1>4. LInv'
  BY <1>2, EventKeeps DEF HandleKey, IInv
<1> QED  BY <1>3, <1>4 DEF IInv

LEMMA FocusEventKeeps ==
  ASSUME IInv, NEW c \in Commands, FocusEvent(c)
  PROVE  IInv'
<1>1. c.op \in {"activate", "deactivate", "moveTo"} /\ c.layer \in Nat
  BY DEF Orders, Targets
<1>2. ScanOK'
  BY DEF FocusEvent, EndOfCycle, IInv, ScanOK
<1>3. LInv
  BY DEF IInv
<1>4. ASSUME c.op = "activate" PROVE LInv'
  BY <1>1, <1>3, <1>4, ActivateKeeps DEF FocusEvent
<1>5. ASSUME c.op = "deactivate" PROVE LInv'
  BY <1>1, <1>3, <1>5, DeactivateKeeps DEF FocusEvent
<1>6. ASSUME c.op = "moveTo" PROVE LInv'
  BY <1>1, <1>3, <1>6, MoveKeeps DEF FocusEvent
<1> QED  BY <1>1, <1>2, <1>4, <1>5, <1>6 DEF IInv

LEMMA Begins == Init => IInv
<1> SUFFICES ASSUME Init PROVE IInv
  OBVIOUS
<1>1. ScanOK
  BY DEF Init, ScanOK, Keys, Layers
<1>2. LayersOK /\ OnlyActive
  BY DEF Init, LayersOK, OnlyActive, Layers
<1>3. CountAgrees
  BY FS_Singleton DEF Init, CountAgrees
<1> QED  BY <1>1, <1>2, <1>3 DEF IInv, LInv

LEMMA Steps == IInv /\ [Next]_vars => IInv'
<1> SUFFICES ASSUME IInv, [Next]_vars PROVE IInv'
  OBVIOUS
<1>1. CASE ReadMatrix
  BY <1>1 DEF ReadMatrix, layers, IInv, ScanOK, LInv, LayersOK, CountAgrees, OnlyActive
<1>2. ASSUME NEW k \in Keys, HandleKey(k) PROVE IInv'
  BY <1>2, HandleKeyKeeps
<1>3. ASSUME NEW k \in Keys, SkipKey(k) PROVE IInv'
  BY <1>3 DEF SkipKey, Advance, Keys, layers, IInv, ScanOK, LInv, LayersOK, CountAgrees, OnlyActive
<1>4. ASSUME NEW c \in Commands, FocusEvent(c) PROVE IInv'
  BY <1>4, FocusEventKeeps
<1>5. CASE SendReport
  BY <1>5 DEF SendReport, EndOfCycle, layers, IInv, ScanOK, LInv, LayersOK, CountAgrees, OnlyActive
<1>6. CASE UNCHANGED vars
  BY <1>6 DEF vars, scan, layers, IInv, ScanOK, LInv, LayersOK, CountAgrees, OnlyActive
<1> QED  BY <1>1, <1>2, <1>3, <1>4, <1>5, <1>6 DEF Next

THEOREM Invariance == Spec => []IInv
  BY Begins, Steps, PTL DEF Spec

\* Every variable keeps its type, and deactivate() stays inside its array.
THEOREM TypeCorrect == Spec => []TypeOK
<1>1. IInv => TypeOK
  BY DEF IInv, LInv, ScanOK, LayersOK, TypeOK
<1> QED  BY <1>1, Invariance, PTL

\* active_layer_count_ is the number of layers that are on, for every keymap.
THEOREM CountAgreesCorrect == Spec => []CountAgrees
<1>1. IInv => CountAgrees
  BY DEF IInv, LInv
<1> QED  BY <1>1, Invariance, PTL

\* No key is looked up on a layer that is off, for every keymap.
THEOREM OnlyActiveCorrect == Spec => []OnlyActive
<1>1. IInv => OnlyActive
  BY DEF IInv, LInv
<1> QED  BY <1>1, Invariance, PTL

\* A held key keeps its meaning, for every keymap.
THEOREM HeldKeepsKeyCorrect == Spec => HeldKeepsKey
<1>1. ASSUME IInv, [Next]_vars PROVE [\A k \in Held \cap Held' : live'[k] = live[k]]_vars
  <2> SUFFICES ASSUME NEW k \in Held, k \in Held' PROVE live'[k] = live[k]
    OBVIOUS
  <2> k \in Keys
    BY DEF Held
  <2>1. CASE ReadMatrix
    BY <2>1 DEF ReadMatrix
  <2>2. ASSUME NEW q \in Keys, HandleKey(q) PROVE live'[k] = live[k]
    <3>1. k = q => ~ LooksUp(k)
      BY <2>2 DEF HandleKey, Advance, Held, LooksUp, ToggledOn, Keys
    <3>2. live' = [live EXCEPT ![q] = IF LooksUp(q) THEN Keymap[active_layer_keymap[q]][q] ELSE @]
      BY <2>2 DEF HandleKey
    <3> QED  BY <1>1, <3>1, <3>2 DEF IInv, ScanOK
  <2>3. ASSUME NEW q \in Keys, SkipKey(q) PROVE live'[k] = live[k]
    BY <2>3 DEF SkipKey
  <2>4. ASSUME NEW c \in Commands, FocusEvent(c) PROVE live'[k] = live[k]
    BY <2>4 DEF FocusEvent, EndOfCycle
  <2>5. CASE SendReport
    BY <2>5 DEF SendReport, EndOfCycle
  <2>6. CASE UNCHANGED vars
    BY <2>6 DEF vars
  <2> QED  BY <1>1, <2>1, <2>2, <2>3, <2>4, <2>5, <2>6 DEF Next
<1> QED  BY <1>1, Invariance, PTL DEF Spec, HeldKeepsKey
-------------------------------------------------------------------------------
(***************************************************************************)
(* An orderly keyboard: the array names the layers that are on, once each  *)
(* and layer 0 first, and holds zeros behind them.  A deactivation then    *)
(* finds the entry of its layer, because the entry behind those in use,    *)
(* where its search begins, cannot name that layer.                        *)
(***************************************************************************)
Used == 0 .. active_layer_count - 1

Listed ==
  /\ active_layer_count > 0 /\ active_layers[0] = 0
  /\ \A i \in Used : active_layers[i] \in layer_state
  /\ \A l \in layer_state : \E i \in Used : active_layers[i] = l
  /\ \A i, j \in Used : active_layers[i] = active_layers[j] => i = j
  /\ \A i \in (0 .. ArraySize - 1) \ Used : active_layers[i] = 0

PlainEntry(e) == e.kind \in {"key", "transparent", "lock"} \/ (e.kind = "shift" /\ e.layer # 0)

LiveIsPlain == \A k \in Keys : PlainEntry(live[k])

\* The layer that entry i is found to be for key k, and the cached answer.
Answers(k) == {i \in Used : active_layers[i] \in layer_state /\ Keymap[active_layers[i]][k] # Transparent}

CacheFresh ==
  \A k \in Keys :
    active_layer_keymap[k] = IF Answers(k) = {} THEN 0 ELSE active_layers[Last(Answers(k))]

OInv == Listed /\ CacheFresh

LEMMA UpdateIsFresh ==
  ASSUME UpdateActiveLayers
  PROVE  CacheFresh'
  BY DEF UpdateActiveLayers, CacheFresh, Answers, Used, Opaque

LEMMA UnchangedLists ==
  ASSUME OInv, UNCHANGED layers
  PROVE  OInv'
<1>1. /\ layer_state' = layer_state /\ active_layer_count' = active_layer_count
      /\ active_layers' = active_layers /\ active_layer_keymap' = active_layer_keymap
  BY DEF layers
<1>2. Used' = Used /\ \A k : Answers(k)' = Answers(k)
  BY <1>1 DEF Used, Answers
<1> QED  BY <1>1, <1>2 DEF OInv, Listed, CacheFresh

LEMMA ActivateLists ==
  ASSUME LInv, OInv, NEW l \in Nat, Activate(l)
  PROVE  OInv'
<1>1. CASE ~ Activates(l)
  BY <1>1, UnchangedLists DEF Activate
<1>2. CASE Activates(l)
  <2>1. /\ layer_state' = layer_state \cup {l}
        /\ active_layers' = [active_layers EXCEPT ![active_layer_count] = l]
        /\ active_layer_count' = active_layer_count + 1
        /\ UpdateActiveLayers
        /\ l \notin layer_state
    BY <1>2 DEF Activate, Activates
  <2>2. /\ active_layer_count \in 0 .. ArraySize - 1
        /\ active_layers \in [0 .. ArraySize - 1 -> Layers]
    BY DEF LInv, LayersOK
  <2>3. /\ \A i \in Used : active_layers'[i] = active_layers[i]
        /\ active_layers'[active_layer_count] = l
        /\ Used' = Used \cup {active_layer_count}
        /\ \A i \in (0 .. ArraySize - 1) \ Used' : active_layers'[i] = active_layers[i]
    BY <2>1, <2>2 DEF Used
  <2>4. active_layer_count' > 0 /\ active_layers'[0] = 0
    BY <2>1, <2>2, <2>3 DEF OInv, Listed, Used
  <2>5. \A i \in Used' : active_layers'[i] \in layer_state'
    BY <2>1, <2>3 DEF OInv, Listed
  <2>6. \A m \in layer_state' : \E i \in Used' : active_layers'[i] = m
    BY <2>1, <2>3 DEF OInv, Listed
  <2>7. \A i, j \in Used' : active_layers'[i] = active_layers'[j] => i = j
    BY <2>1, <2>3 DEF OInv, Listed
  <2>8. \A i \in (0 .. ArraySize - 1) \ Used' : active_layers'[i] = 0
    BY <2>3 DEF OInv, Listed
  <2> QED  BY <2>1, <2>4, <2>5, <2>6, <2>7, <2>8, UpdateIsFresh DEF OInv, Listed
<1> QED  BY <1>1, <1>2

\* The search of deactivate() finds the place of a layer that is on.
LEMMA FoundIsPlace ==
  ASSUME LInv, OInv, NEW l \in layer_state, l # 0
  PROVE  /\ Found(l) \in 1 .. active_layer_count - 1
         /\ active_layers[Found(l)] = l
<1> DEFINE places == {i \in 1 .. active_layer_count : active_layers[i] = l}
<1>1. PICK p \in Used : active_layers[p] = l
  BY DEF OInv, Listed
<1>2. active_layer_count \in Nat /\ active_layer_count \in 0 .. ArraySize - 1
  BY DEF LInv, LayersOK
<1>3. p \in places
  BY <1>1, <1>2 DEF OInv, Listed, Used
<1>4. active_layers[active_layer_count] # l
  BY <1>2 DEF OInv, Listed, Used
<1>5. Found(l) = Last(places)
  BY <1>3 DEF Found
<1>6. Last(places) \in places
  <2>1. places \in SUBSET (0 .. active_layer_count)
    OBVIOUS
  <2> HIDE DEF places
  <2> QED  BY <1>2, <1>3, <2>1, LastOf
<1> QED  BY <1>2, <1>4, <1>5, <1>6

\* What deactivate() makes of the array, place by place.
LEMMA DeactivateShifts ==
  ASSUME LInv, OInv, NEW l \in layer_state, l # 0, Deactivate(l)
  PROVE  /\ layer_state' = layer_state \ {l}
         /\ active_layer_count' = active_layer_count - 1
         /\ UpdateActiveLayers
         /\ \A i \in 0 .. ArraySize - 1 :
              active_layers'[i] = IF i < Found(l) \/ i >= active_layer_count
                                  THEN active_layers[i] ELSE active_layers[i + 1]
<1>1. /\ layer_state' = layer_state \ {l}
      /\ active_layer_count' = active_layer_count - 1
      /\ active_layers' =
           [i \in DOMAIN active_layers |->
              active_layers[IF i \in Found(l) .. active_layer_count - 1 THEN i + 1 ELSE i]]
      /\ UpdateActiveLayers
  BY DEF Deactivate
<1>2. Found(l) \in 1 .. active_layer_count - 1 /\ active_layer_count \in Nat
  BY FoundIsPlace DEF LInv, LayersOK
<1>3. DOMAIN active_layers = 0 .. ArraySize - 1
  BY DEF LInv, LayersOK
<1> QED  BY <1>1, <1>2, <1>3

LEMMA DeactivateLists ==
  ASSUME LInv, OInv, NEW l, l # 0, Deactivate(l)
  PROVE  OInv'
<1>1. CASE l \notin layer_state
  BY <1>1, UnchangedLists DEF Deactivate
<1>2. CASE l \in layer_state
  <2> DEFINE p == Found(l)
             from(i) == IF i < p THEN i ELSE i + 1
  <2>1. /\ layer_state' = layer_state \ {l}
        /\ active_layer_count' = active_layer_count - 1
        /\ UpdateActiveLayers
        /\ \A i \in 0 .. ArraySize - 1 :
             active_layers'[i] = IF i < p \/ i >= active_layer_count
                                 THEN active_layers[i] ELSE active_layers[i + 1]
    BY <1>2, DeactivateShifts
  <2>2. p \in 1 .. active_layer_count - 1 /\ active_layers[p] = l
    BY <1>2, FoundIsPlace
  <2>3. active_layer_count \in 0 .. ArraySize - 1
    BY DEF LInv, LayersOK
  <2> HIDE DEF p
  <2>4. \A i \in Used' : /\ from(i) \in Used \ {p}
                         /\ active_layers'[i] = active_layers[from(i)]
    BY <2>1, <2>2, <2>3 DEF Used
  <2>5. \A i \in Used \ {p} : \E j \in Used' : from(j) = i
    <3> TAKE i \in Used \ {p}
    <3>1. i < p => i \in Used' /\ from(i) = i
      BY <2>1, <2>2, <2>3 DEF Used
    <3>2. i > p => i - 1 \in Used' /\ from(i - 1) = i
      BY <2>1, <2>2, <2>3 DEF Used
    <3>3. i < p \/ i > p
      BY <2>2, <2>3 DEF Used
    <3> QED  BY <3>1, <3>2, <3>3
  <2>6. \A i, j \in Used' : from(i) = from(j) => i = j
    BY <2>1, <2>2, <2>3 DEF Used
  <2>7. active_layer_count' > 0 /\ active_layers'[0] = 0
    BY <2>1, <2>2, <2>3 DEF OInv, Listed
  <2>8. \A i \in Used' : active_layers'[i] \in layer_state'
    BY <2>1, <2>2, <2>4 DEF OInv, Listed, Used
  <2>9. \A m \in layer_state' : \E i \in Used' : active_layers'[i] = m
    <3> TAKE m \in layer_state'
    <3>1. PICK i \in Used : active_layers[i] = m
      BY <2>1 DEF OInv, Listed
    <3>2. i # p
      BY <2>1, <2>2, <3>1
    <3>3. PICK j \in Used' : from(j) = i
      BY <2>5, <3>2
    <3> QED  BY <2>4, <3>1, <3>3
  <2>10. \A i, j \in Used' : active_layers'[i] = active_layers'[j] => i = j
    <3> SUFFICES ASSUME NEW i \in Used', NEW j \in Used', active_layers'[i] = active_layers'[j]
                 PROVE  i = j
      OBVIOUS
    <3>1. from(i) \in Used /\ from(j) \in Used /\ active_layers[from(i)] = active_layers[from(j)]
      BY <2>4
    <3>2. from(i) = from(j)
      <4> HIDE DEF from
      <4> QED  BY <3>1 DEF OInv, Listed
    <3> QED  BY <2>6, <3>2
  <2>11. \A i \in (0 .. ArraySize - 1) \ Used' : active_layers'[i] = 0
    BY <2>1, <2>2, <2>3 DEF OInv, Listed, Used
  <2> QED  BY <2>1, <2>7, <2>8, <2>9, <2>10, <2>11, UpdateIsFresh DEF OInv, Listed
<1> QED  BY <1>1, <1>2

(***************************************************************************)
(* The loop of an orderly keyboard.                                        *)
(***************************************************************************)
OrderlyInv == IInv /\ OInv /\ LiveIsPlain

LEMMA OrderlyBegins == Orderly /\ Init => OrderlyInv
<1> SUFFICES ASSUME Orderly, Init PROVE OrderlyInv
  OBVIOUS
<1>1. Used = {0}
  BY DEF Init, Used
<1>2. Listed
  BY <1>1 DEF Init, Listed
<1>3. CacheFresh
  <2> SUFFICES ASSUME NEW k \in Keys, Answers(k) # {} PROVE active_layers[Last(Answers(k))] = 0
    BY DEF Init, CacheFresh
  <2>1. Answers(k) \in SUBSET (0 .. 0)
    BY <1>1 DEF Answers
  <2>2. Last(Answers(k)) \in Answers(k)
    BY <2>1, LastOf
  <2> QED  BY <1>1, <2>2 DEF Init, Answers
<1>4. LiveIsPlain
  BY DEF Init, Orderly, LiveIsPlain, PlainEntry, Layers
<1> QED  BY <1>2, <1>3, <1>4, Begins DEF OrderlyInv, OInv

LEMMA PlainEvent ==
  ASSUME LInv, OInv, NEW e \in Entries, PlainEntry(e), NEW k, EventHandler(e, k)
  PROVE  OInv'
<1>1. e.kind \in {"key", "transparent", "lock", "shift"}
  BY DEF PlainEntry
<1>2. ASSUME NEW l \in TurnsOn(e, k), Activate(l) PROVE OInv'
  BY <1>2, EntriesHaveTargets, ActivateLists DEF LInv
<1>3. ASSUME NEW l \in TurnsOff(e, k), Deactivate(l) PROVE OInv'
  <2>1. l # 0
    BY <1>1 DEF PlainEntry, TurnsOff, Set
  <2> QED  BY <1>3, <2>1, DeactivateLists
<1>4. ~ Moves(e, k)
  BY <1>1 DEF Moves
<1> QED  BY <1>2, <1>3, <1>4, UnchangedLists DEF EventHandler

LEMMA OrderlySteps == Orderly /\ OrderlyInv /\ [Next]_vars => OrderlyInv'
<1> SUFFICES ASSUME Orderly, OrderlyInv, [Next]_vars PROVE OInv' /\ LiveIsPlain'
  BY Steps DEF OrderlyInv
<1>1. LInv /\ OInv /\ LiveIsPlain
  BY DEF OrderlyInv, IInv
<1>2. CASE UNCHANGED <<layers, live>>
  BY <1>1, <1>2, UnchangedLists DEF LiveIsPlain
<1>3. ASSUME NEW k \in Keys, HandleKey(k) PROVE OInv' /\ LiveIsPlain'
  <2>1. Keymap[active_layer_keymap[k]][k] \in Entries /\ PlainEntry(Keymap[active_layer_keymap[k]][k])
    BY <1>1 DEF LInv, LayersOK, Orderly, PlainEntry
  <2>2. /\ live' = [live EXCEPT ![k] = IF LooksUp(k) THEN Keymap[active_layer_keymap[k]][k] ELSE @]
        /\ EventHandler(live'[k], k)
    BY <1>3 DEF HandleKey
  <2>3. LiveIsPlain' /\ live'[k] \in Entries
    BY <1>1, <2>1, <2>2 DEF LiveIsPlain, OrderlyInv, IInv, ScanOK
  <2> QED  BY <1>1, <2>2, <2>3, PlainEvent DEF LiveIsPlain
<1>4. ASSUME NEW c \in Commands, FocusEvent(c) PROVE OInv' /\ LiveIsPlain'
  <2>1. c.layer \in Nat /\ (c.op = "activate" \/ (c.op = "deactivate" /\ c.layer # 0))
    BY DEF Orderly, Orders, Targets
  <2>2. LiveIsPlain'
    BY <1>1, <1>4 DEF FocusEvent, EndOfCycle, LiveIsPlain
  <2>3. ASSUME c.op = "activate" PROVE OInv'
    BY <1>1, <1>4, <2>1, <2>3, ActivateLists DEF FocusEvent
  <2>4. ASSUME c.op = "deactivate", c.layer # 0 PROVE OInv'
    BY <1>1, <1>4, <2>4, DeactivateLists DEF FocusEvent
  <2> QED  BY <2>1, <2>2, <2>3, <2>4
<1>5. ASSUME NEW k \in Keys, SkipKey(k) PROVE OInv' /\ LiveIsPlain'
  BY <1>2, <1>5 DEF SkipKey
<1>6. CASE ReadMatrix
  BY <1>2, <1>6 DEF ReadMatrix
<1>7. CASE SendReport
  BY <1>2, <1>7 DEF SendReport, EndOfCycle
<1>8. CASE UNCHANGED vars
  BY <1>2, <1>8 DEF vars
<1> QED  BY <1>3, <1>4, <1>5, <1>6, <1>7, <1>8 DEF Next

THEOREM OrderlyInvariance ==
  ASSUME Orderly
  PROVE  Spec => []OrderlyInv
<1>1. Init => OrderlyInv
  BY OrderlyBegins
<1>2. OrderlyInv /\ [Next]_vars => OrderlyInv'
  BY OrderlySteps
<1> QED  BY <1>1, <1>2, PTL DEF Spec

\* On an orderly keyboard the array names exactly the layers that are on.
THEOREM ListAgreesCorrect ==
  ASSUME Orderly
  PROVE  Spec => []ListAgrees
<1>1. OrderlyInv => ListAgrees
  BY DEF OrderlyInv, OInv, Listed, Used, ListAgrees
<1>2. Spec => []OrderlyInv
  BY OrderlyInvariance
<1> QED  BY <1>1, <1>2, PTL
-------------------------------------------------------------------------------
(***************************************************************************)
(* An orderly keyboard implements the stack of layers of LayerStack.       *)
(***************************************************************************)
order == [i \in 1 .. active_layer_count |-> active_layers[i - 1]]
code  == [k \in Held |-> live[k]]

LEMMA OrderShape ==
  ASSUME LInv
  PROVE  /\ active_layer_count \in Nat /\ DOMAIN order = 1 .. active_layer_count
         /\ order \in Seq(Layers) /\ Len(order) = active_layer_count
         /\ \A i \in Used : i + 1 \in DOMAIN order /\ order[i + 1] = active_layers[i]
         /\ \A i \in DOMAIN order : i - 1 \in Used /\ order[i] = active_layers[i - 1]
<1>1. active_layer_count \in Nat /\ active_layer_count < ArraySize
  BY DEF LInv, LayersOK
<1>2. \A i \in 1 .. active_layer_count : i - 1 \in 0 .. ArraySize - 1 /\ active_layers[i - 1] \in Layers
  BY <1>1 DEF LInv, LayersOK
<1>3. order \in [1 .. active_layer_count -> Layers]
  BY <1>2 DEF order
<1>4. order \in Seq(Layers) /\ Len(order) = active_layer_count
  BY <1>1, <1>3
<1> QED  BY <1>1, <1>3, <1>4 DEF order, Used

LEMMA OrderUnchanged ==
  ASSUME UNCHANGED layers
  PROVE  order' = order
  BY DEF layers, order

LEMMA ActivateStacks ==
  ASSUME LInv, OInv, NEW l \in Nat, Activate(l)
  PROVE  Stack!Switch
<1>1. CASE ~ Activates(l)
  BY <1>1, OrderUnchanged DEF Activate, Stack!Switch, order
<1>2. CASE Activates(l)
  <2>1. /\ active_layers' = [active_layers EXCEPT ![active_layer_count] = l]
        /\ active_layer_count' = active_layer_count + 1
        /\ l \notin layer_state /\ l \in Layers
    BY <1>2 DEF Activate, Activates, Layers
  <2>2. /\ active_layer_count \in 0 .. ArraySize - 1
        /\ active_layers \in [0 .. ArraySize - 1 -> Layers]
    BY DEF LInv, LayersOK
  <2>3. order' = Append(order, l)
    <3>1. order' = [i \in 1 .. active_layer_count + 1 |-> IF i = active_layer_count + 1 THEN l ELSE order[i]]
      BY <2>1, <2>2 DEF order
    <3>2. order \in Seq(Layers) /\ Len(order) = active_layer_count
      BY OrderShape
    <3> DEFINE longer == [i \in 1 .. active_layer_count + 1 |-> IF i = active_layer_count + 1 THEN l ELSE order[i]]
    <3>3. longer \in Seq(Layers) /\ Append(order, l) \in Seq(Layers)
      BY <3>2, <2>1, <2>2
    <3>4. Len(longer) = active_layer_count + 1 /\ Len(Append(order, l)) = active_layer_count + 1
      <4>1. longer \in [1 .. active_layer_count + 1 -> Layers] /\ active_layer_count + 1 \in Nat
        BY <3>2, <2>1, <2>2
      <4> HIDE DEF longer
      <4>2. Len(longer) = active_layer_count + 1
        BY <4>1
      <4> QED  BY <4>2, <3>2, <2>1, AppendProperties
    <3>5. \A i \in 1 .. active_layer_count + 1 : longer[i] = Append(order, l)[i]
      BY <3>2, <2>2
    <3> HIDE DEF longer
    <3>6. longer = Append(order, l)
      BY <3>3, <3>4, <3>5, SeqEqual
    <3> QED  BY <3>1, <3>6 DEF longer
  <2>4. l \notin {order[i] : i \in DOMAIN order}
    BY <2>1, OrderShape DEF OInv, Listed
  <2> QED  BY <2>1, <2>3, <2>4 DEF Stack!Switch, Stack!On, order
<1> QED  BY <1>1, <1>2

LEMMA DeactivateStacks ==
  ASSUME LInv, OInv, NEW l, l # 0, Deactivate(l)
  PROVE  Stack!Switch
<1>1. CASE l \notin layer_state
  BY <1>1, OrderUnchanged DEF Deactivate, Stack!Switch, order
<1>2. CASE l \in layer_state
  <2> DEFINE p == Found(l) + 1
  <2>1. /\ active_layer_count' = active_layer_count - 1
        /\ \A i \in 0 .. ArraySize - 1 :
             active_layers'[i] = IF i < Found(l) \/ i >= active_layer_count
                                 THEN active_layers[i] ELSE active_layers[i + 1]
    BY <1>2, DeactivateShifts
  <2>2. Found(l) \in 1 .. active_layer_count - 1 /\ active_layers[Found(l)] = l
    BY <1>2, FoundIsPlace
  <2>3. active_layer_count \in 0 .. ArraySize - 1
    BY DEF LInv, LayersOK
  <2>4. p \in DOMAIN order /\ order[p] = l
    BY <2>2, <2>3, OrderShape
  <2>5. order' = [i \in 1 .. active_layer_count - 1 |-> order[IF i < p THEN i ELSE i + 1]]
    BY <2>1, <2>2, <2>3 DEF order
  <2>6. Len(order) = active_layer_count /\ l \in Layers
    BY <1>2, OrderShape DEF LInv, LayersOK
  <2> QED  BY <2>4, <2>5, <2>6 DEF Stack!Switch, Stack!Off, order
<1> QED  BY <1>1, <1>2

\* The keymap cache answers as the stack does.
LEMMA CacheStacks ==
  ASSUME LInv, OInv, NEW k \in Keys
  PROVE  Keymap[active_layer_keymap[k]][k] = Stack!LookUp(k)
<1> DEFINE top(l) == \E i \in DOMAIN order :
                       /\ order[i] = l /\ Keymap[l][k] # Transparent
                       /\ \A j \in DOMAIN order : j > i => Keymap[order[j]][k] = Transparent
<1>1. \A l : Stack!Topmost(l, k) <=> top(l)
  BY DEF Stack!Topmost, order
<1>2. \A i \in Used : active_layers[i] \in layer_state /\ active_layers[i] \in Layers
  BY DEF LInv, LayersOK, OInv, Listed
<1>3. CASE Answers(k) = {}
  <2>1. \A i \in Used : Keymap[active_layers[i]][k] = Transparent
    BY <1>2, <1>3 DEF Answers
  <2>2. \A l : ~ top(l)
    BY <2>1, OrderShape
  <2>3. active_layer_keymap[k] = 0
    BY <1>3 DEF OInv, CacheFresh
  <2> HIDE DEF top
  <2> QED  BY <1>1, <2>2, <2>3 DEF Stack!LookUp
<1>4. CASE Answers(k) # {}
  <2> DEFINE a == Last(Answers(k))
  <2>1. Answers(k) \in SUBSET (0 .. LayerCount)
    BY DEF Answers, Used, LInv, LayersOK
  <2>2. a \in Answers(k) /\ \A j \in Answers(k) : j <= a
    BY <1>4, <2>1, LastOf
  <2> HIDE DEF a
  <2>3. a \in Used /\ Keymap[active_layers[a]][k] # Transparent
    BY <2>2 DEF Answers
  <2>4. \A j \in Used : j > a => Keymap[active_layers[j]][k] = Transparent
    <3> SUFFICES ASSUME NEW j \in Used, j > a, Keymap[active_layers[j]][k] # Transparent PROVE FALSE
      OBVIOUS
    <3>1. j \in Answers(k)
      BY <1>2 DEF Answers
    <3>2. j <= a /\ a \in Int /\ j \in Int
      BY <2>2, <2>3, <3>1 DEF Used
    <3> QED  BY <3>2
  <2>5. top(active_layers[a])
    <3>1. a + 1 \in DOMAIN order /\ order[a + 1] = active_layers[a]
      BY <2>3, OrderShape
    <3>2. \A j \in DOMAIN order : j > a + 1 => Keymap[order[j]][k] = Transparent
      <4> TAKE j \in DOMAIN order
      <4>1. j - 1 \in Used /\ order[j] = active_layers[j - 1]
        BY OrderShape
      <4>2. j > a + 1 => j - 1 > a
        BY <2>3, OrderShape DEF Used
      <4> QED  BY <2>4, <4>1, <4>2
    <3> QED  BY <2>3, <3>1, <3>2
  <2>6. \A l : top(l) => l = active_layers[a]
    <3> SUFFICES ASSUME NEW l, top(l) PROVE l = active_layers[a]
      OBVIOUS
    <3>1. PICK i \in DOMAIN order :
            /\ order[i] = l /\ Keymap[l][k] # Transparent
            /\ \A j \in DOMAIN order : j > i => Keymap[order[j]][k] = Transparent
      OBVIOUS
    <3>2. a + 1 \in DOMAIN order /\ order[a + 1] = active_layers[a]
      BY <2>3, OrderShape
    <3>3. i - 1 \in Used /\ order[i] = active_layers[i - 1]
      BY OrderShape
    <3>4. ~ (a + 1 > i)
      BY <2>3, <3>1, <3>2
    <3>5. ~ (i - 1 > a)
      BY <2>4, <3>1, <3>3
    <3>6. i \in Int /\ a \in Int
      BY <2>3, OrderShape DEF Used
    <3>7. i = a + 1
      BY <3>4, <3>5, <3>6
    <3> QED  BY <3>1, <3>2, <3>7
  <2>7. active_layer_keymap[k] = active_layers[a] /\ active_layers[a] \in Layers
    BY <1>2, <1>4, <2>3 DEF OInv, CacheFresh, a
  <2> HIDE DEF top
  <2> QED  BY <1>1, <2>5, <2>6, <2>7 DEF Stack!LookUp
<1> QED  BY <1>3, <1>4

\* Handling a key takes it to be down if it is, instead of if it was.
LEMMA HandlingHeld ==
  ASSUME ScanOK, NEW k \in Keys, cursor = k, Advance
  PROVE  /\ k \in Held <=> k \in wasDown
         /\ Held' = IF k \in isDown THEN Held \cup {k} ELSE Held \ {k}
  BY DEF ScanOK, Held, Advance, Keys

LEMMA StacksBegin == Init => Stack!Init
<1> SUFFICES ASSUME Init PROVE order = <<0>> /\ code = <<>>
  BY DEF Stack!Init, order, code
<1>1. order = <<0>>
  BY DEF Init, order
<1>2. Held = {}
  BY DEF Init, Held
<1>3. code = <<>>
  BY <1>2 DEF code
<1> QED  BY <1>1, <1>3

LEMMA EventStacks ==
  ASSUME LInv, OInv, NEW e \in Entries, PlainEntry(e), NEW k, EventHandler(e, k)
  PROVE  Stack!Switch
<1>1. e.kind \in {"key", "transparent", "lock", "shift"}
  BY DEF PlainEntry
<1>2. ASSUME NEW l \in TurnsOn(e, k), Activate(l) PROVE Stack!Switch
  BY <1>2, EntriesHaveTargets, ActivateStacks DEF LInv
<1>3. ASSUME NEW l \in TurnsOff(e, k), Deactivate(l) PROVE Stack!Switch
  <2>1. l # 0
    BY <1>1 DEF PlainEntry, TurnsOff, Set
  <2> QED  BY <1>3, <2>1, DeactivateStacks
<1>4. ~ Moves(e, k)
  BY <1>1 DEF Moves
<1>5. CASE UNCHANGED layers
  BY <1>5, OrderUnchanged DEF Stack!Switch, order
<1> QED  BY <1>2, <1>3, <1>4, <1>5 DEF EventHandler

LEMMA HandleKeyStacks ==
  ASSUME Orderly, OrderlyInv, NEW k \in Keys, HandleKey(k)
  PROVE  Stack!Next
<1>1. LInv /\ OInv /\ LiveIsPlain /\ ScanOK
  BY DEF OrderlyInv, IInv
<1>2. /\ cursor = k /\ k \in wasDown \cup isDown /\ Advance
      /\ live' = [live EXCEPT ![k] = IF LooksUp(k) THEN Keymap[active_layer_keymap[k]][k] ELSE @]
      /\ EventHandler(live'[k], k)
  BY DEF HandleKey
<1>3. Keymap[active_layer_keymap[k]][k] \in Entries /\ PlainEntry(Keymap[active_layer_keymap[k]][k])
  BY <1>1 DEF LInv, LayersOK, Orderly, PlainEntry
<1>4. live'[k] \in Entries /\ PlainEntry(live'[k])
  BY <1>1, <1>2, <1>3 DEF ScanOK, LiveIsPlain
<1>5. Stack!Switch
  BY <1>1, <1>2, <1>4, EventStacks
<1>6. /\ k \in Held <=> k \in wasDown
      /\ Held' = IF k \in isDown THEN Held \cup {k} ELSE Held \ {k}
  BY <1>1, <1>2, HandlingHeld
<1>7. Held \subseteq Keys /\ DOMAIN code = Held
  BY DEF Held, code
<1>8. \A q \in Keys : q # k => live'[q] = live[q]
  BY <1>1, <1>2 DEF ScanOK
<1>9. CASE ToggledOn(k)
  <2>1. k \notin Held /\ Held' = Held \cup {k}
    BY <1>6, <1>9 DEF ToggledOn
  <2>2. live'[k] = Stack!LookUp(k)
    <3>1. live'[k] = Keymap[active_layer_keymap[k]][k]
      BY <1>1, <1>2, <1>9 DEF LooksUp, ScanOK
    <3> QED  BY <1>1, <3>1, CacheStacks
  <2>3. code' = [q \in Held \cup {k} |-> IF q = k THEN Stack!LookUp(k) ELSE code[q]]
    BY <1>7, <1>8, <2>1, <2>2 DEF code
  <2> QED  BY <1>5, <1>7, <2>1, <2>3 DEF Stack!Next, Stack!Press, code
<1>10. CASE ToggledOff(k)
  <2>1. k \in Held /\ Held' = Held \ {k}
    BY <1>6, <1>10 DEF ToggledOff
  <2>2. code' = [q \in Held \ {k} |-> code[q]]
    BY <1>7, <1>8, <2>1 DEF code
  <2> QED  BY <1>5, <1>7, <2>1, <2>2 DEF Stack!Next, Stack!Release, code
<1>11. CASE k \in wasDown /\ k \in isDown
  <2>1. Held' = Held
    BY <1>6, <1>11
  <2>2. live'[k] = live[k]
    BY <1>1, <1>2, <1>11 DEF LooksUp, ToggledOn, ScanOK
  <2>3. code' = code
    BY <1>7, <1>8, <2>1, <2>2 DEF code
  <2> QED  BY <1>5, <2>3 DEF Stack!Next, Stack!Other, code
<1> QED  BY <1>2, <1>9, <1>10, <1>11 DEF ToggledOn, ToggledOff

LEMMA StacksStep == Orderly /\ OrderlyInv /\ [Next]_vars => [Stack!Next]_(Stack!vars)
<1> SUFFICES ASSUME Orderly, OrderlyInv, [Next]_vars PROVE [Stack!Next]_(Stack!vars)
  OBVIOUS
<1>1. LInv /\ OInv /\ ScanOK
  BY DEF OrderlyInv, IInv
<1>2. ASSUME UNCHANGED <<layers, live>>, Held' = Held PROVE UNCHANGED Stack!vars
  BY <1>2, OrderUnchanged DEF Stack!vars, order
<1>3. CASE ReadMatrix
  <2>1. Held' = Held
    BY <1>3, <1>1 DEF ReadMatrix, Held, ScanOK, Keys
  <2> QED  BY <1>2, <1>3, <2>1 DEF ReadMatrix
<1>4. ASSUME NEW k \in Keys, HandleKey(k) PROVE Stack!Next
  BY <1>4, HandleKeyStacks
<1>5. ASSUME NEW k \in Keys, SkipKey(k) PROVE UNCHANGED Stack!vars
  <2>1. Held' = Held
    BY <1>1, <1>5, HandlingHeld, ZenonT(30) DEF SkipKey
  <2> QED  BY <1>2, <1>5, <2>1 DEF SkipKey
<1>6. EndOfCycle => Held' = Held
  BY DEF EndOfCycle, Held, Keys
<1>7. ASSUME NEW c \in Commands, FocusEvent(c) PROVE Stack!Next
  <2>1. c.layer \in Nat /\ (c.op = "activate" \/ (c.op = "deactivate" /\ c.layer # 0))
    BY DEF Orderly, Orders, Targets
  <2>2. code' = code
    BY <1>6, <1>7 DEF FocusEvent, EndOfCycle, code
  <2>3. ASSUME c.op = "activate" PROVE Stack!Switch
    BY <1>1, <1>7, <2>1, <2>3, ActivateStacks DEF FocusEvent
  <2>4. ASSUME c.op = "deactivate", c.layer # 0 PROVE Stack!Switch
    BY <1>1, <1>7, <2>4, DeactivateStacks DEF FocusEvent
  <2> QED  BY <2>1, <2>2, <2>3, <2>4 DEF Stack!Next, Stack!Other, code
<1>8. CASE SendReport
  BY <1>2, <1>6, <1>8 DEF SendReport, EndOfCycle
<1>9. CASE UNCHANGED vars
  <2>1. Held' = Held
    BY <1>9 DEF vars, scan, Held
  <2> QED  BY <1>2, <1>9, <2>1 DEF vars
<1> QED  BY <1>3, <1>4, <1>5, <1>7, <1>8, <1>9 DEF Next

\* Comments of layers.h and docs/layers.md: an orderly keyboard looks keys up
\* as the stack of layers does.
THEOREM StackCorrect ==
  ASSUME Orderly
  PROVE  Spec => StackSpec
<1>1. Init => Stack!Init
  BY StacksBegin
<1>2. OrderlyInv /\ [Next]_vars => [Stack!Next]_(Stack!vars)
  BY StacksStep
<1>3. Spec => []OrderlyInv
  BY OrderlyInvariance
<1> QED  BY <1>1, <1>2, <1>3, PTL DEF Spec, StackSpec, Stack!Spec
===============================================================================
