------------------------------ MODULE LayerStack ------------------------------
(***************************************************************************)
(* What the keyboard firmware promises about layers, as docs/layers.md and *)
(* the comment of kaleidoscope/layers.h describe it.  Layers are a stack   *)
(* in the order of activation: a layer that is switched on goes on top,    *)
(* one that is switched off leaves the others in their order, and moving   *)
(* to a layer leaves that one alone.  A key that is pressed means what the *)
(* topmost layer that is not transparent at its place says, and keeps that *)
(* meaning until it is released, whatever happens to the layers meanwhile. *)
(***************************************************************************)
EXTENDS Naturals, Sequences

CONSTANTS
  Keys,           \* the key switches
  Layers,         \* the layers of the keymap; 0 is the base layer
  Keymap,         \* [Layers -> [Keys -> entries]]
  Transparent     \* the entry of a place one sees through

VARIABLES
  order,          \* the active layers, least recently activated first
  code            \* the entry each held key got when it was pressed

vars == <<order, code>>

\* Layer l is the topmost of the stack that is not transparent for key k.
Topmost(l, k) ==
  \E i \in DOMAIN order :
    /\ order[i] = l /\ Keymap[l][k] # Transparent
    /\ \A j \in DOMAIN order : j > i => Keymap[order[j]][k] = Transparent

\* The base layer answers if all are transparent.
LookUp(k) ==
  Keymap[IF \E l \in Layers : Topmost(l, k) THEN CHOOSE l \in Layers : Topmost(l, k) ELSE 0][k]

On(l) == l \notin {order[i] : i \in DOMAIN order} /\ order' = Append(order, l)

Off(l) ==
  \E p \in DOMAIN order :
    /\ order[p] = l
    /\ order' = [i \in 1 .. Len(order) - 1 |-> order[IF i < p THEN i ELSE i + 1]]

Alone(l) == order' = <<l>>

\* At most one layer changes at a time.
Switch == UNCHANGED order \/ \E l \in Layers : On(l) \/ Off(l) \/ Alone(l)

Press(k) ==
  /\ k \notin DOMAIN code
  /\ code' = [q \in DOMAIN code \cup {k} |-> IF q = k THEN LookUp(k) ELSE code[q]]
  /\ Switch

Release(k) ==
  /\ k \in DOMAIN code
  /\ code' = [q \in DOMAIN code \ {k} |-> code[q]]
  /\ Switch

\* A held key or a command of the host may switch a layer too.
Other == Switch /\ UNCHANGED code

Init ==
  /\ order = <<0>>
  /\ code = <<>>

Next == Other \/ \E k \in Keys : Press(k) \/ Release(k)

Spec == Init /\ [][Next]_vars
===============================================================================
