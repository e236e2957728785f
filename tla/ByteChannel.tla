------------------------------ MODULE ByteChannel ------------------------------
(* What a receiving serial port promises its reader: bytes come out in the     *)
(* order they arrived, each at most once, none invented.  Bytes may be lost,   *)
(* and stopping the port throws away what is still in it.                      *)
EXTENDS Naturals, Sequences, SequencesExt

VARIABLES
    arrived,   \* how many bytes have arrived; byte n is the n-th to arrive
    transit,   \* the bytes in the port, oldest first
    got        \* the bytes handed to the reader, oldest first

chanVars == <<arrived, transit, got>>

Init ==
    /\ arrived = 0
    /\ transit = <<>>
    /\ got = <<>>

(* A byte arrives.  The port may have no room for it.                          *)
Arrive ==
    /\ arrived' = arrived + 1
    /\ \/ transit' = Append(transit, arrived')
       \/ UNCHANGED transit
    /\ UNCHANGED got

(* The port drops one byte.                                                    *)
Lose ==
    /\ \E i \in DOMAIN transit : transit' = RemoveAt(transit, i)
    /\ UNCHANGED <<arrived, got>>

(* The reader receives the oldest byte.                                        *)
Deliver ==
    /\ transit # <<>>
    /\ got' = Append(got, Head(transit))
    /\ transit' = Tail(transit)
    /\ UNCHANGED arrived

(* The port is stopped.                                                        *)
Discard ==
    /\ transit' = <<>>
    /\ UNCHANGED <<arrived, got>>

Next == Arrive \/ Lose \/ Deliver \/ Discard

ChannelSpec == Init /\ [][Next]_chanVars
================================================================================
