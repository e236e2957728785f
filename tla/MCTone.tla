------------------------------- MODULE MCTone -------------------------------
(* Two pins, callers on both cores and in a handler, an alarm per tone.    *)
EXTENDS Tone

Pins      == {"p", "q"}
Callers   == {"main0", "main1", "user"}
Addresses == {1, 2}
Alarms    == {1, 2}
=============================================================================
