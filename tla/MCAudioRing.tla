------------------------------ MODULE MCAudioRing ------------------------------
(* Instances of AudioRing for TLC.                                             *)
EXTENDS AudioRing

MCBoth   == {"output", "input"}
================================================================================
