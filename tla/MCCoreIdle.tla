------------------------------ MODULE MCCoreIdle ------------------------------
(* Instances of CoreIdle for TLC.                                              *)
EXTENDS CoreIdle

MCBoth == {0, 1}
MCOne  == {1}
MCNone == {}
===============================================================================
