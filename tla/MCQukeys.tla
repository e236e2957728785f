------------------------------ MODULE MCQukeys ------------------------------
(* Keys 1 and 2 are qukeys of the home row and key 3 is a letter; in the   *)
(* passing run key 4 is a SpaceCadet shift, and a cycle of the loop takes  *)
(* one tick or two.  The host sets a hold timeout that is longer or        *)
(* shorter than the interval after a printable press.                      *)
EXTENDS Qukeys

None    == {}
HomeRow == {1, 2}
Fourth  == {4}
OneTick == {1}
Ticks   == {1, 2}
ShortLong == {0, 2}
LongOnly  == {6}
Percents  == {0, 50}
Default   == {80}
=============================================================================
