-------------------------- MODULE MCMonitorEvents --------------------------
(* Names whose tail reads as the lengths 48 and 36, or as none.            *)
EXTENDS MonitorEvents

TwoDirs  == {1, 2}
Masks    == {2}
Names    == {<<1, 33>>, <<13, 36>>, <<29, 48>>}
=============================================================================
