----------------------------- MODULE MCKeyedWorker -----------------------------
(* Three items, each of which names any of two keys.                           *)
EXTENDS KeyedWorker

CONSTANTS i1, i2, i3, a, b, none
ThreeItems == {i1, i2, i3}
TwoKeys == {a, b}
===============================================================================
