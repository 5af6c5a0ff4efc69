------------------------------ MODULE MCSessions ------------------------------
(* An instance of Sessions for TLC: a browser with two tabs, and a device. *)
EXTENDS Sessions, TLC

CONSTANTS browser, device

Tabs == [c \in {browser, device} |-> IF c = browser THEN 2 ELSE 0]

Symmetries == Permutations(Requests)
===============================================================================
