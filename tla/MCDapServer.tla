----------------------------- MODULE MCDapServer -----------------------------
(* Instances of DapServer for TLC.                                         *)
EXTENDS DapServer, TLC

\* A line of the script, and one of clojure.core, which it calls.
TwoLines == {"top", "core"}
Depths == [p \in Places |-> IF p = "top" THEN 1 ELSE 2]
Core == {"core"}
=============================================================================
