--------------------------- MODULE MCLogstashSCC ---------------------------
(***************************************************************************)
(* An instance of LogstashSCC for TLC: two operators, one of them in a     *)
(* namespace with the prefix.                                              *)
(***************************************************************************)
EXTENDS LogstashSCC

CONSTANTS p1, p2, admins, users, logstash

SomeNamespaces == [p \in {p1, p2} |-> IF p = p1 THEN {logstash} ELSE {}]
=============================================================================
