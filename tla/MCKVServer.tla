----------------------------- MODULE MCKVServer -----------------------------
(* Model-checking instance of KVServer: two keys and the key -1 of deleted *)
(* slots.                                                                  *)
EXTENDS KVServer

CONSTANTS alice, bob, x, y

SomeKeys == {-1, 1, 2}
Line(op, k, v) == [op |-> op, key |-> k, value |-> v]
SomeLines ==
  {Line("create", k, x) : k \in SomeKeys} \cup {Line("update", k, y) : k \in {-1, 1}}
    \cup {Line(op, k, NoValue) : op \in {"read", "delete"}, k \in {-1, 1}}
    \cup {Line(op, 0, NoValue) : op \in {"disconnect", "empty line", "other word"}}
=============================================================================
