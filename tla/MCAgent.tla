------------------------------- MODULE MCAgent -------------------------------
(* Instances of Agent for TLC. *)
EXTENDS Agent

CONSTANTS h1, h2, v1, short, nil

\* An identifier, one that extends it, and one that comes after both.
NestedOids == {<<1, 3, 1>>, <<1, 3, 1, 5>>, <<1, 3, 2>>}

FlatOids == {<<1, 3>>, <<1, 3, 1>>}

\* The first handler serves all values, the second one only what it starts with.
SomeTypes == [h \in Handlers |-> IF h = h2 THEN InitialValues ELSE Values]
=============================================================================
