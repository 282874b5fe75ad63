------------------------------ MODULE Amounts ------------------------------
(***************************************************************************)
(* The sum of the amounts of a finite set, counted unit by unit.           *)
(***************************************************************************)
EXTENDS Integers, FiniteSets

Units(x, amount) == {x} \X (1..amount[x])

SumOf(S, amount) == Cardinality(UNION {Units(x, amount) : x \in S})
=============================================================================
