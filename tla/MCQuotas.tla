------------------------------- MODULE MCQuotas -------------------------------
(* Instances of Quotas for TLC.                                             *)
EXTENDS Quotas, TLC

CONSTANTS m1, m2, m3, c1, c2

MCDefault  == [q \in Quota |-> 1]
MCOverride == {[q \in Quota |-> IF q \in Daily THEN 2 ELSE 0]}

Interchangeable == Permutations(Monitor) \cup Permutations(Client)
===============================================================================
