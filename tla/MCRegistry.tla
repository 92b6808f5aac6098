----------------------------- MODULE MCRegistry -----------------------------
(* ModelRegistry on a small instance: lists that overlap, repeat an id, or    *)
(* name one model only; marks on one model.                                   *)
EXTENDS ModelRegistry, TLC

CONSTANTS c1, c2, ma, mb, p1, p2, r1, r2

Listed(a, b) == [m \in Models |-> IF m = ma THEN a ELSE b]
MCLists == {Listed(2, 0), Listed(1, 1)}
MCSymmetry == Permutations(Clients) \cup Permutations(Readers) \cup Permutations(Providers)
=============================================================================
