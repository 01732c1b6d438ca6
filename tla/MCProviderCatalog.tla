-------------------------- MODULE MCProviderCatalog --------------------------
(* Small instances of ProviderCatalog. *)
EXTENDS ProviderCatalog, TLC

CONSTANTS c1, c2, m1, m2, a, A, b

(* A and a differ in case only. *)
CaseFold == [n \in Names |-> IF n = A THEN a ELSE n]

OneRemote == {<<a>>}
TwoRemote == {<<a, b>>}

Symmetric == Permutations(Clients) \cup Permutations(Models)
=============================================================================
