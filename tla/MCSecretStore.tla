---------------------------- MODULE MCSecretStore ----------------------------
(* TLC instance of SecretStore.                                            *)
EXTENDS SecretStore, TLC

Symmetry == Permutations(Ids) \cup Permutations(Calls)
=============================================================================
