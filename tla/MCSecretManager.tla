--------------------------- MODULE MCSecretManager ---------------------------
(* TLC instance of SecretManager.                                          *)
EXTENDS SecretManager, TLC

Symmetry == Permutations(Handlers) \cup Permutations(Keys)
=============================================================================
