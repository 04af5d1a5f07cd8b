---------------------------- MODULE MCServerVault ----------------------------
(* Requests and keys are interchangeable, and so are passwords; entries    *)
(* differ by what WithBlob and Lookalike say of them.                      *)
EXTENDS ServerVault, TLC

Symmetry == Permutations(Request) \cup Permutations(Key) \cup Permutations(Password)
=============================================================================
