--------------------------- MODULE MCWgProvision ----------------------------
(* WgProvision for TLC.                                                    *)
EXTENDS WgProvision, TLC

\* Runners and users are only compared with their like.
Symmetry == Permutations(Runs) \cup Permutations(Users)

=============================================================================
