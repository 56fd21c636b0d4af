--------------------------- MODULE MCHostFactory ----------------------------
(* HostFactory on a small instance: worker threads and hosts are model      *)
(* values, interchangeable where no liveness is checked.                    *)
EXTENDS HostFactory, TLC

Symmetry == Permutations(Threads) \cup Permutations(Hosts)
=============================================================================
