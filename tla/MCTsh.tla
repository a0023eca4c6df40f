------------------------------- MODULE MCTsh -------------------------------
(* Model checking of Tsh: process ids are model values and only ever        *)
(* compared, so the safety run may permute them.                            *)
EXTENDS Tsh, TLC

PidSymmetry == Permutations(Pids)
=============================================================================
