---------------------------- MODULE MCQanManager ----------------------------
(* Model-checking instance of QanManager: small bounds, and the symmetry  *)
(* of the statements, which the manager and the workers never tell apart. *)
EXTENDS QanManager, TLC

CONSTANTS s1, s2

MCStmts == {s1, s2}

StmtSymmetry == Permutations(MCStmts)
=============================================================================
