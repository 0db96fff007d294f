------------------------------- MODULE MCAuth -------------------------------
(* A push and a pull of one engine.  The client's clock is right, slow, or    *)
(* ahead by more than the tolerance.  One server process that changes its     *)
(* key at a restart; two token Lambdas that race.                            *)
EXTENDS Auth, TLC

MCSettings == {<<"self", 0, 1>>, <<"self", 1, 1>>, <<"self", -2, 1>>, <<"aws", 0, 0>>}

Symmetry == Permutations(Callers) \cup Permutations(TokenLambdas)
=============================================================================
