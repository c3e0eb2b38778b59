----------------------------- MODULE MCJwtUtil -----------------------------
(* Model-checking instances of JwtUtil.                                    *)
EXTENDS JwtUtil, TLC

CONSTANTS a, b, v1

Tokens == {a, b}
TokenSymmetry == Permutations(Tokens)
OneVerifier == {v1}
=============================================================================
