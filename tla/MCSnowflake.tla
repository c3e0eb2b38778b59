---------------------------- MODULE MCSnowflake ----------------------------
(* Model-checking instances of Snowflake.                                  *)
EXTENDS Snowflake

CONSTANT t1

OneThread == {t1}
Arguments == {-1, 0, 3}
Hashes == {-1, 1}
=============================================================================
