---------------------------- MODULE MCMigrations ----------------------------
(* Instances of Migrations for TLC: two containers that upgrade, one that    *)
(* downgrades.                                                               *)
EXTENDS Migrations

CONSTANTS u1, u2, d1

MCCommandOf == [m \in Migrators |-> IF m = d1 THEN "downgrade" ELSE "upgrade"]
=============================================================================
