---------------------------- MODULE MCMigrations ----------------------------
(* Values for the constants of Migrations: two tabs, and sources that list *)
(* one document or two, of which one can be downloaded.                    *)
EXTENDS Migrations, TLC

CONSTANTS t1, t2

OneDoc == <<[link |-> "ok", words |-> {"soc 2", "dpa"}, answer |-> "SOC2"]>>
TwoDocs == OneDoc \o <<[link |-> "bad", words |-> {}, answer |-> "policy"]>>

Symmetry == Permutations(Tabs)
=============================================================================
