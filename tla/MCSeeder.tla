------------------------------- MODULE MCSeeder -------------------------------
(* Instances of Seeder for TLC: the second build changes the document, the    *)
(* third no longer seeds it.                                                  *)
EXTENDS Seeder, TLC

CONSTANTS old, new

TwoBuilds == <<old, new>>
ThreeBuilds == <<old, new, None>>
=============================================================================
