----------------------------- MODULE MCSeeding ------------------------------
(* Instances of Seeding for TLC: two seeds and a runner, each data file     *)
(* there or not, one pack, and a name of a client's own.                   *)
EXTENDS Seeding, TLC

CONSTANTS seed1, seed2, packSeed, own, runner1, tone

GadgetsThereOrNot == {<<>>, <<seed1, seed2>>}

RunnersThereOrNot == {<<>>, <<runner1>>}

Catalog == <<seed1, seed2, runner1>>

ToneOnly == tone :> <<packSeed>>
=============================================================================
