------------------------------ MODULE MCOffice ------------------------------
(***************************************************************************)
(* Values for Office: a room of six metres by seven in units of five       *)
(* centimetres, with the game's own radii, reaches and grid.  A step is    *)
(* four of the game's.                                                     *)
(***************************************************************************)
EXTENDS Office

OneDesk == {<<40, 15>>}
AtPlayerSpawn == <<60, 15>>
AtBossSpawn == <<60, 125>>
AtChaserSpawn == <<20, 125>>
Bottles == <<<<15, 15>>, <<105, 15>>, <<15, 70>>>>
Hookahs == <<<<105, 70>>, <<105, 125>>>>
Colleagues == {<<35, 95>>, <<80, 45>>, <<80, 72>>, <<50, 65>>}
Spawns == {<<60, 15>>, <<60, 74>>}
Catalogue == Colleagues \cup {AtPlayerSpawn, AtBossSpawn, AtChaserSpawn} \cup ToSet(Bottles) \cup ToSet(Hookahs)
=============================================================================
