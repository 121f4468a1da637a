----------------------------- MODULE MCSaveGame -----------------------------
EXTENDS SaveGame, TLC

CONSTANTS field, cave, gate, camp, pool, door, exit, ambush

\* Two maps: a field with the default start (a gate), a checkpoint (a camp), a
\* volume and a door to the cave; the cave with a checkpoint and an exit back.
Place   == gate :> field @@ camp :> field @@ ambush :> field @@ door :> field
           @@ pool :> cave @@ exit :> cave
LeadsTo == door :> pool @@ exit :> gate
=============================================================================
