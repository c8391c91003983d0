----------------------------- MODULE MCGeometry -----------------------------
EXTENDS Geometry, TLC
mcSizes == {<<2, 1>>, <<3, 2>>}
mcSpawn == <<2, 1>>
symmClients == Permutations(Clients)
=============================================================================
