------------------------------ MODULE MCSystem ------------------------------
EXTENDS IpbenchSystem

CONSTANTS t1, c1, c2

OneTarget == <<t1>>
TwoClients == <<c1, c2>>
=============================================================================
