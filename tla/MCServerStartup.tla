-------------------------- MODULE MCServerStartup --------------------------
(* Instances of ServerStartup for TLC.                                      *)
EXTENDS ServerStartup

CONSTANTS c1, c2, c3, c4

TwoClients  == {c1, c2}
FourClients == {c1, c2, c3, c4}
=============================================================================
