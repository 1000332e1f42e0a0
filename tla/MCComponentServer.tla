------------------------- MODULE MCComponentServer -------------------------
(* Instances of ComponentServer for TLC.                                    *)
EXTENDS ComponentServer

CONSTANTS c1, c2, c3

TwoClients   == {c1, c2}
ThreeClients == {c1, c2, c3}

=============================================================================
