---------------------------- MODULE MCNtsService ----------------------------
(* A small instance of NtsService for TLC.                                 *)
EXTENDS NtsService

CONSTANTS k1

MCServers == {Ke, Ntp}
MCMasterKey == [s \in MCServers |-> k1]

=============================================================================
