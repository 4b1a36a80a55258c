---------------------------- MODULE MCKeyRotator ----------------------------
(* Small instances of KeyRotator for TLC.                                  *)
EXTENDS KeyRotator, TLC

CONSTANTS ke, ntp, k1

MCServers == {ke, ntp}
\* Both processes are given the same cookie key file.
MCMasterKey == [s \in MCServers |-> k1]
MCSymmetry == Permutations(MCServers)

=============================================================================
