------------------------------- MODULE Clocks -------------------------------
(***************************************************************************)
(* The clocks of the NTP client and of the NTP server.                     *)
(***************************************************************************)
EXTENDS Integers

CONSTANTS
  Era,     \* seconds an NTP timestamp can tell apart (2^32)
  Skew     \* server's clock minus client's clock

ASSUME EraAssumption == Era \in Nat \ {0}
ASSUME SkewAssumption == Skew \in Int

=============================================================================
