--------------------------- MODULE CampaignBounds ---------------------------
(***************************************************************************)
(* The extent of an experiment.                                            *)
(***************************************************************************)
EXTENDS Integers

CONSTANTS
  Step,     \* step_size of experiment.yaml
  Limit,    \* the last rate, 500 in gather_measurements.sh
  MaxAux    \* the last number of auxiliary clients, 15 in that script

ASSUME StepAssumption == Step \in Nat \ {0}
ASSUME LimitAssumption == Limit \in Nat
ASSUME MaxAuxAssumption == MaxAux \in Nat

=============================================================================
