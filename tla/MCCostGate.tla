---------------------------- MODULE MCCostGate ----------------------------
(* CostGate on a small instance, one or two dimensions. *)
EXTENDS CostGate, TLC

CONSTANTS
  EnvelopeSizes, ActualSizes, TopUpSizes,
  InitialSize, CeilingSize, CapSize

Flat(n) == [d \in Dims |-> n]

MCEnvelopes      == {Flat(n) : n \in EnvelopeSizes}
MCActuals        == {Flat(n) : n \in ActualSizes}
MCTopUps         == {Flat(n) : n \in TopUpSizes}
MCInitialBalance == Flat(InitialSize)
MCCeiling        == Flat(CeilingSize)
MCCap            == Flat(CapSize)

Symmetry == Permutations(Rids) \cup Permutations(Calls)
=============================================================================
