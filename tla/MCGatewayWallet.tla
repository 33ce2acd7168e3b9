-------------------------- MODULE MCGatewayWallet --------------------------
(* GatewayWallet for TLC. The wallet's keys, handlers and bindings are model *)
(* values; handlers and refund keys are interchangeable.                     *)
EXTENDS GatewayWallet, TLC

OneAmount == {1}
Symmetry == Permutations(Handler) \cup Permutations(ChargeKey) \cup Permutations(RefundKey)
              \cup Permutations(Binding)
=============================================================================
