----------------------------- MODULE MCTxDelta -----------------------------
EXTENDS TxDelta

Symmetry == Permutations(Keys) \cup Permutations(Rows)

=============================================================================
