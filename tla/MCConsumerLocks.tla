-------------------------- MODULE MCConsumerLocks --------------------------
\* Small instances of the consumer-lock store.
EXTENDS ConsumerLocks, TLC

Symmetry == Permutations(Proc) \cup Permutations(Holder) \cup Permutations(Consumer)
=============================================================================
