-------------------- MODULE MCHostPrefixCacheCoordinator --------------------
(* Instances of HostPrefixCacheCoordinator for TLC. *)
EXTENDS HostPrefixCacheCoordinator, TLC

CONSTANTS ns, other, blockA, blockB

\* A prompt of two blocks and its first block alone; and another namespace.
MCBlock == {<<ns, blockA>>}
MCChain == {<<ns, blockA>>, <<ns, blockA, blockB>>}
MCPrompts == MCChain \union {<<other, blockA>>}
MCSymmetry == Permutations(Procs) \union Permutations(PageIds) \union Permutations(Handles)
=============================================================================
