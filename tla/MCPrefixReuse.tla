---------------------------- MODULE MCPrefixReuse ----------------------------
(* Instances of PrefixReuse for TLC. *)
EXTENDS PrefixReuse, TLC

CONSTANTS ns, blockA, blockB, blockC

MCChain == {<<ns, blockA>>, <<ns, blockA, blockB>>}
MCPrompts == {<<ns, blockA, blockB>>, <<ns, blockA, blockC>>}
MCSymmetry == Permutations(Procs) \union Permutations(SequenceIds)
\* MCPrompts treats its last blocks alike.
MCPromptsSymmetry == MCSymmetry \union Permutations({blockB, blockC})
=============================================================================
