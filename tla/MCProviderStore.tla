-------------------------- MODULE MCProviderStore --------------------------
(* Two compatible providers that name the same variable, and the built-in one. *)
EXTENDS ProviderStore, TLC

CONSTANTS p, q, o, e, x

MCEnvOf == (p :> e) @@ (q :> e) @@ (o :> x)
MCEnvironment == (e :> NoKey) @@ (x :> OldKey)
MCSymmetry == Permutations(Compatible) \cup Permutations(Secrets) \cup Permutations(Calls)
=============================================================================
