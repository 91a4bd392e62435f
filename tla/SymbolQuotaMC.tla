--------------------------- MODULE SymbolQuotaMC ---------------------------
(* Three API threads, two tiers, and files that lower, raise, drop and     *)
(* spoil values.                                                           *)
EXTENDS SymbolQuota, TLC

CONSTANTS bronze, gold, router_shards, t1, t2, t3

MCKeys == {bronze, gold, router_shards}
MCTiers == {bronze, gold}
MCThreads == {t1, t2, t3}
File(b, g, s) == bronze :> b @@ gold :> g @@ router_shards :> s
MCDefaults == File(1, 1, 2)
MCFiles == {File(0, 2, Missing), File(2, Null, 2), File(2, Malformed, 0)}
MCSymmetry == Permutations(MCThreads)
===========================================================================
