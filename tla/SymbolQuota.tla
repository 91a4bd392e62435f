---------------------------- MODULE SymbolQuota ----------------------------
(***************************************************************************)
(* SymbolQuotaEnforcer (include/ofe/api/api_server.h) in the hands of an   *)
(* IApiServer: api_threads serve register_symbol(symbol, tier), which      *)
(* counts the tier's symbols, asks can_allocate and adds the symbol, while *)
(* the configuration is loaded again and its quotas are put in force.      *)
(*                                                                         *)
(* The repository has the enforcer and the interface; the server behind    *)
(* the interface is external.  The enforcer locks one call at a time, so   *)
(* nothing holds between a server's count, verdict and registration.       *)
(***************************************************************************)
EXTENDS EngineConfig, Integers, FiniteSets

CONSTANTS
  Tiers,        (* SymbolQuotaTier; a tier is also its symbol_quota_ key   *)
  Threads,      (* api_threads                                             *)
  Files,        (* configuration files: a value, Missing, Null or          *)
                (* Malformed for each key                                  *)
  Idle          (* a thread without a registration in progress             *)

ASSUME QuotaAssumption ==
  /\ Tiers \subseteq Keys
  /\ IsFiniteSet(Threads) /\ Threads # {}
  /\ \A tier \in Tiers :
       /\ Defaults[tier] \in Nat
       /\ \A file \in Files :
            file[tier] \in {Missing, Null, Malformed} \/ file[tier] \in Nat
  /\ Idle \notin [tier : Tiers, seen : Nat, allowed : BOOLEAN]

VARIABLES
  config,       (* the EngineConfig loaded last                            *)
  limits,       (* limits_.max_symbols                                     *)
  count,        (* per tier: the symbols that are registered               *)
  call,         (* per thread: its registration in progress, or Idle       *)
  peak          (* per tier: the highest limit that was ever in force      *)

vars == <<config, limits, count, call, peak>>

Quotas(c) == [tier \in Tiers |-> c[tier]]

(* The enforcer's own defaults are those of the symbol_quota_ fields.      *)
Init ==
  /\ config = Defaults
  /\ limits = Quotas(Defaults)
  /\ count = [tier \in Tiers |-> 0]
  /\ call = [t \in Threads |-> Idle]
  /\ peak = limits

(* load_from_file; when it throws, the server keeps what it has.           *)
LoadConfig(file) ==
  /\ Converts(file)
  /\ config' = FromYaml(file)
  /\ UNCHANGED <<limits, count, call, peak>>

(* set_limits                                                              *)
SetLimits ==
  /\ limits' = Quotas(config)
  /\ peak' = [tier \in Tiers |->
       IF limits'[tier] > peak[tier] THEN limits'[tier] ELSE peak[tier]]
  /\ UNCHANGED <<config, count, call>>

(* register_symbol: symbol_count(tier) is read,                            *)
Count(t, tier) ==
  /\ call[t] = Idle
  /\ call' = [call EXCEPT ![t] = [tier |-> tier, seen |-> count[tier], allowed |-> FALSE]]
  /\ UNCHANGED <<config, limits, count, peak>>

(* Mutant: the limit itself is still allowed.                              *)
AllowedAtLimit(tier, seen) == seen <= limits[tier]

(* can_allocate is asked,                                                  *)
Allowed(tier, seen) == seen < limits[tier]

CanAllocate(t) ==
  /\ call[t] # Idle
  /\ ~call[t].allowed
  /\ call' = [call EXCEPT ![t] =
       IF Allowed(call[t].tier, call[t].seen) THEN [@ EXCEPT !.allowed = TRUE] ELSE Idle]
  /\ UNCHANGED <<config, limits, count, peak>>

(* and the symbol is added.                                                *)
Add(t) ==
  /\ call[t] # Idle
  /\ call[t].allowed
  /\ count' = [count EXCEPT ![call[t].tier] = @ + 1]
  /\ call' = [call EXCEPT ![t] = Idle]
  /\ UNCHANGED <<config, limits, peak>>

(* unregister_symbol                                                       *)
Remove(tier) ==
  /\ count[tier] > 0
  /\ count' = [count EXCEPT ![tier] = @ - 1]
  /\ UNCHANGED <<config, limits, call, peak>>

Next ==
  \/ \E file \in Files : LoadConfig(file)
  \/ SetLimits
  \/ \E t \in Threads : \/ \E tier \in Tiers : Count(t, tier)
                        \/ CanAllocate(t)
                        \/ Add(t)
  \/ \E tier \in Tiers : Remove(tier)

Spec == Init /\ [][Next]_vars

---------------------------------------------------------------------------
(* can_allocate judges a count its caller has read before.  Registrations  *)
(* that race can go over the limit, but never by more than one symbol for  *)
(* each thread but one, however limits change and symbols come and go; a   *)
(* single registrar never goes over it.                                    *)
OvershootBounded ==
  \A tier \in Tiers : count[tier] <= peak[tier] + Cardinality(Threads) - 1
===========================================================================
