---------------------------- MODULE EngineConfig ----------------------------
(***************************************************************************)
(* EngineConfig (include/ofe/config/engine_config.h): a YAML mapping is    *)
(* read key by key over the defaults of the fields.  The 48 fields follow  *)
(* one rule; a key stands for its field.                                   *)
(***************************************************************************)
CONSTANTS
  Keys,       (* the keys of the configuration                             *)
  Defaults,   (* per key: the initializer of its field                     *)
  Missing,    (* a key that is not in the file                             *)
  Null,       (* a key whose value is null                                 *)
  Malformed   (* a value that as<T>() throws on                            *)

ASSUME ConfigAssumption == Malformed \notin {Missing, Null}

(* read_value                                                              *)
ReadValue(root, key, fallback) ==
  IF root[key] \in {Missing, Null} THEN fallback ELSE root[key]

(* from_yaml throws if a value does not convert, else returns a new config.*)
Converts(root) == \A key \in Keys : root[key] # Malformed

FromYaml(root) == [key \in Keys |-> ReadValue(root, key, Defaults[key])]
=============================================================================
