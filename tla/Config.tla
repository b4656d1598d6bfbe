-------------------------------- MODULE Config --------------------------------
(***************************************************************************)
(* From the configuration file to a configuration that the daemon runs     *)
(* with, or a refusal to start (config.rs).                                *)
(*                                                                         *)
(* Abstractions: a file is a record of its fields; one that may be left    *)
(* out is a sequence of at most one value; a URL is its scheme; an address *)
(* is its prefix and its length.  Fields that no property speaks of (poll  *)
(* interval, time-outs, commit mode, listen address) are left out.         *)
(***************************************************************************)
EXTENDS Documents, Integers

Default(field, value) == IF field = <<>> THEN value ELSE field[1]

default_confirmation_depth        == 32
default_fetch_batch_size_blocks   == 1024
default_ingest_batch_size_docs    == 500
default_ingest_batch_max_bytes    == 1048576
default_max_delete_terms_per_task == 500
default_reorg_buffer_size         == 256
default_recheck_sample_size       == 8

-----------------------------------------------------------------------------
(* EntityFilterRule, an untagged enum: all_of is tried first and does not   *)
(* mind other fields; a single condition does.                              *)

IsCondition(fields) == fields.key # <<>>

Condition(fields) == [key |-> fields.key[1], value |-> fields.value]

IsAllOf(rule) ==
  rule.all_of # <<>> /\ \A i \in DOMAIN rule.all_of[1] : IsCondition(rule.all_of[1][i])

IsSingle(rule) == rule.all_of = <<>> /\ IsCondition(rule)

IsRule(rule) == IsAllOf(rule) \/ IsSingle(rule)

conditions(rule) ==
  IF IsAllOf(rule)
  THEN [i \in DOMAIN rule.all_of[1] |-> Condition(rule.all_of[1][i])]
  ELSE <<Condition(rule)>>

-----------------------------------------------------------------------------
(* StartBlock.                                                              *)

IsStartBlock(start) == start.type = "number" \/ start.text = "head"

StartBlock(field) ==
  CASE field = <<>> -> [type |-> "Genesis"]
    [] field # <<>> /\ field[1].type = "text" -> [type |-> "Head"]
    [] field # <<>> /\ field[1].type = "number" ->
         IF field[1].number = 0 THEN [type |-> "Genesis"]
         ELSE [type |-> "Number", number |-> field[1].number]

first_cursor(start, head) ==
  CASE start.type = "Genesis" -> 0
    [] start.type = "Number"  -> start.number
    [] start.type = "Head"    -> head

-----------------------------------------------------------------------------
(* load                                                                     *)

\* Of either schema.
default_address == [prefix |-> "0x", length |-> 42]

IsYaml(file) ==
  /\ ~file.unknown_field
  /\ file.start_block # <<>> => IsStartBlock(file.start_block[1])
  /\ \A i \in DOMAIN file.entity_filters : IsRule(file.entity_filters[i])

Parsed(file) ==
  [rpc_url        |-> file.rpc_url,
   rpc_url_backup |-> file.rpc_url_backup,
   base_url       |-> file.base_url,
   index_id       |-> file.index_id,
   address        |-> Default(file.arkiv_address, default_address),
   start_block    |-> StartBlock(file.start_block),
   confirmation_depth        |-> Default(file.confirmation_depth, default_confirmation_depth),
   fetch_batch_size_blocks   |-> Default(file.fetch_batch_size_blocks,
                                         default_fetch_batch_size_blocks),
   ingest_batch_size_docs    |-> Default(file.ingest_batch_size_docs,
                                         default_ingest_batch_size_docs),
   ingest_batch_max_bytes    |-> Default(file.ingest_batch_max_bytes,
                                         default_ingest_batch_max_bytes),
   max_delete_terms_per_task |-> Default(file.max_delete_terms_per_task,
                                         default_max_delete_terms_per_task),
   extractors     |-> file.payload_extractors,
   filters        |-> [i \in DOMAIN file.entity_filters |-> conditions(file.entity_filters[i])]]

IsHttp(url) == url \in {"http", "https"}

\* Faulty variant: some zeros are let through.
PositiveSomeSizes(config) ==
  config.ingest_batch_size_docs # 0 /\ config.ingest_batch_max_bytes # 0

PositiveSizes(config) ==
  /\ config.fetch_batch_size_blocks # 0
  /\ config.ingest_batch_size_docs # 0 /\ config.ingest_batch_max_bytes # 0
  /\ config.max_delete_terms_per_task # 0

\* Faulty variant: an empty all_of is let through.
ConstrainsKeys(filters) ==
  \A r \in DOMAIN filters : \A c \in DOMAIN filters[r] : filters[r][c].key # ""

Constrains(filters) ==
  \A r \in DOMAIN filters :
    filters[r] # <<>> /\ \A c \in DOMAIN filters[r] : filters[r][c].key # ""

validate(config) ==
  /\ IsHttp(config.rpc_url)
  /\ config.rpc_url_backup # <<>> => IsHttp(config.rpc_url_backup[1])
  /\ IsHttp(config.base_url)
  /\ config.address.prefix = "0x" /\ config.address.length = 42
  /\ config.index_id # ""
  /\ PositiveSizes(config)
  /\ \A i \in DOMAIN config.extractors :
       (config.extractors[i].content_type = <<>>)
         # (config.extractors[i].content_type_prefix = <<>>)
  /\ Constrains(config.filters)

load(file) ==
  IF IsYaml(file) /\ validate(Parsed(file))
  THEN [ok |-> TRUE, config |-> Parsed(file)]
  ELSE [ok |-> FALSE]

-----------------------------------------------------------------------------
(* What run_iteration makes of the sizes: the end of a range that starts at *)
(* cursor, and the number of delete tasks for so many entities.             *)

EndBlock(config, cursor, target) ==
  LET end == cursor + config.fetch_batch_size_blocks - 1 IN
  IF end < target THEN end ELSE target

Target(config, head) ==
  IF head < config.confirmation_depth THEN 0 ELSE head - config.confirmation_depth

-----------------------------------------------------------------------------
(***************************************************************************)
(* Reference definition: the conditions that the author of a rule wrote,   *)
(* of either form, and the entities they had in mind.                      *)
(***************************************************************************)
Written(rule) ==
  {Condition(f) : f \in
     (IF rule.all_of = <<>> THEN {} ELSE {rule.all_of[1][i] : i \in DOMAIN rule.all_of[1]})
       \cup (IF IsCondition(rule) THEN {rule} ELSE {})}

IsMixed(rule) == rule.all_of # <<>> /\ IsCondition(rule)

HasString(entity, condition) ==
  \E i \in DOMAIN entity.attributes :
    LET a == entity.attributes[i] IN
    /\ a.value_type = ATTR_STRING
    /\ a.key = condition.key
    /\ condition.value = <<>> \/ condition.value = <<a.value>>

InMind(file, entity) ==
  \/ file.entity_filters = <<>>
  \/ \E i \in DOMAIN file.entity_filters :
       \A c \in Written(file.entity_filters[i]) : HasString(entity, c)
=============================================================================
