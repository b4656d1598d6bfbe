------------------------------ MODULE Documents ------------------------------
(***************************************************************************)
(* The attributes of an entity, its annotations in the document, and the   *)
(* filters that decide whether it is indexed (doc.rs, rpc/arkiv.rs).       *)
(*                                                                         *)
(* Abstractions: keys and values are model values or short names; a number *)
(* is its decimal string, U64 are those that parse as u64; the hashes of a *)
(* document are left out, its identity is in Bridge.                       *)
(***************************************************************************)
EXTENDS Naturals, SequencesExt

CONSTANT U64   \* the attribute values that parse as a u64

ATTR_UINT       == 1
ATTR_STRING     == 2
ATTR_ENTITY_KEY == 3

Attribute(key, type, value) == [key |-> key, value_type |-> type, value |-> value]

Typed(list, type) == [i \in DOMAIN list |-> Attribute(list[i].key, type, list[i].value)]

\* Faulty variant: the legacy numeric list is forgotten.
all_attributes_text(entity) ==
  entity.attributes \o Typed(entity.string_attributes, ATTR_STRING)

\* The modern list, and the two typed lists of the legacy wire shape.
all_attributes(entity) ==
  entity.attributes
    \o Typed(entity.numeric_attributes, ATTR_UINT)
    \o Typed(entity.string_attributes, ATTR_STRING)

-----------------------------------------------------------------------------
(* to_quickwit_doc                                                          *)

\* Where the attributes of a type are, and the last one of them with a key.
Own(attributes, type) == {i \in DOMAIN attributes : attributes[i].value_type = type}

LastOf(attributes, type, key) ==
  CHOOSE i \in Own(attributes, type) :
    /\ attributes[i].key = key
    /\ \A j \in Own(attributes, type) : attributes[j].key = key => j <= i

\* One sub-bag: of several attributes with the same key the last one stays.
Bag(attributes, type) ==
  [k \in {attributes[i].key : i \in Own(attributes, type)} |->
     attributes[LastOf(attributes, type, k)].value]

\* A number is stored as a number when it fits, and as a string otherwise.
UintValue(value) == [numeric |-> value \in U64, value |-> value]

Annotations(attributes) ==
  [string     |-> Bag(attributes, ATTR_STRING),
   uint       |-> [k \in DOMAIN Bag(attributes, ATTR_UINT) |->
                     UintValue(Bag(attributes, ATTR_UINT)[k])],
   entity_key |-> Bag(attributes, ATTR_ENTITY_KEY)]

op_type_name(operation_type) ==
  LET names == <<"create", "update", "extend", "transfer", "delete", "expire">> IN
  IF operation_type \in DOMAIN names THEN names[operation_type] ELSE "unknown"

KnownTypes(attributes) ==
  \A i \in DOMAIN attributes :
    attributes[i].value_type \in {ATTR_UINT, ATTR_STRING, ATTR_ENTITY_KEY}

\* A payload that is not hexadecimal, or a type of another kind, is an error.
\* The expiration of the entity is preferred to that of the log.
to_quickwit_doc(log, entity) ==
  IF entity.payload = "not_hex" \/ ~KnownTypes(all_attributes(entity))
  THEN [ok |-> FALSE]
  ELSE [ok |-> TRUE,
        annotations |-> Annotations(all_attributes(entity)),
        op_type     |-> op_type_name(log.operation_type),
        owner       |-> log.owner,
        expires_at  |-> IF entity.expires_at = <<>> THEN log.expires_at ELSE entity.expires_at[1]]

-----------------------------------------------------------------------------
(* entity_matches_filters: one of the rules, every condition of which some  *)
(* string attribute satisfies.                                              *)

\* Faulty variant: an attribute of any type will do.
IsMetByAny(condition, a) ==
  /\ a.key = condition.key
  /\ condition.value = <<>> \/ condition.value = <<a.value>>

IsMetBy(condition, a) ==
  /\ a.value_type = ATTR_STRING
  /\ a.key = condition.key
  /\ condition.value = <<>> \/ condition.value = <<a.value>>

condition_holds(condition, attributes) ==
  \E i \in DOMAIN attributes : IsMetBy(condition, attributes[i])

entity_matches_filters(rules, entity) ==
  \/ rules = <<>>
  \/ \E r \in DOMAIN rules : \A c \in DOMAIN rules[r] :
       condition_holds(rules[r][c], all_attributes(entity))
=============================================================================
