-------------------------------- MODULE Decode --------------------------------
(***************************************************************************)
(* From the answer to eth_getLogs to the logs of a range (rpc/eth.rs,      *)
(* rpc/mod.rs): one bad log fails the whole fetch.                         *)
(*                                                                         *)
(* Abstractions.  A topic is a JSON value that is a string or is not; its  *)
(* 32 bytes are a name (signature, entity key), a number (operation type)  *)
(* or an owner: an address in the low bytes of a word that is whole or is  *)
(* not.  A word of the data is a number, or not hexadecimal.  A field that *)
(* may be absent is a sequence of at most one value.  Widths are scaled    *)
(* down: U8Bits for the operation type, U64Bits for quantities; a word     *)
(* between the two is read as an operation, and cut.                       *)
(***************************************************************************)
EXTENDS Naturals, SequencesExt

CONSTANTS U8Bits, U64Bits

ASSUME DecodeAssumption == U8Bits \in Nat /\ U64Bits \in Nat /\ U8Bits <= U64Bits

OP_CREATE   == 1
OP_UPDATE   == 2
OP_EXTEND   == 3
OP_TRANSFER == 4
OP_DELETE   == 5
OP_EXPIRE   == 6

\* The operation of each legacy signature.
LEGACY_TOPIC0_TO_OP ==
  [ArkivEntityCreated |-> OP_CREATE, ArkivEntityUpdated |-> OP_UPDATE,
   ArkivEntityBTLExtended |-> OP_EXTEND, ArkivEntityOwnerChanged |-> OP_TRANSFER,
   ArkivEntityDeleted |-> OP_DELETE, ArkivEntityExpired |-> OP_EXPIRE]

-----------------------------------------------------------------------------
(* Single fields.                                                           *)

\* parse_hex_u64 of a field: present, and below 2^64.
IsQuantity(field) == Len(field) = 1 /\ field[1] < 2^U64Bits

HasPlace(raw) == IsQuantity(raw.blockNumber) /\ IsQuantity(raw.logIndex) /\ Len(raw.blockHash) = 1

\* Faulty variant: the length of the owner's word is not looked at.
IsOwnerOfAnyLength(topic) == topic.text

IsOwner(topic) == topic.text /\ topic.word.whole

-----------------------------------------------------------------------------
(* decode_entity_operation_log: four topics, the operation cut to a u8, the *)
(* expiration in the low eight bytes of the first word of the data.         *)

IsEntityOperation(raw) ==
  /\ Len(raw.topics) = 4
  /\ raw.topics[2].text
  /\ raw.topics[3].text /\ IsQuantity(<<raw.topics[3].word>>)
  /\ IsOwner(raw.topics[4])
  /\ HasPlace(raw)
  /\ raw.data # <<>> => raw.data[1].hex

decode_entity_operation_log(raw) ==
  [block_number   |-> raw.blockNumber[1],
   block_hash     |-> raw.blockHash[1],
   log_index      |-> raw.logIndex[1],
   entity_key     |-> raw.topics[2].word,
   operation_type |-> raw.topics[3].word % 2^U8Bits,
   owner          |-> raw.topics[4].word.address,
   expires_at     |-> IF raw.data = <<>> THEN 0 ELSE raw.data[1].number % 2^U64Bits]

-----------------------------------------------------------------------------
(* decode_legacy_log: the operation from topic0; an expiration that cannot  *)
(* be read is 0.                                                            *)

LegacyOp(raw) == LEGACY_TOPIC0_TO_OP[raw.topics[1].word]

\* Faulty variant: the owner before the operation.
OwnerTopicOld(raw) == 3

OwnerTopic(raw) ==
  IF LegacyOp(raw) = OP_TRANSFER /\ Len(raw.topics) >= 4 THEN 4 ELSE 3

IsLegacy(raw) ==
  /\ Len(raw.topics) >= 3
  /\ raw.topics[1].text /\ raw.topics[1].word \in DOMAIN LEGACY_TOPIC0_TO_OP
  /\ raw.topics[2].text
  /\ IsOwner(raw.topics[OwnerTopic(raw)])
  /\ HasPlace(raw)

data_word_u64(raw, i) ==
  IF i \in DOMAIN raw.data /\ raw.data[i].hex THEN raw.data[i].number % 2^U64Bits ELSE 0

decode_legacy_log(raw) ==
  [block_number   |-> raw.blockNumber[1],
   block_hash     |-> raw.blockHash[1],
   log_index      |-> raw.logIndex[1],
   entity_key     |-> raw.topics[2].word,
   operation_type |-> LegacyOp(raw),
   owner          |-> raw.topics[OwnerTopic(raw)].word.address,
   expires_at     |-> CASE LegacyOp(raw) \in {OP_CREATE, OP_UPDATE} -> data_word_u64(raw, 1)
                        [] LegacyOp(raw) = OP_EXTEND -> data_word_u64(raw, 2)
                        [] OTHER -> 0]

-----------------------------------------------------------------------------
(* call_inner and entity_operation_logs.                                    *)

Failed == [ok |-> FALSE, logs |-> <<>>]

\* A transport error, a status other than 2xx, a body that is not JSON-RPC, an
\* error object and a missing result are errors; so is a result of another type.
IsResult(reply) == reply.kind = "array"

IsDecodable(schema, raw) == IF schema = "legacy" THEN IsLegacy(raw) ELSE IsEntityOperation(raw)

decode(schema, raw) ==
  IF schema = "legacy" THEN decode_legacy_log(raw) ELSE decode_entity_operation_log(raw)

InChainOrder(a, b) ==
  \/ a.block_number < b.block_number
  \/ a.block_number = b.block_number /\ a.log_index < b.log_index

entity_operation_logs(schema, reply) ==
  IF IsResult(reply) /\ \A i \in DOMAIN reply.logs : IsDecodable(schema, reply.logs[i])
  THEN [ok |-> TRUE,
        logs |-> SortSeq([i \in DOMAIN reply.logs |-> decode(schema, reply.logs[i])],
                         InChainOrder)]
  ELSE Failed

-----------------------------------------------------------------------------
(***************************************************************************)
(* The contract's side: the log of an event, in either schema.  An event   *)
(* is what it did, with the owner and the expiration after it, and the     *)
(* owner before.                                                           *)
(***************************************************************************)
Topic(word) == [text |-> TRUE, word |-> word]

OwnerWord(address) == Topic([whole |-> TRUE, address |-> address])

Word(n) == [hex |-> TRUE, number |-> n]

Signature(op) == CHOOSE s \in DOMAIN LEGACY_TOPIC0_TO_OP : LEGACY_TOPIC0_TO_OP[s] = op

Place(event) ==
  [blockNumber |-> <<event.block>>, blockHash |-> <<event.hash>>, logIndex |-> <<event.index>>]

Emitted(schema, event) ==
  LET body ==
        IF schema = "legacy"
        THEN [topics |-> <<Topic(Signature(event.op)), Topic(event.key)>> \o
                         (IF event.op = OP_TRANSFER
                          THEN <<OwnerWord(event.previous), OwnerWord(event.owner)>>
                          ELSE <<OwnerWord(event.owner)>>),
              data   |-> CASE event.op \in {OP_CREATE, OP_UPDATE} -> <<Word(event.expires), Word(0)>>
                           [] event.op = OP_EXTEND -> <<Word(0), Word(event.expires)>>
                           [] OTHER -> <<>>]
        ELSE [topics |-> <<Topic("EntityOperation"), Topic(event.key), Topic(event.op),
                           OwnerWord(event.owner)>>,
              data   |-> <<Word(event.expires), Word(0)>>]
  IN  body @@ Place(event)

HasExpiration(schema, event) ==
  schema # "legacy" \/ event.op \in {OP_CREATE, OP_UPDATE, OP_EXTEND}

\* What the bridge should make of an event.  The legacy events without an
\* expiration are given none.
Meant(schema, event) ==
  [block_number   |-> event.block, block_hash |-> event.hash, log_index |-> event.index,
   entity_key     |-> event.key, operation_type |-> event.op, owner |-> event.owner,
   expires_at     |-> IF HasExpiration(schema, event) THEN event.expires ELSE 0]

\* What may be wrong with a log.
Faults == {"none", "topic_missing", "topic_not_text", "short_owner", "unknown_signature",
           "cut_operation", "wide_operation", "no_block_number", "no_block_hash", "no_log_index",
           "wide_log_index", "no_data", "data_not_hex", "wide_expiration"}

Spoiled(raw, fault) ==
  CASE fault = "none"              -> raw
    [] fault = "topic_missing"     -> [raw EXCEPT !.topics = Front(@)]
    [] fault = "topic_not_text"    -> [raw EXCEPT !.topics[2].text = FALSE]
    [] fault = "short_owner"       -> [raw EXCEPT !.topics[Len(raw.topics)].word.whole = FALSE]
    [] fault = "unknown_signature" -> [raw EXCEPT !.topics[1] = Topic("Transfer")]
    [] fault = "cut_operation"     -> [raw EXCEPT !.topics[3].word = 2^U8Bits + OP_DELETE]
    [] fault = "wide_operation"    -> [raw EXCEPT !.topics[3].word = 2^U64Bits]
    [] fault = "no_block_number"   -> [raw EXCEPT !.blockNumber = <<>>]
    [] fault = "no_block_hash"     -> [raw EXCEPT !.blockHash = <<>>]
    [] fault = "no_log_index"      -> [raw EXCEPT !.logIndex = <<>>]
    [] fault = "wide_log_index"    -> [raw EXCEPT !.logIndex = <<2^U64Bits>>]
    [] fault = "no_data"           -> [raw EXCEPT !.data = <<>>]
    [] fault = "data_not_hex"      -> [raw EXCEPT !.data = [i \in DOMAIN @ |-> [hex |-> FALSE, number |-> 0]]]
    [] fault = "wide_expiration"   -> [raw EXCEPT !.data = [i \in DOMAIN @ |-> Word(2^U64Bits + 2)]]
=============================================================================
