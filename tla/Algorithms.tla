------------------------------ MODULE Algorithms ------------------------------
(***************************************************************************)
(* The functions of the bridge that keep no state, one call after another: *)
(* what they return for every input of a bounded set, against a reference  *)
(* definition of what they are for.                                        *)
(***************************************************************************)
EXTENDS Extract, Decode, Batching, Config

CONSTANTS
  MaxPieces,       \* bound: pieces of an HTML page
  ExtractorRules,  \* rules of payload_extractors
  ContentTypes,    \* content types, with the prefixes in the rules they begin with
  MaxChars,        \* bound: characters of a payload
  Places,          \* where events may be: block and log index
  Attributes,      \* attributes of the modern wire shape
  Pairs,           \* attributes of the legacy wire shape
  Conditions,      \* conditions of a filter
  MaxLines,        \* bound: documents of a block
  MaxLine,         \* bound: length of a line
  BufferSizes,     \* lengths of the reorg buffer
  SampleSizes,     \* values of recheck_sample_size
  Heads            \* heights of the chain

ASSUME InputsAssumption ==
  BufferSizes \subseteq Nat \ {0} /\ SampleSizes \subseteq Nat /\ Heads \subseteq Nat

VARIABLES
  call,    \* the function called, and its arguments
  answer   \* what it returned

vars == <<call, answer>>

Idle == [fn |-> "none"]

Init == call = Idle /\ answer = <<>>

Ready == call.fn = "none"

Call(fn, arguments) == call' = [fn |-> fn, arg |-> arguments]

\* The words of a page are numbered by their place.
StripTags ==
  /\ Ready
  /\ \E types \in SeqOf(PieceTypes, MaxPieces) :
       LET page == [i \in DOMAIN types |-> [type |-> types[i], n |-> i]] IN
       Call("strip_tags", page) /\ answer' = strip_tags(Html(page))

ExtractBody ==
  /\ Ready
  /\ \E rules \in SeqOf(ExtractorRules, 2), type \in ContentTypes,
        chars \in SeqOf({"a", "two_bytes", "blank", "invalid"}, MaxChars),
        scalars \in BOOLEAN, prose \in BOOLEAN :
       LET payload == [chars |-> chars, scalars |-> scalars, prose |-> prose] IN
       /\ Call("extract_body", [rules |-> rules, type |-> type, payload |-> payload])
       /\ answer' = extract_body(rules, type.name, type.prefixes, payload)

\* A modern log may carry any u8 as its operation.
Operations(schema) == IF schema = "legacy" THEN OP_CREATE..OP_EXPIRE ELSE 0..2^U8Bits - 1

\* A legacy log names its operation by its signature.
FaultsIn(schema) ==
  IF schema = "legacy" THEN Faults \ {"cut_operation", "wide_operation"} ELSE Faults

EventAt(place, op, expires) ==
  [op |-> op, key |-> "key", owner |-> "owner", previous |-> "previous owner",
   expires |-> expires, block |-> place[1], hash |-> "hash", index |-> place[2]]

\* The node answers with the logs of up to two events, in any order, the first
\* of which may be spoiled ...
FetchLogs ==
  /\ Ready
  /\ \E schema \in {"entity_operation", "legacy"}, places \in SeqOf(Places, 2) :
     \E ops \in [DOMAIN places -> Operations(schema)],
        expires \in [DOMAIN places -> {1, 2^U64Bits - 1}], fault \in FaultsIn(schema) :
       LET events == [i \in DOMAIN places |-> EventAt(places[i], ops[i], expires[i])]
           logs   == [i \in DOMAIN places |->
                        IF i = 1 THEN Spoiled(Emitted(schema, events[i]), fault)
                        ELSE Emitted(schema, events[i])]
       IN  /\ IsInjective(places)
           /\ Call("entity_operation_logs",
                   [schema |-> schema, events |-> events, fault |-> fault, kind |-> "array"])
           /\ answer' = entity_operation_logs(schema, [kind |-> "array", logs |-> logs])

\* ... or it does not answer with logs.
FetchFails ==
  /\ Ready
  /\ \E kind \in {"transport", "http_status", "not_json", "rpc_error", "no_result", "not_array"} :
       /\ Call("entity_operation_logs",
               [schema |-> "legacy", events |-> <<>>, fault |-> "none", kind |-> kind])
       /\ answer' = entity_operation_logs("legacy", [kind |-> kind, logs |-> <<>>])

EntityWith(attributes, numeric, text, payload) ==
  [attributes |-> attributes, numeric_attributes |-> numeric, string_attributes |-> text,
   payload |-> payload, expires_at |-> <<>>]

BuildDocOf(entity) ==
  \E rules \in SeqOf({r \in SeqOf(Conditions, 2) : r # <<>>}, 1)
               \cup {<< <<c>>, <<d>> >> : c \in Conditions, d \in Conditions} :
    /\ Call("to_quickwit_doc", [entity |-> entity, rules |-> rules])
    /\ answer' =
         [doc |-> to_quickwit_doc([operation_type |-> OP_CREATE, owner |-> "owner",
                                   expires_at |-> 0], entity),
          selected |-> entity_matches_filters(rules, entity)]

BuildDoc ==
  /\ Ready
  /\ \E attributes \in SeqOf(Attributes, 2), payload \in {"hex", "not_hex"} :
       BuildDocOf(EntityWith(attributes, <<>>, <<>>, payload))

BuildDocLegacy ==
  /\ Ready
  /\ \E numeric \in SeqOf(Pairs, 1), text \in SeqOf(Pairs, 2) :
       BuildDocOf(EntityWith(<<>>, numeric, text, "hex"))

SplitBatches ==
  /\ Ready
  /\ \E lines \in SeqOf(1..MaxLine, MaxLines), max_docs \in 1..3, max_bytes \in 1..2 * MaxLine :
       /\ Call("split_batches", [lines |-> lines, max_docs |-> max_docs, max_bytes |-> max_bytes])
       /\ answer' = split_batches(lines, max_docs, max_bytes)

\* The samples of as many iterations as the buffer has blocks.
CheckBuffer ==
  /\ Ready
  /\ \E len \in BufferSizes, size \in SampleSizes :
       /\ Call("check_buffer", [len |-> len, size |-> size])
       /\ answer' = [i \in 1..len |-> SampleIndexes(len, size, i)]

LoadFor(file, entity) ==
  /\ Call("load", [file |-> file, entity |-> entity])
  /\ answer' = LET loaded == load(file) IN
               [loaded |-> loaded,
                selected |-> IF loaded.ok
                             THEN entity_matches_filters(loaded.config.filters, entity)
                             ELSE FALSE]

Load(file) == LoadFor(file, EntityWith(<<>>, <<>>, <<>>, "hex"))

\* Only what a file must have.
MinimalFile ==
  [unknown_field |-> FALSE, rpc_url |-> "http", rpc_url_backup |-> <<>>, base_url |-> "https",
   index_id |-> "arkiv", arkiv_address |-> <<>>, start_block |-> <<>>,
   confirmation_depth |-> <<>>, fetch_batch_size_blocks |-> <<>>,
   ingest_batch_size_docs |-> <<>>, ingest_batch_max_bytes |-> <<>>,
   max_delete_terms_per_task |-> <<>>, payload_extractors |-> <<>>, entity_filters |-> <<>>]

\* A rule of entity_filters: all_of or not, with or without fields of its own.
LoadFilters ==
  /\ Ready
  /\ \E fields \in SeqOf([key : {<<>>, <<"">>} \cup {<<c.key>> : c \in Conditions},
                          value : {c.value : c \in Conditions}], 2),
        flat \in [all_of : BOOLEAN, key : {<<>>, <<"">>} \cup {<<c.key>> : c \in Conditions},
                  value : {c.value : c \in Conditions}],
        attributes \in SeqOf({a \in Attributes : a.value_type \in {ATTR_UINT, ATTR_STRING}}, 2) :
       LET rule == [all_of |-> IF flat.all_of THEN <<fields>> ELSE <<>>,
                    key |-> flat.key, value |-> flat.value] IN
       /\ flat.all_of \/ fields = <<>>
       /\ LoadFor([MinimalFile EXCEPT !.entity_filters = <<rule>>],
                  EntityWith(attributes, <<>>, <<>>, "hex"))

OptionalSizes == {<<>>, <<0>>, <<1>>, <<3>>}

LoadSizes ==
  /\ Ready
  /\ \E depth \in OptionalSizes, fetch \in OptionalSizes, docs \in OptionalSizes,
        bytes \in OptionalSizes, terms \in OptionalSizes,
        start \in {<<>>, <<[type |-> "number", number |-> 0]>>, <<[type |-> "number", number |-> 2]>>,
                  <<[type |-> "text", text |-> "head"]>>, <<[type |-> "text", text |-> "tail"]>>} :
       Load([MinimalFile EXCEPT
               !.confirmation_depth = depth, !.fetch_batch_size_blocks = fetch,
               !.ingest_batch_size_docs = docs, !.ingest_batch_max_bytes = bytes,
               !.max_delete_terms_per_task = terms, !.start_block = start])

LoadAddresses ==
  /\ Ready
  /\ \E rpc \in {"http", "ftp"}, backup \in {<<>>, <<"https">>, <<"ftp">>}, base \in {"http", "ftp"},
        index_id \in {"", "arkiv"}, unknown \in BOOLEAN,
        address \in {<<>>} \cup {<<a>> : a \in [prefix : {"0x", ""}, length : {40, 42}]},
        extractors \in SeqOf([content_type : {<<>>, <<"a">>}, content_type_prefix : {<<>>, <<"b">>}], 1) :
       Load([MinimalFile EXCEPT
               !.rpc_url = rpc, !.rpc_url_backup = backup, !.base_url = base, !.index_id = index_id,
               !.arkiv_address = address, !.payload_extractors = extractors,
               !.unknown_field = unknown])

Return ==
  /\ ~Ready
  /\ call' = Idle
  /\ answer' = <<>>

Next ==
  \/ StripTags \/ ExtractBody \/ FetchLogs \/ FetchFails \/ BuildDoc \/ BuildDocLegacy
  \/ SplitBatches \/ CheckBuffer \/ LoadFilters \/ LoadSizes \/ LoadAddresses
  \/ Return

Spec == Init /\ [][Next]_vars

-----------------------------------------------------------------------------
(***************************************************************************)
(* strip_tags keeps the words a reader sees, in their order, and no others *)
(* ("keeps text nodes plus title and alt attribute values; drops markup,   *)
(* scripts, and styles", extract.rs), up to the first "<" that begins no   *)
(* tag.  After that, anything goes: such a "<" swallows what follows it up *)
(* to the next ">", the closing tag of a script or an opening one.         *)
(***************************************************************************)
VisibleTextOnly ==
  call.fn = "strip_tags" =>
    LET page   == call.arg
        stray  == SelectInSeq(page, LAMBDA p : p.type = "stray")
        before == IF stray = 0 THEN page ELSE SubSeq(page, 1, stray - 1)
        seen   == VisibleWords(before)
    IN  IF stray = 0 THEN Words(answer) = seen ELSE IsPrefix(seen, Words(answer))

(***************************************************************************)
(* A payload that is text gets a body, whatever its content type: the      *)
(* exact rules of its type decide, whatever prefix rules stand before      *)
(* them, and only the strategy "none" or a text without prose leaves it    *)
(* out.  What is not text within the first MAX_BODY_BYTES gets none        *)
(* (extract_body, "if the payload is valid UTF-8, it gets indexed").  The  *)
(* limit may cut a character in two: that text is taken for binary.        *)
(***************************************************************************)
TextIsIndexed ==
  call.fn = "extract_body" =>
    LET b       == call.arg
        chars   == b.payload.chars
        inside  == {chars[i] : i \in Whole(chars)}
        exact   == SelectSeq(b.rules, LAMBDA r : r.content_type = b.type.name)
        general == SelectSeq(b.rules, LAMBDA r : r.content_type_prefix \in b.type.prefixes)
        chosen  == exact \o general
        strategy == IF chosen = <<>> THEN default_strategy(b.type.name) ELSE chosen[1].strategy
        is_text == inside \ {"blank"} # {} /\ "invalid" \notin inside
    IN  /\ answer # "nothing" => is_text /\ strategy # "none"
        /\ is_text /\ strategy # "none" /\ ~SplitsCharacter(chars) =>
             IF strategy \in {"html_strip_tags", "utf8_body_strip_markdown"}
             THEN answer = IF b.payload.prose THEN "prose" ELSE "nothing"
             ELSE answer \in {"text", "flattened"}

(***************************************************************************)
(* The logs of a fetch are the events that the contract emitted, in the    *)
(* order of the chain, whatever order the node returned them in, for every *)
(* operation an uint8 can name, in both schemas (entity_operation_logs,    *)
(* "the control loop depends on (block, log_index) ordering").             *)
(***************************************************************************)
LogsAreExact ==
  call.fn = "entity_operation_logs" /\ call.arg.fault = "none" /\ call.arg.kind = "array" =>
    LET meant == [i \in DOMAIN call.arg.events |-> Meant(call.arg.schema, call.arg.events[i])] IN
    /\ answer.ok
    /\ Len(answer.logs) = Len(meant)
    /\ ToSet(answer.logs) = ToSet(meant)
    /\ \A i, j \in DOMAIN answer.logs : i < j => InChainOrder(answer.logs[i], answer.logs[j])

(***************************************************************************)
(* A bad log or a bad answer fails the whole fetch: no event is dropped,   *)
(* moved or given to another entity.  Three fields are read, and not       *)
(* refused, where they are not what the contract emits: an expiration that *)
(* is not there (0) or does not fit (its low bits), the new owner of a     *)
(* legacy transfer that has only three topics (the old one), and an        *)
(* operation above an u8 (its low bits, which may name another operation). *)
(* A log spoiled in a field the schema does not read is as good as any     *)
(* other.  (The event that is spoiled is the first: FetchLogs.)            *)
(***************************************************************************)
BadLogFailsFetch ==
  call.fn = "entity_operation_logs" /\ answer.ok =>
    LET f == call.arg
        Read(i) ==
          LET event == f.events[i]
              transferred == f.schema = "legacy" /\ event.op = OP_TRANSFER
          IN  IF i # 1 THEN Meant(f.schema, event)
              ELSE [Meant(f.schema, event) EXCEPT
                      !.expires_at = CASE f.fault \in {"no_data", "data_not_hex"} -> 0
                                       [] f.fault = "wide_expiration" /\ HasExpiration(f.schema, event) -> 2
                                       [] OTHER -> @,
                      !.owner = IF f.fault = "topic_missing" /\ transferred THEN event.previous ELSE @,
                      !.operation_type = IF f.fault = "cut_operation" THEN OP_DELETE ELSE @]
    IN  /\ f.kind = "array"
        /\ ToSet(answer.logs) = {Read(i) : i \in DOMAIN f.events}
        /\ f.events # <<>> =>
             /\ f.fault \notin {"topic_not_text", "short_owner", "wide_operation", "no_block_number",
                                "no_block_hash", "no_log_index", "wide_log_index"}
             /\ f.schema = "legacy" => f.fault # "unknown_signature"
             /\ f.schema # "legacy" => f.fault \notin {"topic_missing", "data_not_hex"}

(***************************************************************************)
(* The filters and the index agree: an entity whose annotations satisfy a  *)
(* rule is indexed, and one that is indexed can be found by its rule's     *)
(* annotations, unless it carries a string key twice: the filters look at  *)
(* both values, and the document keeps the last (entity_matches_filters,   *)
(* to_quickwit_doc).                                                       *)
(***************************************************************************)
FiltersSeeAnnotations ==
  call.fn = "to_quickwit_doc" /\ answer.doc.ok =>
    LET bag == answer.doc.annotations.string
        Found(c) == c.key \in DOMAIN bag /\ (c.value = <<>> \/ c.value = <<bag[c.key]>>)
        found == \/ call.arg.rules = <<>>
                 \/ \E r \in ToSet(call.arg.rules) : \A c \in ToSet(r) : Found(c)
        list == all_attributes(call.arg.entity)
        strings == {i \in DOMAIN list : list[i].value_type = ATTR_STRING}
        unique == \A i, j \in strings : list[i].key = list[j].key => i = j
    IN  /\ found => answer.selected
        /\ answer.selected /\ unique => found

(***************************************************************************)
(* No attribute is lost or changes its type on the way into the document,  *)
(* in the modern or in the legacy wire shape, except one whose key comes   *)
(* again with the same type; an attribute of an unknown type is an error   *)
(* and never a document without it (to_quickwit_doc, all_attributes).      *)
(***************************************************************************)
AttributesAreKept ==
  call.fn = "to_quickwit_doc" =>
    LET e == call.arg.entity
        given == {[key |-> a.key, type |-> a.value_type, value |-> a.value] :
                    a \in ToSet(e.attributes)}
                 \cup {[key |-> a.key, type |-> 1, value |-> a.value] : a \in ToSet(e.numeric_attributes)}
                 \cup {[key |-> a.key, type |-> 2, value |-> a.value] : a \in ToSet(e.string_attributes)}
        Only(a) == \A x \in given : x.key = a.key /\ x.type = a.type => x = a
        notes == answer.doc.annotations
        Kept(a) == CASE a.type = 1 -> /\ a.key \in DOMAIN notes.uint
                                      /\ notes.uint[a.key] = [value |-> a.value, numeric |-> a.value \in U64]
                     [] a.type = 2 -> a.key \in DOMAIN notes.string /\ notes.string[a.key] = a.value
                     [] a.type = 3 -> a.key \in DOMAIN notes.entity_key /\ notes.entity_key[a.key] = a.value
    IN  /\ answer.doc.ok <=> e.payload # "not_hex" /\ \A a \in given : a.type \in {1, 2, 3}
        /\ answer.doc.ok => \A a \in given : Only(a) => Kept(a)

(***************************************************************************)
(* The batches of a block are its documents in their order, none empty,    *)
(* none over a limit unless it is one document, and as few as a greedy cut *)
(* can make them: no batch would have had room for the first document of   *)
(* the next (split_batches).                                               *)
(***************************************************************************)
BatchesAreRight ==
  call.fn = "split_batches" =>
    LET b == call.arg IN
    /\ FlattenSeq(answer) = b.lines
    /\ \A i \in DOMAIN answer :
         /\ Len(answer[i]) \in 1..b.max_docs
         /\ Len(answer[i]) > 1 => Size(answer[i]) <= b.max_bytes
         /\ i > 1 => \/ Len(answer[i - 1]) = b.max_docs
                     \/ Size(answer[i - 1]) + answer[i][1] > b.max_bytes

(***************************************************************************)
(* While the buffer keeps its blocks, every one of them is checked within  *)
(* as many iterations as there are blocks ("so the whole buffer gets       *)
(* covered over time", check_buffer), provided that recheck_sample_size is *)
(* at least 8, its default, or at least 2 and the number of blocks is no   *)
(* multiple of 7: smaller samples step over the same blocks for ever.      *)
(***************************************************************************)
SampleCoversBuffer ==
  call.fn = "check_buffer" =>
    LET len == call.arg.len  size == call.arg.size IN
    /\ \A i \in DOMAIN answer : len - 1 \in answer[i]
    /\ size >= 8 \/ (size >= 2 /\ len % 7 # 0) => UNION ToSet(answer) = 0..len - 1

(***************************************************************************)
(* The configuration that is loaded selects the entities that its author   *)
(* had in mind (EntityFilterRule): all of them, and no others, unless a    *)
(* rule mixes all_of with a condition of its own, which is dropped without *)
(* a word.  Whatever is written, a list of rules that is not empty never   *)
(* selects an entity without string attributes.                            *)
(***************************************************************************)
FiltersAreAsWritten ==
  call.fn = "load" /\ answer.loaded.ok =>
    LET file == call.arg.file  entity == call.arg.entity IN
    /\ InMind(file, entity) => answer.selected
    /\ answer.selected /\ (\A r \in ToSet(file.entity_filters) : ~IsMixed(r)) => InMind(file, entity)
    /\ answer.selected /\ file.entity_filters # <<>> =>
         \E a \in ToSet(entity.attributes) : a.value_type = ATTR_STRING

(***************************************************************************)
(* Under a configuration that validate() accepts the crawl goes forward:   *)
(* from every cursor, the first one included, that the target has reached, *)
(* the next range begins at the cursor and ends at or above it and at or   *)
(* below the target, and a retraction of any number of entities can be cut *)
(* into tasks (chunks(0) panics).                                          *)
(***************************************************************************)
AcceptedConfigProgresses ==
  call.fn = "load" /\ answer.loaded.ok =>
    LET config == answer.loaded.config IN
    \A head \in Heads :
      LET target == Target(config, head) IN
      /\ \A cursor \in {first_cursor(config.start_block, head)} \cup Heads :
           cursor <= target => EndBlock(config, cursor, target) \in cursor..target
      /\ config.max_delete_terms_per_task > 0
=============================================================================
