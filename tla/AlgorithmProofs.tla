--------------------------- MODULE AlgorithmProofs ---------------------------
(***************************************************************************)
(* What holds of the functions without state for every input, and not only *)
(* for those within the bounds of a run: the sample of check_buffer for a  *)
(* buffer of any length, the annotations of any document, the filters and  *)
(* the sizes of any configuration file.  What folds over a sequence        *)
(* compute is out of the prover's reach.                                   *)
(***************************************************************************)
EXTENDS Algorithms, WellFoundedInduction, TLAPS

-----------------------------------------------------------------------------
(* check_buffer: the slots of as many iterations as there are blocks.        *)

\* A number below the modulus is what remains.
LEMMA Remains ==
  ASSUME NEW len \in Nat \ {0}, NEW t \in 0..len - 1, NEW a \in Nat, NEW c \in Int, a = t + c * len
  PROVE  a % len = t
  BY SMT

\* A slot that some iteration, however late, has at t is at t in one of the first.
LEMMA SoonReached ==
  ASSUME NEW len \in Nat \ {0}, NEW t \in 0..len - 1, NEW s \in Nat,
         NEW j \in Nat \ {0}, NEW c \in Int, 7 * j + 13 * s = t + c * len
  PROVE  \E i \in 1..len : Slot(i, s) % len = t
  <1> DEFINE T == {i \in Nat \ {0} : \E d \in Int : 7 * i + 13 * s = t + d * len}
  <1>1. j \in T /\ T \subseteq Nat
    OBVIOUS
  <1>2. PICK i \in T : \A u \in T : ~ (<<u, i>> \in OpToRel(<, Nat))
    BY <1>1, NatLessThanWellFounded, WFMin
  <1>3. \A u \in T : ~ (u < i)
    BY <1>1, <1>2 DEF OpToRel
  <1>4. PICK d \in Int : 7 * i + 13 * s = t + d * len
    OBVIOUS
  <1>5. i \in 1..len
    <2> SUFFICES ASSUME i > len PROVE FALSE
      OBVIOUS
    <2>1. i - len \in Nat \ {0} /\ 7 * (i - len) + 13 * s = t + (d - 7) * len /\ d - 7 \in Int
      BY <1>4
    <2>2. i - len \in T /\ i - len < i
      BY <2>1
    <2> HIDE DEF T
    <2> QED BY <1>3, <2>2
  <1>6. (7 * i + 13 * s) % len = t
    <2>1. 7 * i + 13 * s \in Nat
      BY <1>5
    <2> HIDE DEF T
    <2> QED BY <1>4, <2>1, Remains
  <1>7. Slot(i, s) % len = t
    <2>1. Slot(i, s) = 7 * i + 13 * s
      BY <1>5 DEF Slot
    <2> QED BY <1>6, <2>1
  <1> QED BY <1>5, <1>7

\* Some multiple of 7 is as far above 13 s as t is, up to multiples of the length.
LEMMA Aligned ==
  ASSUME NEW len \in Nat \ {0}, NEW t \in 0..len - 1, NEW size \in Nat,
         size >= 8 \/ (size >= 2 /\ len % 7 # 0)
  PROVE  \E s \in 0..size - 2 : \E j \in Nat \ {0} : \E c \in Int : 7 * j + 13 * s = t + c * len
  <1>0. PICK e \in 0..6, q \in Int : t = 7 * q + e
    <2>1. t = 7 * (t \div 7) + (t % 7) /\ t % 7 \in 0..6 /\ t \div 7 \in Int
      BY SMT
    <2> QED BY <2>1
  <1>1. CASE size >= 8
    <2>1. PICK s \in 0..6, j \in Int : 7 * j = t - 13 * s
      <3>1. CASE e = 0
        <4>1. 7 * q = t - 13 * 0 /\ 0 \in 0..6
          BY <1>0, <3>1
        <4> QED BY <4>1
      <3>2. CASE e # 0
        <4>1. 7 * (q - 13 + 2 * e) = t - 13 * (7 - e) /\ 7 - e \in 0..6 /\ q - 13 + 2 * e \in Int
          BY <1>0, <3>2
        <4> QED BY <4>1
      <3> QED BY <3>1, <3>2
    <2>2. 7 * j = t - 13 * s
      BY <2>1
    <2>3. s \in 0..size - 2 /\ j + 13 * len \in Nat \ {0}
      BY <1>1, <2>2
    <2>4. 7 * (j + 13 * len) + 13 * s = t + 91 * len /\ 91 \in Int
      BY <2>2
    <2> QED BY <2>3, <2>4
  <1>2. CASE size >= 2 /\ len % 7 # 0
    <2>1. PICK r \in 1..6, p \in Int : len = 7 * p + r
      <3>1. len = 7 * (len \div 7) + (len % 7) /\ len % 7 \in 1..6 /\ len \div 7 \in Int
        BY <1>2, SMT
      <3> QED BY <3>1
    <2>2. PICK x \in 1..6, w \in 0..5 : r * x = 1 + 7 * w
      <3>1. /\ 1 * 1 = 1 + 7 * 0 /\ 2 * 4 = 1 + 7 * 1 /\ 3 * 5 = 1 + 7 * 2
            /\ 4 * 2 = 1 + 7 * 1 /\ 5 * 3 = 1 + 7 * 2 /\ 6 * 6 = 1 + 7 * 5
        OBVIOUS
      <3> QED BY <3>1
    <2> DEFINE m == (7 - e) * x
               j == q + 1 + (7 - e) * w + m * p
    <2>3. m \in Nat /\ j \in Int
      OBVIOUS
    <2>4. 7 * j = t + m * len
      <3>1. m * len = 7 * (m * p) + (7 - e) * (r * x)
        BY <2>1
      <3>2. (7 - e) * (r * x) = (7 - e) + 7 * ((7 - e) * w)
        BY <2>2
      <3>3. m * p \in Int /\ (7 - e) * w \in Int
        BY <2>3
      <3> HIDE DEF m
      <3> QED BY <1>0, <3>1, <3>2, <3>3
    <2> HIDE DEF m, j
    <2>5. 0 \in 0..size - 2 /\ j + len \in Nat \ {0}
      <3>1. m * len \in Nat
        BY <2>3
      <3> QED BY <1>2, <2>3, <2>4, <3>1
    <2>6. 7 * (j + len) + 13 * 0 = t + (m + 7) * len /\ m + 7 \in Int
      BY <2>3, <2>4
    <2> QED BY <2>5, <2>6
  <1> QED BY <1>1, <1>2

\* Every block is checked within as many iterations as there are blocks.
LEMMA SampleCovers ==
  ASSUME NEW len \in Nat \ {0}, NEW size \in Nat
  PROVE  /\ \A i \in 1..len : len - 1 \in SampleIndexes(len, size, i)
         /\ size >= 8 \/ (size >= 2 /\ len % 7 # 0) =>
              UNION {SampleIndexes(len, size, i) : i \in 1..len} = 0..len - 1
  <1>1. \A i \in 1..len : len - 1 \in SampleIndexes(len, size, i)
    BY DEF SampleIndexes
  <1>2. \A i \in 1..len : SampleIndexes(len, size, i) \subseteq 0..len - 1
    <2> SUFFICES ASSUME NEW i \in 1..len, NEW slot \in 1..(size - 1)
                 PROVE  Slot(i, slot - 1) % len \in 0..len - 1
      BY DEF SampleIndexes
    <2>1. Slot(i, slot - 1) \in Nat
      BY DEF Slot
    <2> QED BY <2>1
  <1>3. ASSUME size >= 8 \/ (size >= 2 /\ len % 7 # 0), NEW t \in 0..len - 1
        PROVE  \E i \in 1..len : t \in SampleIndexes(len, size, i)
    <2>1. PICK s \in 0..size - 2 : \E j \in Nat \ {0} : \E c \in Int : 7 * j + 13 * s = t + c * len
      BY <1>3, Aligned
    <2>2. PICK i \in 1..len : Slot(i, s) % len = t
      <3>1. PICK j \in Nat \ {0}, c \in Int : 7 * j + 13 * s = t + c * len
        BY <2>1
      <3>2. s \in Nat
        BY <1>3
      <3> QED BY <3>1, <3>2, SoonReached
    <2>3. s + 1 \in 1..(size - 1) /\ (s + 1) - 1 = s
      OBVIOUS
    <2>4. t \in {Slot(i, slot - 1) % len : slot \in 1..(size - 1)}
      BY <2>2, <2>3
    <2> QED BY <2>4 DEF SampleIndexes
  <1> QED BY <1>1, <1>2, <1>3

-----------------------------------------------------------------------------
(* load and validate.                                                        *)

\* A field that is left out, or has a value of set S.
IsOptional(field, S) == field = <<>> \/ \E v \in S : field = <<v>>

\* What a configuration file may hold, as far as its type goes.
IsFile(file) ==
  /\ IsOptional(file.confirmation_depth, Nat)
  /\ IsOptional(file.fetch_batch_size_blocks, Nat)
  /\ IsOptional(file.max_delete_terms_per_task, Nat)
  /\ file.start_block = <<>> \/
       \E start : /\ file.start_block = <<start>>
                  /\ start.type = "text" \/ (start.type = "number" /\ start.number \in Nat)
  /\ \E R : file.entity_filters \in Seq(R)

\* An entity of the modern wire shape.
IsModern(entity) == all_attributes(entity) = entity.attributes

\* What is loaded is what is written, if it is accepted.
LEMMA LoadedIsParsed ==
  ASSUME NEW file, load(file).ok
  PROVE  IsYaml(file) /\ validate(Parsed(file)) /\ load(file).config = Parsed(file)
  <1> DEFINE accepted == IsYaml(file) /\ validate(Parsed(file))
             parsed == Parsed(file)
  <1>1. load(file) = IF accepted THEN [ok |-> TRUE, config |-> parsed] ELSE [ok |-> FALSE]
    BY Zenon DEF load
  <1> HIDE DEF accepted, parsed
  <1>2. CASE accepted
    <2>1. load(file) = [ok |-> TRUE, config |-> parsed]
      BY <1>1, <1>2
    <2>2. load(file).config = parsed
      BY <2>1
    <2> QED BY <1>2, <2>2 DEF accepted, parsed
  <1>3. CASE ~accepted
    <2>1. load(file) = [ok |-> FALSE]
      BY <1>1, <1>3
    <2>2. load(file).ok = FALSE
      BY <2>1
    <2> QED BY <2>2
  <1> QED BY <1>2, <1>3

\* The sizes that are accepted are numbers, and those that advance the crawl are not zero.
LEMMA AcceptedSizes ==
  ASSUME NEW file, IsFile(file), validate(Parsed(file))
  PROVE  /\ Parsed(file).confirmation_depth \in Nat
         /\ Parsed(file).fetch_batch_size_blocks \in Nat \ {0}
         /\ Parsed(file).max_delete_terms_per_task \in Nat \ {0}
         /\ Parsed(file).start_block = StartBlock(file.start_block)
  <1>1. ASSUME NEW field, NEW value \in Nat, IsOptional(field, Nat) PROVE Default(field, value) \in Nat
    BY <1>1 DEF IsOptional, Default
  <1>2. /\ Parsed(file).confirmation_depth = Default(file.confirmation_depth, 32)
        /\ Parsed(file).fetch_batch_size_blocks = Default(file.fetch_batch_size_blocks, 1024)
        /\ Parsed(file).max_delete_terms_per_task = Default(file.max_delete_terms_per_task, 500)
        /\ Parsed(file).start_block = StartBlock(file.start_block)
    BY DEF Parsed, default_confirmation_depth, default_fetch_batch_size_blocks,
           default_max_delete_terms_per_task
  <1>3. /\ Default(file.confirmation_depth, 32) \in Nat
        /\ Default(file.fetch_batch_size_blocks, 1024) \in Nat
        /\ Default(file.max_delete_terms_per_task, 500) \in Nat
    BY <1>1 DEF IsFile
  <1>4. Parsed(file).fetch_batch_size_blocks # 0 /\ Parsed(file).max_delete_terms_per_task # 0
    BY DEF validate, PositiveSizes
  <1> QED BY <1>2, <1>3, <1>4

\* Every range that an accepted file makes begins at the cursor and stays below the target.
LEMMA Progresses ==
  ASSUME NEW file, IsFile(file), load(file).ok, NEW head \in Nat
  PROVE  LET config == load(file).config
             target == Target(config, head)
         IN  /\ \A cursor \in {first_cursor(config.start_block, head)} \cup Nat :
                  cursor <= target => EndBlock(config, cursor, target) \in cursor..target
             /\ config.max_delete_terms_per_task > 0
  <1> DEFINE config == Parsed(file)
             target == Target(config, head)
  <1>1. /\ config.confirmation_depth \in Nat
        /\ config.fetch_batch_size_blocks \in Nat \ {0}
        /\ config.max_delete_terms_per_task \in Nat \ {0}
        /\ config.start_block = StartBlock(file.start_block)
        /\ load(file).config = config
    BY LoadedIsParsed, AcceptedSizes
  <1>2. first_cursor(StartBlock(file.start_block), head) \in Nat
    <2>1. CASE file.start_block = <<>>
      BY <2>1 DEF StartBlock, first_cursor
    <2>2. CASE file.start_block # <<>>
      <3>1. PICK start : /\ file.start_block = <<start>>
                         /\ start.type = "text" \/ (start.type = "number" /\ start.number \in Nat)
        BY <2>2 DEF IsFile
      <3>2. file.start_block[1] = start
        BY <3>1
      <3>3. CASE start.type = "text"
        <4>1. StartBlock(file.start_block) = [type |-> "Head"]
          BY <2>2, <3>2, <3>3 DEF StartBlock
        <4> QED BY <4>1 DEF first_cursor
      <3>4. CASE start.type = "number" /\ start.number \in Nat
        <4>1. StartBlock(file.start_block) =
                IF start.number = 0 THEN [type |-> "Genesis"]
                ELSE [type |-> "Number", number |-> start.number]
          BY <2>2, <3>2, <3>4 DEF StartBlock
        <4> QED BY <3>4, <4>1 DEF first_cursor
      <3> QED BY <3>1, <3>3, <3>4
    <2> QED BY <2>1, <2>2
  <1> HIDE DEF config
  <1>3. target \in Nat
    BY <1>1 DEF Target
  <1> HIDE DEF target
  <1>4. \A cursor \in Nat : cursor <= target => EndBlock(config, cursor, target) \in cursor..target
    BY <1>1, <1>3 DEF EndBlock
  <1> QED BY <1>1, <1>2, <1>4 DEF target

-----------------------------------------------------------------------------
(* EntityFilterRule and entity_matches_filters.                              *)

\* A condition holds of an entity of the modern shape if one of its strings meets it.
LEMMA ConditionMeans ==
  ASSUME NEW entity, IsModern(entity), NEW c
  PROVE  condition_holds(c, all_attributes(entity)) <=> HasString(entity, c)
  BY DEF IsModern, condition_holds, HasString, IsMetBy

\* What is read of a rule is what is written in it, or its all_of if it mixes both forms.
LEMMA ReadAsWritten ==
  ASSUME NEW rule, IsRule(rule)
  PROVE  /\ \A i \in DOMAIN conditions(rule) : conditions(rule)[i] \in Written(rule)
         /\ ~IsMixed(rule) =>
              \A c \in Written(rule) : \E i \in DOMAIN conditions(rule) : conditions(rule)[i] = c
  <1>1. CASE IsAllOf(rule)
    <2> DEFINE list == rule.all_of[1]
    <2>1. conditions(rule) = [i \in DOMAIN list |-> Condition(list[i])]
      BY <1>1 DEF conditions
    <2>2. rule.all_of # <<>> /\ \A i \in DOMAIN list : Condition(list[i]) \in Written(rule)
      BY <1>1 DEF IsAllOf, Written
    <2>3. ~IsMixed(rule) => \A c \in Written(rule) : \E i \in DOMAIN list : c = Condition(list[i])
      BY <2>2 DEF IsMixed, Written
    <2> HIDE DEF list
    <2> QED BY <2>1, <2>2, <2>3
  <1>2. CASE ~IsAllOf(rule)
    <2>1. rule.all_of = <<>> /\ IsCondition(rule)
      BY <1>2 DEF IsRule, IsSingle
    <2>2. conditions(rule) = <<Condition(rule)>>
      BY <1>2 DEF conditions
    <2>3. Written(rule) = {Condition(rule)}
      BY <2>1 DEF Written
    <2> DEFINE c == Condition(rule)
    <2> HIDE DEF c
    <2>4. DOMAIN <<c>> = {1} /\ <<c>>[1] = c
      OBVIOUS
    <2> QED BY <2>2, <2>3, <2>4 DEF c
  <1> QED BY <1>1, <1>2

\* A rule without conditions is the empty one.
LEMMA HasConditions ==
  ASSUME NEW rule, conditions(rule) # <<>>
  PROVE  \E c : c \in DOMAIN conditions(rule)
  <1>1. CASE IsAllOf(rule)
    <2> DEFINE list == rule.all_of[1]
    <2>1. conditions(rule) = [i \in DOMAIN list |-> Condition(list[i])]
      BY <1>1 DEF conditions
    <2> HIDE DEF list
    <2>2. DOMAIN list # {}
      <3> SUFFICES ASSUME DOMAIN list = {} PROVE FALSE
        OBVIOUS
      <3>1. [i \in DOMAIN list |-> Condition(list[i])] = <<>>
        OBVIOUS
      <3> QED BY <2>1, <3>1
    <2> QED BY <2>1, <2>2
  <1>2. CASE ~IsAllOf(rule)
    <2> DEFINE c == Condition(rule)
    <2>1. conditions(rule) = <<c>>
      BY <1>2 DEF conditions
    <2> HIDE DEF c
    <2> QED BY <2>1
  <1> QED BY <1>1, <1>2

\* The file that is loaded selects whom its author had in mind.
LEMMA FiltersMean ==
  ASSUME NEW file, IsFile(file), load(file).ok, NEW entity, IsModern(entity)
  PROVE  LET selected == entity_matches_filters(load(file).config.filters, entity)
         IN  /\ InMind(file, entity) => selected
             /\ selected /\ (\A r \in ToSet(file.entity_filters) : ~IsMixed(r)) => InMind(file, entity)
             /\ selected /\ file.entity_filters # <<>> =>
                  \E a \in ToSet(entity.attributes) : a.value_type = ATTR_STRING
  <1> DEFINE written == file.entity_filters
             filters == load(file).config.filters
  <1>1. /\ IsYaml(file) /\ validate(Parsed(file))
        /\ filters = [i \in DOMAIN written |-> conditions(written[i])]
    BY LoadedIsParsed DEF Parsed
  <1>2. \A i \in DOMAIN written : IsRule(written[i])
    BY <1>1 DEF IsYaml
  <1>3. \A i \in DOMAIN written : conditions(written[i]) # <<>>
    <2>1. Constrains(Parsed(file).filters) /\ Parsed(file).filters = filters
      BY <1>1, LoadedIsParsed DEF validate
    <2> QED BY <1>1, <2>1 DEF Constrains
  <1>4. PICK R : written \in Seq(R)
    BY DEF IsFile
  <1>5. filters = <<>> <=> written = <<>>
    BY <1>1, <1>4
  <1> HIDE DEF written, filters
  <1>6. entity_matches_filters(filters, entity) <=>
          \/ written = <<>>
          \/ \E i \in DOMAIN written : \A c \in DOMAIN conditions(written[i]) :
               HasString(entity, conditions(written[i])[c])
    BY <1>1, <1>5, ConditionMeans DEF entity_matches_filters
  <1>7. InMind(file, entity) <=>
          \/ written = <<>>
          \/ \E i \in DOMAIN written : \A c \in Written(written[i]) : HasString(entity, c)
    BY DEF InMind, written
  <1>8. InMind(file, entity) => entity_matches_filters(filters, entity)
    BY <1>2, <1>6, <1>7, ReadAsWritten
  <1>9. ASSUME entity_matches_filters(filters, entity), \A r \in ToSet(written) : ~IsMixed(r)
        PROVE  InMind(file, entity)
    <2>1. \A i \in DOMAIN written : ~IsMixed(written[i])
      BY <1>9 DEF ToSet
    <2> QED BY <1>2, <1>6, <1>7, <1>9, <2>1, ReadAsWritten
  <1>10. ASSUME entity_matches_filters(filters, entity), written # <<>>
         PROVE  \E a \in ToSet(entity.attributes) : a.value_type = ATTR_STRING
    <2>1. PICK i \in DOMAIN written : \A c \in DOMAIN conditions(written[i]) :
                                        HasString(entity, conditions(written[i])[c])
      BY <1>6, <1>10
    <2>2. PICK c : HasString(entity, c)
      <3>1. \E c : c \in DOMAIN conditions(written[i])
        BY <1>2, <1>3, HasConditions
      <3> QED BY <2>1, <3>1
    <2> QED BY <2>2 DEF HasString, ToSet
  <1> QED BY <1>8, <1>9, <1>10 DEF written, filters

-----------------------------------------------------------------------------
(* all_attributes, to_quickwit_doc, and the filters again.                   *)

\* The lists of an entity are sequences.
IsEntity(entity) ==
  \E S : {entity.attributes, entity.numeric_attributes, entity.string_attributes} \subseteq Seq(S)

Noted(a) == [key |-> a.key, type |-> a.value_type, value |-> a.value]

\* The attributes of both wire shapes.
Given(entity) ==
  {[key |-> a.key, type |-> a.value_type, value |-> a.value] : a \in ToSet(entity.attributes)}
    \cup {[key |-> a.key, type |-> 1, value |-> a.value] : a \in ToSet(entity.numeric_attributes)}
    \cup {[key |-> a.key, type |-> 2, value |-> a.value] : a \in ToSet(entity.string_attributes)}

LEMMA ConcatElements ==
  ASSUME NEW T, NEW s \in Seq(T), NEW t \in Seq(T)
  PROVE  /\ s \o t \in Seq(T)
         /\ ToSet(s \o t) = ToSet(s) \cup ToSet(t)
  <1>1. /\ s \o t \in Seq(T) /\ DOMAIN (s \o t) = 1..Len(s) + Len(t)
        /\ Len(s) \in Nat /\ Len(t) \in Nat /\ DOMAIN s = 1..Len(s) /\ DOMAIN t = 1..Len(t)
        /\ \A i \in 1..Len(s) : (s \o t)[i] = s[i]
    OBVIOUS
  <1>2. \A j \in 1..Len(t) : (s \o t)[Len(s) + j] = t[j]
    <2> SUFFICES ASSUME NEW j \in 1..Len(t) PROVE (s \o t)[Len(s) + j] = t[j]
      OBVIOUS
    <2>1. Len(s) + j \in 1..Len(s) + Len(t) /\ ~(Len(s) + j <= Len(s)) /\ Len(s) + j - Len(s) = j
      BY <1>1
    <2> QED BY <1>1, <2>1
  <1>3. \A i \in 1..Len(s) + Len(t) :
          i \in 1..Len(s) \/ \E j \in 1..Len(t) : i = Len(s) + j
    <2> SUFFICES ASSUME NEW i \in 1..Len(s) + Len(t), i \notin 1..Len(s)
                 PROVE  \E j \in 1..Len(t) : i = Len(s) + j
      OBVIOUS
    <2>1. i - Len(s) \in 1..Len(t) /\ i = Len(s) + (i - Len(s))
      BY <1>1
    <2> QED BY <2>1
  <1> DEFINE u == s \o t
  <1>4. /\ DOMAIN u = 1..Len(s) + Len(t) /\ \A i \in 1..Len(s) : u[i] = s[i]
        /\ \A j \in 1..Len(t) : u[Len(s) + j] = t[j]
    BY <1>1, <1>2
  <1> HIDE DEF u
  <1>5. ToSet(u) \subseteq ToSet(s) \cup ToSet(t)
    BY <1>1, <1>3, <1>4 DEF ToSet
  <1>6. ToSet(s) \subseteq ToSet(u)
    <2>1. \A i \in 1..Len(s) : i \in 1..Len(s) + Len(t)
      BY <1>1
    <2> QED BY <1>1, <1>4, <2>1 DEF ToSet
  <1>7. ToSet(t) \subseteq ToSet(u)
    <2>1. \A j \in 1..Len(t) : Len(s) + j \in 1..Len(s) + Len(t)
      BY <1>1
    <2> QED BY <1>1, <1>4, <2>1 DEF ToSet
  <1> QED BY <1>1, <1>5, <1>6, <1>7 DEF u

LEMMA TypedElements ==
  ASSUME NEW S, NEW list \in Seq(S), NEW type, NEW T,
         \A a \in ToSet(list) : Attribute(a.key, type, a.value) \in T
  PROVE  /\ Typed(list, type) \in Seq(T)
         /\ ToSet(Typed(list, type)) = {Attribute(a.key, type, a.value) : a \in ToSet(list)}
  <1> DEFINE typed == Typed(list, type)
  <1>1. /\ DOMAIN typed = DOMAIN list
        /\ \A i \in DOMAIN list : typed[i] = Attribute(list[i].key, type, list[i].value)
    BY DEF Typed
  <1>2. ToSet(typed) = {Attribute(a.key, type, a.value) : a \in ToSet(list)}
    BY <1>1 DEF ToSet
  <1>3. \A i \in DOMAIN list : typed[i] \in T
    BY <1>1 DEF ToSet
  <1>4. typed \in Seq(T)
    <2>1. DOMAIN list = 1..Len(list) /\ Len(list) \in Nat
      OBVIOUS
    <2>2. typed = [i \in DOMAIN list |-> Attribute(list[i].key, type, list[i].value)]
      BY DEF Typed
    <2>3. \A i \in DOMAIN list : Attribute(list[i].key, type, list[i].value) \in T
      BY <1>1, <1>3
    <2> HIDE DEF typed
    <2>4. typed \in [1..Len(list) -> T]
      BY <2>1, <2>2, <2>3
    <2> QED BY <2>1, <2>4
  <1> HIDE DEF typed
  <1>5. typed \in Seq(T) /\ ToSet(typed) = {Attribute(a.key, type, a.value) : a \in ToSet(list)}
    BY <1>2, <1>4
  <1> QED BY <1>5 DEF typed

\* What all_attributes returns is what the node gave.
LEMMA AllAreGiven ==
  ASSUME NEW entity, IsEntity(entity)
  PROVE  /\ \E n \in Nat : DOMAIN all_attributes(entity) = 1..n
         /\ \A g : g \in Given(entity) <=> \E a \in ToSet(all_attributes(entity)) : g = Noted(a)
  <1> DEFINE A == entity.attributes
             N == entity.numeric_attributes
             W == entity.string_attributes
  <1>1. PICK S : A \in Seq(S) /\ N \in Seq(S) /\ W \in Seq(S)
    BY DEF IsEntity
  <1> DEFINE T == S \cup {Attribute(a.key, ATTR_UINT, a.value) : a \in ToSet(N)}
                    \cup {Attribute(a.key, ATTR_STRING, a.value) : a \in ToSet(W)}
             U == Typed(N, ATTR_UINT)
             V == Typed(W, ATTR_STRING)
  <1>2. A \in Seq(T)
    <2>1. S \subseteq T
      OBVIOUS
    <2> HIDE DEF A, T
    <2> QED BY <1>1, <2>1
  <1>3. U \in Seq(T) /\ ToSet(U) = {Attribute(a.key, ATTR_UINT, a.value) : a \in ToSet(N)}
    BY <1>1, TypedElements
  <1>4. V \in Seq(T) /\ ToSet(V) = {Attribute(a.key, ATTR_STRING, a.value) : a \in ToSet(W)}
    BY <1>1, TypedElements
  <1> DEFINE AU == A \o U
             all == AU \o V
  <1>5. all_attributes(entity) = all
    BY DEF all_attributes
  <1> HIDE DEF A, N, W, U, V, T
  <1>6. all \in Seq(T) /\ ToSet(all) = ToSet(A) \cup ToSet(U) \cup ToSet(V)
    <2>1. AU \in Seq(T) /\ ToSet(AU) = ToSet(A) \cup ToSet(U)
      BY <1>2, <1>3, ConcatElements
    <2> HIDE DEF AU
    <2>2. all \in Seq(T) /\ ToSet(all) = ToSet(AU) \cup ToSet(V)
      BY <1>4, <2>1, ConcatElements
    <2> QED BY <2>1, <2>2
  <1> HIDE DEF AU, all
  <1> DEFINE R(a, type) == [key |-> a.key, type |-> type, value |-> a.value]
  <1>7. \A a, type : Noted(Attribute(a.key, type, a.value)) = R(a, type)
    BY DEF Noted, Attribute
  <1>8. \A g : g \in Given(entity) <=>
          \/ \E a \in ToSet(A) : g = Noted(a)
          \/ \E a \in ToSet(N) : g = R(a, ATTR_UINT)
          \/ \E a \in ToSet(W) : g = R(a, ATTR_STRING)
    BY DEF Given, Noted, A, N, W, ATTR_UINT, ATTR_STRING
  <1> HIDE DEF R
  <1>9. \A g : (\E a \in ToSet(U) : g = Noted(a)) <=> \E a \in ToSet(N) : g = R(a, ATTR_UINT)
    BY <1>3, <1>7
  <1>10. \A g : (\E a \in ToSet(V) : g = Noted(a)) <=> \E a \in ToSet(W) : g = R(a, ATTR_STRING)
    BY <1>4, <1>7
  <1>11. \A g : g \in Given(entity) <=> \E a \in ToSet(all) : g = Noted(a)
    <2> DEFINE NotesOf(g, X) == \E a \in X : g = Noted(a)
    <2> TAKE g
    <2>1. NotesOf(g, ToSet(all)) <=>
            NotesOf(g, ToSet(A)) \/ NotesOf(g, ToSet(U)) \/ NotesOf(g, ToSet(V))
      BY <1>6
    <2>2. g \in Given(entity) <=>
            NotesOf(g, ToSet(A)) \/ NotesOf(g, ToSet(U)) \/ NotesOf(g, ToSet(V))
      BY <1>8, <1>9, <1>10
    <2>3. (\E a \in ToSet(all) : g = Noted(a)) <=> NotesOf(g, ToSet(all))
      OBVIOUS
    <2> HIDE DEF NotesOf
    <2> QED BY <2>1, <2>2, <2>3
  <1>12. \E n \in Nat : DOMAIN all = 1..n
    BY <1>6
  <1> QED BY <1>5, <1>11, <1>12

\* The last of some places.
LEMMA LastPlace ==
  ASSUME NEW n \in Nat, NEW places, places \subseteq 1..n, places # {}
  PROVE  \E i \in places : \A j \in places : j <= i
  <1> DEFINE T == {n - i : i \in places}
  <1>1. T \subseteq Nat /\ \E x : x \in T
    OBVIOUS
  <1>2. PICK m \in T : \A u \in T : ~ (<<u, m>> \in OpToRel(<, Nat))
    BY <1>1, NatLessThanWellFounded, WFMin
  <1>3. \A u \in T : ~ (u < m)
    BY <1>1, <1>2 DEF OpToRel
  <1>4. PICK i \in places : m = n - i
    OBVIOUS
  <1>5. \A j \in places : j <= i
    <2> SUFFICES ASSUME NEW j \in places PROVE j <= i
      OBVIOUS
    <2>1. n - j \in T
      OBVIOUS
    <2> HIDE DEF T
    <2>2. ~ (n - j < n - i)
      BY <1>3, <1>4, <2>1
    <2>3. i \in Int /\ j \in Int
      OBVIOUS
    <2> QED BY <2>2, <2>3
  <1> QED BY <1>5

\* A key of a sub-bag has the value of the last attribute of its type.
LEMMA BagKeepsLast ==
  ASSUME NEW list, NEW n \in Nat, DOMAIN list = 1..n, NEW type
  PROVE  /\ \A i \in Own(list, type) : list[i].key \in DOMAIN Bag(list, type)
         /\ \A k \in DOMAIN Bag(list, type) : \E i \in Own(list, type) :
              /\ list[i].key = k
              /\ Bag(list, type)[k] = list[i].value
  <1>1. /\ DOMAIN Bag(list, type) = {list[i].key : i \in Own(list, type)}
        /\ \A k \in DOMAIN Bag(list, type) : Bag(list, type)[k] = list[LastOf(list, type, k)].value
    BY DEF Bag
  <1>2. ASSUME NEW k \in DOMAIN Bag(list, type)
        PROVE  LastOf(list, type, k) \in Own(list, type) /\ list[LastOf(list, type, k)].key = k
    <2> DEFINE places == {i \in Own(list, type) : list[i].key = k}
    <2>1. places \subseteq 1..n /\ places # {}
      BY <1>1, <1>2 DEF Own
    <2>2. PICK i \in places : \A j \in places : j <= i
      BY <2>1, LastPlace
    <2>3. /\ i \in Own(list, type) /\ list[i].key = k
          /\ \A j \in Own(list, type) : list[j].key = k => j <= i
      BY <2>2
    <2> QED BY <2>3 DEF LastOf
  <1> QED BY <1>1, <1>2

\* What stands in a sub-bag, when nothing else with its key and type is given.
LEMMA OnlyOneStays ==
  ASSUME NEW entity, IsEntity(entity), NEW a \in Given(entity),
         \A x \in Given(entity) : x.key = a.key /\ x.type = a.type => x = a
  PROVE  LET bag == Bag(all_attributes(entity), a.type)
         IN  a.key \in DOMAIN bag /\ bag[a.key] = a.value
  <1> DEFINE list == all_attributes(entity)
             bag == Bag(list, a.type)
  <1>1. PICK n \in Nat : DOMAIN list = 1..n
    BY AllAreGiven
  <1>2. \A i \in DOMAIN list : Noted(list[i]) \in Given(entity)
    BY AllAreGiven DEF ToSet
  <1>3. PICK i \in DOMAIN list : a = Noted(list[i])
    BY AllAreGiven DEF ToSet
  <1> HIDE DEF list
  <1>4. i \in Own(list, a.type) /\ a.key = list[i].key
    BY <1>3 DEF Own, Noted
  <1>5. a.key \in DOMAIN bag
    BY <1>1, <1>4, BagKeepsLast
  <1>6. PICK j \in Own(list, a.type) : list[j].key = a.key /\ bag[a.key] = list[j].value
    BY <1>1, <1>5, BagKeepsLast
  <1>7. /\ j \in DOMAIN list /\ Noted(list[j]).key = a.key /\ Noted(list[j]).type = a.type
        /\ Noted(list[j]).value = list[j].value
    BY <1>6 DEF Own, Noted
  <1>8. Noted(list[j]) = a
    BY <1>2, <1>7
  <1> QED BY <1>5, <1>6, <1>7, <1>8 DEF list

LEMMA DocKeeps ==
  ASSUME NEW entity, IsEntity(entity), NEW log
  PROVE  LET doc == to_quickwit_doc(log, entity)
             notes == doc.annotations
         IN  /\ doc.ok <=> entity.payload # "not_hex" /\ \A a \in Given(entity) : a.type \in {1, 2, 3}
             /\ doc.ok => \A a \in Given(entity) :
                  (\A x \in Given(entity) : x.key = a.key /\ x.type = a.type => x = a) =>
                    /\ a.type = 1 => /\ a.key \in DOMAIN notes.uint
                                     /\ notes.uint[a.key] = [value |-> a.value, numeric |-> a.value \in U64]
                    /\ a.type = 2 => a.key \in DOMAIN notes.string /\ notes.string[a.key] = a.value
                    /\ a.type = 3 => a.key \in DOMAIN notes.entity_key /\ notes.entity_key[a.key] = a.value
  <1> DEFINE list == all_attributes(entity)
             doc == to_quickwit_doc(log, entity)
             notes == doc.annotations
  <1>1. KnownTypes(list) <=> \A a \in Given(entity) : a.type \in {1, 2, 3}
    <2>1. \A i \in DOMAIN list : Noted(list[i]).type = list[i].value_type
      BY DEF Noted
    <2>2. (\A a \in Given(entity) : a.type \in {1, 2, 3})
            <=> \A i \in DOMAIN list : Noted(list[i]).type \in {1, 2, 3}
      BY AllAreGiven DEF ToSet
    <2> QED BY <2>1, <2>2 DEF KnownTypes, ATTR_UINT, ATTR_STRING, ATTR_ENTITY_KEY
  <1>2. /\ doc.ok <=> entity.payload # "not_hex" /\ KnownTypes(list)
        /\ doc.ok => notes = Annotations(list)
    BY DEF to_quickwit_doc
  <1>3. /\ Annotations(list).string = Bag(list, 2)
        /\ Annotations(list).entity_key = Bag(list, 3)
        /\ Annotations(list).uint = [k \in DOMAIN Bag(list, 1) |-> UintValue(Bag(list, 1)[k])]
    BY DEF Annotations, ATTR_UINT, ATTR_STRING, ATTR_ENTITY_KEY
  <1>4. ASSUME NEW a \in Given(entity),
               \A x \in Given(entity) : x.key = a.key /\ x.type = a.type => x = a
        PROVE  a.key \in DOMAIN Bag(list, a.type) /\ Bag(list, a.type)[a.key] = a.value
    BY <1>4, OnlyOneStays
  <1>5. \A v : UintValue(v) = [value |-> v, numeric |-> v \in U64]
    BY DEF UintValue
  <1> HIDE DEF list, doc, notes
  <1>6. ASSUME doc.ok, NEW a \in Given(entity),
               \A x \in Given(entity) : x.key = a.key /\ x.type = a.type => x = a
        PROVE  /\ a.type = 1 => /\ a.key \in DOMAIN notes.uint
                                /\ notes.uint[a.key] = [value |-> a.value, numeric |-> a.value \in U64]
               /\ a.type = 2 => a.key \in DOMAIN notes.string /\ notes.string[a.key] = a.value
               /\ a.type = 3 => a.key \in DOMAIN notes.entity_key /\ notes.entity_key[a.key] = a.value
    <2>1. a.key \in DOMAIN Bag(list, a.type) /\ Bag(list, a.type)[a.key] = a.value
      BY <1>4, <1>6
    <2>2. notes = Annotations(list)
      BY <1>2, <1>6
    <2> QED BY <1>3, <1>5, <2>1, <2>2
  <1> QED BY <1>1, <1>2, <1>6 DEF doc, notes

\* The conditions that the annotations meet hold, and those that hold are met unless a key has
\* two strings.
LEMMA StringsSeen ==
  ASSUME NEW entity, IsEntity(entity), NEW c
  PROVE  LET list == all_attributes(entity)
             bag == Bag(list, ATTR_STRING)
             Found == c.key \in DOMAIN bag /\ (c.value = <<>> \/ c.value = <<bag[c.key]>>)
             strings == {i \in DOMAIN list : list[i].value_type = ATTR_STRING}
         IN  /\ Found => condition_holds(c, list)
             /\ condition_holds(c, list) /\ (\A i, j \in strings : list[i].key = list[j].key => i = j)
                  => Found
  <1> DEFINE list == all_attributes(entity)
             bag == Bag(list, ATTR_STRING)
             Found == c.key \in DOMAIN bag /\ (c.value = <<>> \/ c.value = <<bag[c.key]>>)
  <1>1. PICK n \in Nat : DOMAIN list = 1..n
    BY AllAreGiven
  <1> HIDE DEF list
  <1>2. Own(list, ATTR_STRING) = {i \in DOMAIN list : list[i].value_type = ATTR_STRING}
    BY DEF Own
  <1>3. Found => condition_holds(c, list)
    <2> SUFFICES ASSUME Found PROVE condition_holds(c, list)
      OBVIOUS
    <2>1. PICK i \in Own(list, ATTR_STRING) : list[i].key = c.key /\ bag[c.key] = list[i].value
      BY <1>1, BagKeepsLast
    <2> HIDE DEF bag
    <2>2. i \in DOMAIN list /\ IsMetBy(c, list[i])
      BY <1>2, <2>1 DEF IsMetBy
    <2> QED BY <2>2 DEF condition_holds
  <1>4. ASSUME condition_holds(c, list),
               \A i, j \in Own(list, ATTR_STRING) : list[i].key = list[j].key => i = j
        PROVE  Found
    <2>1. PICK i \in DOMAIN list : IsMetBy(c, list[i])
      BY <1>4 DEF condition_holds
    <2>2. /\ i \in Own(list, ATTR_STRING) /\ list[i].key = c.key
          /\ c.value = <<>> \/ c.value = <<list[i].value>>
      BY <1>2, <2>1 DEF IsMetBy
    <2>3. c.key \in DOMAIN bag
      BY <1>1, <2>2, BagKeepsLast
    <2>4. PICK j \in Own(list, ATTR_STRING) : list[j].key = c.key /\ bag[c.key] = list[j].value
      BY <1>1, <2>3, BagKeepsLast
    <2>5. i = j
      BY <1>4, <2>2, <2>4
    <2> HIDE DEF bag
    <2> QED BY <2>2, <2>3, <2>4, <2>5
  <1> QED BY <1>2, <1>3, <1>4 DEF list

-----------------------------------------------------------------------------
(* The theorems.                                                             *)

\* What load is called for.
LoadsFrom(file, entity) ==
  /\ call' = [fn |-> "load", arg |-> [file |-> file, entity |-> entity]]
  /\ answer' = [loaded |-> load(file),
                selected |-> IF load(file).ok
                             THEN entity_matches_filters(load(file).config.filters, entity)
                             ELSE FALSE]

LEMMA Modern ==
  ASSUME NEW A, NEW n \in Nat, NEW attributes \in SeqOf(A, n)
  PROVE  IsModern(EntityWith(attributes, <<>>, <<>>, "hex"))
  <1>1. attributes \in Seq(A)
    BY DEF SeqOf
  <1>2. \A type : Typed(<<>>, type) = <<>>
    BY DEF Typed
  <1>3. (attributes \o <<>>) \o <<>> = attributes
    BY <1>1
  <1> DEFINE entity == EntityWith(attributes, <<>>, <<>>, "hex")
  <1>4. /\ entity.attributes = attributes /\ entity.numeric_attributes = <<>>
        /\ entity.string_attributes = <<>>
    BY DEF EntityWith
  <1> HIDE DEF entity
  <1>5. all_attributes(entity) = (attributes \o Typed(<<>>, ATTR_UINT)) \o Typed(<<>>, ATTR_STRING)
    BY <1>4, Zenon DEF all_attributes
  <1>6. IsModern(entity)
    BY <1>2, <1>3, <1>4, <1>5, Zenon DEF IsModern
  <1> QED BY <1>6 DEF entity

LEMMA Loads ==
  ASSUME LoadFilters \/ LoadSizes \/ LoadAddresses
  PROVE  \E file, entity : LoadsFrom(file, entity) /\ IsFile(file) /\ IsModern(entity)
  <1>0. <<>> \in Seq({})
    OBVIOUS
  <1>1. \A file, entity : LoadFor(file, entity) => LoadsFrom(file, entity)
    BY DEF LoadFor, LoadsFrom, Call
  <1>2. \A file : Load(file) =>
          LoadsFrom(file, EntityWith(<<>>, <<>>, <<>>, "hex"))
    BY <1>1 DEF Load
  <1>3. IsModern(EntityWith(<<>>, <<>>, <<>>, "hex"))
    <2>1. <<>> \in SeqOf({}, 0)
      BY DEF SeqOf
    <2> QED BY <2>1, Modern
  <1>4. CASE LoadFilters
    <2> DEFINE Fields == SeqOf([key : {<<>>, <<"">>} \cup {<<c.key>> : c \in Conditions},
                                value : {c.value : c \in Conditions}], 2)
               Flats == [all_of : BOOLEAN, key : {<<>>, <<"">>} \cup {<<c.key>> : c \in Conditions},
                         value : {c.value : c \in Conditions}]
               Lists == SeqOf({a \in Attributes : a.value_type \in {ATTR_UINT, ATTR_STRING}}, 2)
               Rule(fields, flat) == [all_of |-> IF flat.all_of THEN <<fields>> ELSE <<>>,
                                      key |-> flat.key, value |-> flat.value]
    <2>1. PICK fields \in Fields, flat \in Flats, attributes \in Lists :
            LoadFor([MinimalFile EXCEPT !.entity_filters = <<Rule(fields, flat)>>],
                    EntityWith(attributes, <<>>, <<>>, "hex"))
      BY <1>4, Zenon DEF LoadFilters
    <2>2. IsModern(EntityWith(attributes, <<>>, <<>>, "hex"))
      BY Modern
    <2> DEFINE rule == Rule(fields, flat)
               file == [MinimalFile EXCEPT !.entity_filters = <<rule>>]
    <2> HIDE DEF Fields, Flats, Lists, rule
    <2>3. <<rule>> \in Seq({rule})
      OBVIOUS
    <2>4. IsFile(file)
      BY <2>3 DEF IsFile, IsOptional, MinimalFile
    <2>5. LoadFor(file, EntityWith(attributes, <<>>, <<>>, "hex"))
      BY <2>1, Zenon DEF rule
    <2> HIDE DEF file
    <2> QED BY <1>1, <2>2, <2>4, <2>5
  <1>5. CASE LoadSizes
    <2>1. PICK depth \in OptionalSizes, fetch \in OptionalSizes, docs \in OptionalSizes,
               bytes \in OptionalSizes, terms \in OptionalSizes,
               start \in {<<>>, <<[type |-> "number", number |-> 0]>>, <<[type |-> "number", number |-> 2]>>,
                          <<[type |-> "text", text |-> "head"]>>, <<[type |-> "text", text |-> "tail"]>>} :
            Load([MinimalFile EXCEPT
                    !.confirmation_depth = depth, !.fetch_batch_size_blocks = fetch,
                    !.ingest_batch_size_docs = docs, !.ingest_batch_max_bytes = bytes,
                    !.max_delete_terms_per_task = terms, !.start_block = start])
      BY <1>5 DEF LoadSizes
    <2> DEFINE file == [MinimalFile EXCEPT
                          !.confirmation_depth = depth, !.fetch_batch_size_blocks = fetch,
                          !.ingest_batch_size_docs = docs, !.ingest_batch_max_bytes = bytes,
                          !.max_delete_terms_per_task = terms, !.start_block = start]
    <2>2. /\ file.confirmation_depth = depth /\ file.fetch_batch_size_blocks = fetch
          /\ file.max_delete_terms_per_task = terms /\ file.start_block = start
          /\ file.entity_filters = <<>>
      BY DEF MinimalFile
    <2>3. IsOptional(depth, Nat) /\ IsOptional(fetch, Nat) /\ IsOptional(terms, Nat)
      BY DEF OptionalSizes, IsOptional
    <2>4. start = <<>> \/ \E s : start = <<s>> /\ (s.type = "text" \/ (s.type = "number" /\ s.number \in Nat))
      <3>1. start = <<>> \/ \E s \in {[type |-> "number", number |-> 0], [type |-> "number", number |-> 2],
                                      [type |-> "text", text |-> "head"], [type |-> "text", text |-> "tail"]} :
                              start = <<s>>
        OBVIOUS
      <3> QED BY <3>1
    <2> HIDE DEF file
    <2>5. IsFile(file)
      BY <1>0, <2>2, <2>3, <2>4 DEF IsFile
    <2> QED BY <1>2, <1>3, <2>1, <2>5 DEF file
  <1>6. CASE LoadAddresses
    <2>1. PICK rpc \in {"http", "ftp"}, backup \in {<<>>, <<"https">>, <<"ftp">>}, base \in {"http", "ftp"},
               index_id \in {"", "arkiv"}, unknown \in BOOLEAN,
               address \in {<<>>} \cup {<<a>> : a \in [prefix : {"0x", ""}, length : {40, 42}]},
               extractors \in SeqOf([content_type : {<<>>, <<"a">>},
                                     content_type_prefix : {<<>>, <<"b">>}], 1) :
            Load([MinimalFile EXCEPT
                    !.rpc_url = rpc, !.rpc_url_backup = backup, !.base_url = base, !.index_id = index_id,
                    !.arkiv_address = address, !.payload_extractors = extractors,
                    !.unknown_field = unknown])
      BY <1>6 DEF LoadAddresses
    <2> DEFINE file == [MinimalFile EXCEPT
                          !.rpc_url = rpc, !.rpc_url_backup = backup, !.base_url = base, !.index_id = index_id,
                          !.arkiv_address = address, !.payload_extractors = extractors,
                          !.unknown_field = unknown]
    <2>2. /\ file.confirmation_depth = <<>> /\ file.fetch_batch_size_blocks = <<>>
          /\ file.max_delete_terms_per_task = <<>> /\ file.start_block = <<>>
          /\ file.entity_filters = <<>>
      BY DEF MinimalFile
    <2> HIDE DEF file
    <2>3. IsFile(file)
      BY <1>0, <2>2 DEF IsFile, IsOptional
    <2> QED BY <1>2, <1>3, <2>1, <2>3 DEF file
  <1> QED BY <1>4, <1>5, <1>6

\* What is called: one of the functions with theorems, or another.
LEMMA Calls ==
  [Next]_vars =>
    \/ UNCHANGED vars
    \/ call'.fn \notin {"check_buffer", "load"}
    \/ CheckBuffer \/ LoadFilters \/ LoadSizes \/ LoadAddresses
  <1> SUFFICES ASSUME Next, ~(CheckBuffer \/ LoadFilters \/ LoadSizes \/ LoadAddresses)
               PROVE  call'.fn \notin {"check_buffer", "load"}
    OBVIOUS
  <1>0. \A fn, arguments : Call(fn, arguments) => call'.fn = fn
    BY DEF Call
  <1>1. CASE StripTags
    BY <1>0, <1>1 DEF StripTags
  <1>2. CASE ExtractBody
    BY <1>0, <1>2 DEF ExtractBody
  <1>3. CASE FetchLogs
    BY <1>0, <1>3 DEF FetchLogs
  <1>4. CASE FetchFails
    BY <1>0, <1>4 DEF FetchFails
  <1>5. CASE BuildDoc \/ BuildDocLegacy
    <2>1. \A entity : BuildDocOf(entity) => call'.fn = "to_quickwit_doc"
      BY <1>0 DEF BuildDocOf
    <2> QED BY <1>5, <2>1 DEF BuildDoc, BuildDocLegacy
  <1>6. CASE SplitBatches
    BY <1>0, <1>6 DEF SplitBatches
  <1>7. CASE Return
    BY <1>7 DEF Return, Idle
  <1> QED BY <1>1, <1>2, <1>3, <1>4, <1>5, <1>6, <1>7 DEF Next

\* What to_quickwit_doc is called for.
BuildsDoc(entity, rules) ==
  /\ call' = [fn |-> "to_quickwit_doc", arg |-> [entity |-> entity, rules |-> rules]]
  /\ answer' = [doc |-> to_quickwit_doc([operation_type |-> OP_CREATE, owner |-> "owner",
                                         expires_at |-> 0], entity),
                selected |-> entity_matches_filters(rules, entity)]

LEMMA Builds ==
  BuildDoc \/ BuildDocLegacy => \E entity, rules : IsEntity(entity) /\ BuildsDoc(entity, rules)
  <1>1. ASSUME NEW entity, BuildDocOf(entity) PROVE \E rules : BuildsDoc(entity, rules)
    BY <1>1 DEF BuildDocOf, BuildsDoc, Call
  <1>2. ASSUME NEW S, NEW a \in Seq(S), NEW n \in Seq(S), NEW t \in Seq(S), NEW payload
        PROVE  IsEntity(EntityWith(a, n, t, payload))
    BY DEF IsEntity, EntityWith
  <1>3. \A S, n, s : n \in Nat /\ s \in SeqOf(S, n) => s \in Seq(S)
    BY DEF SeqOf
  <1>4. CASE BuildDoc
    <2>1. PICK a \in SeqOf(Attributes, 2), payload \in {"hex", "not_hex"} :
            BuildDocOf(EntityWith(a, <<>>, <<>>, payload))
      BY <1>4 DEF BuildDoc
    <2>2. a \in Seq(Attributes) /\ <<>> \in Seq(Attributes)
      BY <1>3
    <2>3. IsEntity(EntityWith(a, <<>>, <<>>, payload))
      BY <1>2, <2>2
    <2> QED BY <1>1, <2>1, <2>3
  <1>5. CASE BuildDocLegacy
    <2>1. PICK n \in SeqOf(Pairs, 1), t \in SeqOf(Pairs, 2) : BuildDocOf(EntityWith(<<>>, n, t, "hex"))
      BY <1>5 DEF BuildDocLegacy
    <2>2. n \in Seq(Pairs) /\ t \in Seq(Pairs) /\ <<>> \in Seq(Pairs)
      BY <1>3
    <2>3. IsEntity(EntityWith(<<>>, n, t, "hex"))
      BY <1>2, <2>2
    <2> QED BY <1>1, <2>1, <2>3
  <1> QED BY <1>4, <1>5

\* A document is built, or nothing is said of one.
LEMMA BuildsOrNot ==
  [Next]_vars =>
    \/ UNCHANGED vars
    \/ call'.fn # "to_quickwit_doc"
    \/ \E entity, rules : IsEntity(entity) /\ BuildsDoc(entity, rules)
  <1> SUFFICES ASSUME Next, ~(BuildDoc \/ BuildDocLegacy) PROVE call'.fn # "to_quickwit_doc"
    BY Builds
  <1>0. \A fn, arguments : Call(fn, arguments) => call'.fn = fn
    BY DEF Call
  <1>1. CASE StripTags
    BY <1>0, <1>1 DEF StripTags
  <1>2. CASE ExtractBody
    BY <1>0, <1>2 DEF ExtractBody
  <1>3. CASE FetchLogs
    BY <1>0, <1>3 DEF FetchLogs
  <1>4. CASE FetchFails
    BY <1>0, <1>4 DEF FetchFails
  <1>5. CASE SplitBatches
    BY <1>0, <1>5 DEF SplitBatches
  <1>6. CASE CheckBuffer
    BY <1>0, <1>6 DEF CheckBuffer
  <1>7. CASE LoadFilters \/ LoadSizes \/ LoadAddresses
    <2>1. PICK file, entity : LoadsFrom(file, entity)
      BY <1>7, Loads
    <2> QED BY <2>1 DEF LoadsFrom
  <1>8. CASE Return
    BY <1>8 DEF Return, Idle
  <1> QED BY <1>1, <1>2, <1>3, <1>4, <1>5, <1>6, <1>7, <1>8 DEF Next

\* The sample of check_buffer holds the newest block, and reaches every block of a buffer of
\* any length within as many iterations, if recheck_sample_size is at least 8, or at least 2
\* and the length is no multiple of 7.
THEOREM SamplesCover == Spec => []SampleCoversBuffer
  <1>1. Init => SampleCoversBuffer
    BY DEF Init, Idle, SampleCoversBuffer
  <1>2. SampleCoversBuffer /\ [Next]_vars => SampleCoversBuffer'
    <2> SUFFICES ASSUME SampleCoversBuffer, [Next]_vars, call'.fn = "check_buffer"
                 PROVE  SampleCoversBuffer'
      BY DEF SampleCoversBuffer
    <2>1. CASE UNCHANGED vars
      BY <2>1 DEF vars, SampleCoversBuffer
    <2>2. CASE CheckBuffer
      <3>1. PICK len \in BufferSizes, size \in SampleSizes :
              /\ call' = [fn |-> "check_buffer", arg |-> [len |-> len, size |-> size]]
              /\ answer' = [i \in 1..len |-> SampleIndexes(len, size, i)]
        BY <2>2 DEF CheckBuffer, Call
      <3>2. len \in Nat \ {0} /\ size \in Nat
        BY <3>1, InputsAssumption
      <3>3. DOMAIN answer' = 1..len /\ ToSet(answer') = {SampleIndexes(len, size, i) : i \in 1..len}
        BY <3>1 DEF ToSet
      <3>4. call'.arg.len = len /\ call'.arg.size = size
        BY <3>1
      <3>5. \A i \in 1..len : answer'[i] = SampleIndexes(len, size, i)
        BY <3>1
      <3> QED BY <3>2, <3>3, <3>4, <3>5, SampleCovers DEF SampleCoversBuffer
    <2>3. ASSUME LoadFilters \/ LoadSizes \/ LoadAddresses PROVE FALSE
      <3>1. PICK file, entity : LoadsFrom(file, entity)
        BY <2>3, Loads
      <3> QED BY <3>1 DEF LoadsFrom
    <2> QED BY <2>1, <2>2, <2>3, Calls
  <1> QED BY <1>1, <1>2, PTL DEF Spec

\* From every cursor that the target has reached, the first one included, the next range of
\* run_iteration begins at the cursor and ends below the target, and a retraction can be cut
\* into tasks, under every configuration that validate() accepts.
THEOREM AcceptedProgresses == Spec => []AcceptedConfigProgresses
  <1>1. Init => AcceptedConfigProgresses
    BY DEF Init, Idle, AcceptedConfigProgresses
  <1>2. AcceptedConfigProgresses /\ [Next]_vars => AcceptedConfigProgresses'
    <2> SUFFICES ASSUME AcceptedConfigProgresses, [Next]_vars, call'.fn = "load"
                 PROVE  AcceptedConfigProgresses'
      BY DEF AcceptedConfigProgresses
    <2>1. CASE UNCHANGED vars
      BY <2>1 DEF vars, AcceptedConfigProgresses
    <2>2. CASE LoadFilters \/ LoadSizes \/ LoadAddresses
      <3>1. PICK file, entity : LoadsFrom(file, entity) /\ IsFile(file)
        BY <2>2, Loads
      <3>2. answer'.loaded = load(file)
        BY <3>1 DEF LoadsFrom
      <3>3. Heads \subseteq Nat
        BY InputsAssumption
      <3> SUFFICES ASSUME load(file).ok, NEW head \in Heads
                   PROVE  LET config == load(file).config
                              target == Target(config, head)
                          IN  /\ \A cursor \in {first_cursor(config.start_block, head)} \cup Heads :
                                   cursor <= target => EndBlock(config, cursor, target) \in cursor..target
                              /\ config.max_delete_terms_per_task > 0
        BY <3>2 DEF AcceptedConfigProgresses
      <3> QED BY <3>1, <3>3, Progresses
    <2>3. ~CheckBuffer
      BY DEF CheckBuffer, Call
    <2> QED BY <2>1, <2>2, <2>3, Calls
  <1> QED BY <1>1, <1>2, PTL DEF Spec

\* The configuration that is loaded selects the entities its author had in mind, and no
\* others unless a rule mixes all_of with a condition; a list of rules that is not empty never
\* selects an entity without strings (EntityFilterRule, entity_matches_filters).
THEOREM FiltersSelect == Spec => []FiltersAreAsWritten
  <1>1. Init => FiltersAreAsWritten
    BY DEF Init, Idle, FiltersAreAsWritten
  <1>2. FiltersAreAsWritten /\ [Next]_vars => FiltersAreAsWritten'
    <2> SUFFICES ASSUME FiltersAreAsWritten, [Next]_vars, call'.fn = "load"
                 PROVE  FiltersAreAsWritten'
      BY DEF FiltersAreAsWritten
    <2>1. CASE UNCHANGED vars
      BY <2>1 DEF vars, FiltersAreAsWritten
    <2>2. CASE LoadFilters \/ LoadSizes \/ LoadAddresses
      <3>1. PICK file, entity : LoadsFrom(file, entity) /\ IsFile(file) /\ IsModern(entity)
        BY <2>2, Loads
      <3> DEFINE selected == entity_matches_filters(load(file).config.filters, entity)
      <3>2. answer'.loaded = load(file) /\ call'.arg.file = file /\ call'.arg.entity = entity
        BY <3>1 DEF LoadsFrom
      <3>3. load(file).ok => (answer'.selected <=> selected)
        BY <3>1 DEF LoadsFrom
      <3>4. load(file).ok =>
              /\ InMind(file, entity) => selected
              /\ selected /\ (\A r \in ToSet(file.entity_filters) : ~IsMixed(r)) => InMind(file, entity)
              /\ selected /\ file.entity_filters # <<>> =>
                   \E a \in ToSet(entity.attributes) : a.value_type = ATTR_STRING
        BY <3>1, FiltersMean
      <3> HIDE DEF selected
      <3> QED BY <3>2, <3>3, <3>4 DEF FiltersAreAsWritten
    <2>3. ~CheckBuffer
      BY DEF CheckBuffer, Call
    <2> QED BY <2>1, <2>2, <2>3, Calls
  <1> QED BY <1>1, <1>2, PTL DEF Spec

\* No attribute is lost or changes its type on the way into the document, however many there
\* are and in whichever wire shape, except one whose key comes again with the same type
\* (to_quickwit_doc, all_attributes).
THEOREM AttributesStay == Spec => []AttributesAreKept
  <1>1. Init => AttributesAreKept
    BY DEF Init, Idle, AttributesAreKept
  <1>2. AttributesAreKept /\ [Next]_vars => AttributesAreKept'
    <2> SUFFICES ASSUME AttributesAreKept, [Next]_vars, call'.fn = "to_quickwit_doc"
                 PROVE  AttributesAreKept'
      BY DEF AttributesAreKept
    <2>1. CASE UNCHANGED vars
      BY <2>1 DEF vars, AttributesAreKept
    <2>2. ASSUME NEW entity, NEW rules, IsEntity(entity), BuildsDoc(entity, rules)
          PROVE  AttributesAreKept'
      <3> DEFINE log == [operation_type |-> OP_CREATE, owner |-> "owner", expires_at |-> 0]
                 doc == to_quickwit_doc(log, entity)
      <3>1. call'.arg.entity = entity /\ answer'.doc = doc
        BY <2>2 DEF BuildsDoc
      <3> HIDE DEF log
      <3>2. /\ doc.ok <=> entity.payload # "not_hex" /\ \A a \in Given(entity) : a.type \in {1, 2, 3}
            /\ doc.ok => \A a \in Given(entity) :
                 (\A x \in Given(entity) : x.key = a.key /\ x.type = a.type => x = a) =>
                   /\ a.type = 1 => /\ a.key \in DOMAIN doc.annotations.uint
                                    /\ doc.annotations.uint[a.key] =
                                         [value |-> a.value, numeric |-> a.value \in U64]
                   /\ a.type = 2 => /\ a.key \in DOMAIN doc.annotations.string
                                    /\ doc.annotations.string[a.key] = a.value
                   /\ a.type = 3 => /\ a.key \in DOMAIN doc.annotations.entity_key
                                    /\ doc.annotations.entity_key[a.key] = a.value
        BY <2>2, DocKeeps
      <3> HIDE DEF doc
      <3> QED BY <3>1, <3>2 DEF AttributesAreKept, Given
    <2> QED BY <2>1, <2>2, BuildsOrNot
  <1> QED BY <1>1, <1>2, PTL DEF Spec

\* An entity whose annotations satisfy a rule is indexed, and one that is indexed is found by
\* its rule's annotations unless it carries a string key twice (entity_matches_filters,
\* to_quickwit_doc).
THEOREM FiltersSee == Spec => []FiltersSeeAnnotations
  <1>1. Init => FiltersSeeAnnotations
    BY DEF Init, Idle, FiltersSeeAnnotations
  <1>2. FiltersSeeAnnotations /\ [Next]_vars => FiltersSeeAnnotations'
    <2> SUFFICES ASSUME FiltersSeeAnnotations, [Next]_vars, call'.fn = "to_quickwit_doc"
                 PROVE  FiltersSeeAnnotations'
      BY DEF FiltersSeeAnnotations
    <2>1. CASE UNCHANGED vars
      BY <2>1 DEF vars, FiltersSeeAnnotations
    <2>2. ASSUME NEW entity, NEW rules, IsEntity(entity), BuildsDoc(entity, rules)
          PROVE  FiltersSeeAnnotations'
      <3> DEFINE log == [operation_type |-> OP_CREATE, owner |-> "owner", expires_at |-> 0]
                 doc == to_quickwit_doc(log, entity)
                 list == all_attributes(entity)
                 bag == Bag(list, ATTR_STRING)
                 Found(c) == c.key \in DOMAIN bag /\ (c.value = <<>> \/ c.value = <<bag[c.key]>>)
                 found == \/ rules = <<>>
                          \/ \E r \in ToSet(rules) : \A c \in ToSet(r) : Found(c)
                 strings == {i \in DOMAIN list : list[i].value_type = ATTR_STRING}
                 unique == \A i, j \in strings : list[i].key = list[j].key => i = j
                 selected == entity_matches_filters(rules, entity)
      <3>1. /\ call'.arg.entity = entity /\ call'.arg.rules = rules /\ answer'.doc = doc
            /\ answer'.selected = selected
        BY <2>2 DEF BuildsDoc
      <3>2. doc.ok => doc.annotations.string = bag
        BY DEF to_quickwit_doc, Annotations
      <3>3. \A c : /\ Found(c) => condition_holds(c, list)
                   /\ condition_holds(c, list) /\ unique => Found(c)
        BY <2>2, StringsSeen
      <3>4. selected <=>
              \/ rules = <<>>
              \/ \E r \in DOMAIN rules : \A c \in DOMAIN rules[r] : condition_holds(rules[r][c], list)
        BY DEF entity_matches_filters
      <3>5. found <=>
              \/ rules = <<>>
              \/ \E r \in DOMAIN rules : \A c \in DOMAIN rules[r] : Found(rules[r][c])
        <4> HIDE DEF Found
        <4> QED BY DEF ToSet
      <3>6. (found => selected) /\ (selected /\ unique => found)
        <4> HIDE DEF Found, found, selected, unique, list
        <4> QED BY <3>3, <3>4, <3>5
      <3>7. doc.ok => FiltersSeeAnnotations'
        <4> HIDE DEF selected, log
        <4> SUFFICES ASSUME doc.ok PROVE FiltersSeeAnnotations'
          OBVIOUS
        <4>1. answer'.doc.annotations.string = bag
          BY <3>1, <3>2
        <4> HIDE DEF doc, bag, list
        <4> QED BY <3>1, <3>6, <4>1 DEF FiltersSeeAnnotations, list
      <3>8. ~doc.ok => FiltersSeeAnnotations'
        <4> HIDE DEF doc
        <4> QED BY <3>1 DEF FiltersSeeAnnotations
      <3> QED BY <3>7, <3>8
    <2> QED BY <2>1, <2>2, BuildsOrNot
  <1> QED BY <1>1, <1>2, PTL DEF Spec
=============================================================================
