------------------------------- MODULE Extract -------------------------------
(***************************************************************************)
(* From a payload to the `body` of its document (extract.rs).              *)
(*                                                                         *)
(* Abstractions.  HTML is a sequence of tokens: a word, the characters     *)
(* "<" and ">", "<" together with a name that the stripper knows, the      *)
(* start of an attribute whose value is kept (title= or alt=) and a quote. *)
(* A payload is a sequence of characters that matter to the UTF-8 gate,    *)
(* with what its extractors would find in it.  The texts that the JSON and *)
(* the markdown parser produce are not modelled, only whether there is     *)
(* one; the case of a tag's name is ignored, as the code does.             *)
(***************************************************************************)
EXTENDS Naturals, SequencesExt

CONSTANT MaxBodyBytes   \* MAX_BODY_BYTES

-----------------------------------------------------------------------------
(* strip_tags                                                               *)

Token(type, n) == [type |-> type, n |-> n]

Blank == Token("blank", 0)

\* The containers whose text is dropped: <script> and <style>.
Container(token) ==
  CASE token.type = "<script" -> "script"
    [] token.type = "<style"  -> "style"
    [] OTHER                  -> "none"

\* Faulty variant: any of the two closing tags closes either container.
ClosesAny(token, container) == token.type \in {"</script", "</style"}

Closes(token, container) ==
  \/ container = "script" /\ token.type = "</script"
  \/ container = "style"  /\ token.type = "</style"

BeginsTag(token) == token.type \in {"<", "<script", "<style", "</script", "</style"}

\* The value of a title or alt attribute of the tag that begins at i, if the
\* tag is closed.
AttributeText(html, i) ==
  LET tag_end == SelectInSubSeq(html, i, Len(html), LAMBDA t : t.type = ">")
      start   == SelectInSubSeq(html, i, tag_end, LAMBDA t : t.type = "attribute")
      stop    == SelectInSubSeq(html, start, tag_end, LAMBDA t : t.type = "quote")
  IN  IF tag_end = 0 \/ start = 0 \/ stop = 0
      THEN <<>>
      ELSE <<Blank>> \o SubSeq(html, start + 1, stop - 1) \o <<Blank>>

\* One token: inside a tag it is dropped, up to the next ">"; text is kept
\* outside the two containers.  Inside a container a "<" that does not close
\* it is a tag, too.
StripToken(html, state, i) ==
  LET token == html[i] IN
  CASE state.in_tag ->
         IF token.type = ">"
         THEN [state EXCEPT !.in_tag = FALSE, !.output = Append(@, Blank)]
         ELSE state
    [] ~state.in_tag /\ ~BeginsTag(token) ->
         IF state.skip = "none" THEN [state EXCEPT !.output = Append(@, token)] ELSE state
    [] ~state.in_tag /\ BeginsTag(token) /\ state.skip = "none" ->
         [in_tag |-> TRUE, skip |-> Container(token),
          output |-> state.output \o AttributeText(html, i)]
    [] ~state.in_tag /\ BeginsTag(token) /\ state.skip # "none" ->
         [state EXCEPT !.in_tag = TRUE,
                       !.skip = IF Closes(token, state.skip) THEN "none" ELSE state.skip]

\* Runs of blanks collapse to one, and none is left at either end.
CollapseBlanks(text) ==
  LET Kept(i) == \/ text[i] # Blank
                 \/ /\ i < Len(text) /\ text[i + 1] # Blank
                    /\ \E j \in 1..i : text[j] # Blank
      Keep(acc, i) == IF Kept(i) THEN Append(acc, text[i]) ELSE acc
  IN  FoldLeftDomain(Keep, <<>>, text)

strip_tags(html) ==
  LET Step(state, i) == StripToken(html, state, i) IN
  CollapseBlanks(
    FoldLeftDomain(Step, [in_tag |-> FALSE, skip |-> "none", output |-> <<>>], html).output)

-----------------------------------------------------------------------------
(* resolve_strategy                                                         *)

\* Faulty variant: the first rule of either kind.
FirstRuleInOrder(rules, content_type, prefixes) ==
  SelectInSeq(rules, LAMBDA r : r.content_type = content_type \/ r.content_type_prefix \in prefixes)

\* The first exact rule, or else the first prefix rule; 0 when there is none.
FirstRule(rules, content_type, prefixes) ==
  LET exact == SelectInSeq(rules, LAMBDA r : r.content_type = content_type) IN
  IF exact # 0 THEN exact
  ELSE SelectInSeq(rules, LAMBDA r : r.content_type_prefix \in prefixes)

default_strategy(content_type) ==
  CASE content_type = "text/plain"       -> "utf8_body"
    [] content_type = "text/markdown"    -> "utf8_body_strip_markdown"
    [] content_type = "application/json" -> "json_flatten"
    [] content_type \in {"text/html", "application/xml", "text/xml"} -> "html_strip_tags"
    [] OTHER                             -> "try_utf8"

resolve_strategy(rules, content_type, prefixes) ==
  LET i == FirstRule(rules, content_type, prefixes) IN
  IF i = 0 THEN default_strategy(content_type) ELSE rules[i].strategy

-----------------------------------------------------------------------------
(* extract_body                                                             *)

Bytes(char) == IF char = "two_bytes" THEN 2 ELSE 1

\* The bytes up to and including the i-th character.
BytesUpTo(chars, i) == FoldLeft(LAMBDA n, c : n + Bytes(c), 0, SubSeq(chars, 1, i))

\* The characters the limit leaves whole.
Whole(chars) == {i \in DOMAIN chars : BytesUpTo(chars, i) <= MaxBodyBytes}

\* The limit falls inside a character.
SplitsCharacter(chars) ==
  \E i \in DOMAIN chars :
    /\ BytesUpTo(chars, i) > MaxBodyBytes
    /\ BytesUpTo(chars, i) - Bytes(chars[i]) < MaxBodyBytes

IsUtf8(chars) == ~SplitsCharacter(chars) /\ \A i \in Whole(chars) : chars[i] # "invalid"

\* What the strategy makes of the text, "nothing" if that is empty.
Extracted(strategy, payload) ==
  CASE strategy \in {"utf8_body", "try_utf8"} -> "text"
    [] strategy = "json_flatten" -> IF payload.scalars THEN "flattened" ELSE "text"
    [] strategy \in {"html_strip_tags", "utf8_body_strip_markdown"} ->
         IF payload.prose THEN "prose" ELSE "nothing"
    [] strategy = "none" -> "nothing"

extract_body(rules, content_type, prefixes, payload) ==
  IF \/ payload.chars = <<>>
     \/ ~IsUtf8(payload.chars)
     \/ \A i \in Whole(payload.chars) : payload.chars[i] = "blank"
  THEN "nothing"
  ELSE Extracted(resolve_strategy(rules, content_type, prefixes), payload)

-----------------------------------------------------------------------------
(***************************************************************************)
(* Reference definitions: what the two functions are for.                  *)
(***************************************************************************)

PieceTypes == {"text", "tag", "image", "<script", "<style", "</script", "</style", "stray"}

\* A page is a sequence of pieces; the tokens of a piece.
TokensOf(piece) ==
  CASE piece.type = "text"         -> <<Token("word", piece.n)>>
    [] piece.type = "tag"          -> <<Token("<", 0), Token(">", 0)>>
    [] piece.type = "image"        -> <<Token("<", 0), Token("attribute", 0), Token("word", piece.n),
                                        Token("quote", 0), Token(">", 0)>>
    [] piece.type = "stray"        -> <<Token("<", 0)>>
    [] OTHER                       -> <<Token(piece.type, 0), Token(">", 0)>>

Html(pieces) == FlattenSeq([i \in DOMAIN pieces |-> TokensOf(pieces[i])])

\* A piece is hidden when a container that is itself visible was opened before
\* it and not closed since.
Hidden(pieces) ==
  LET hidden[i \in 0..Len(pieces)] ==
        \E j \in 1..i - 1 :
          /\ Container(pieces[j]) # "none" /\ ~hidden[j]
          /\ ~ \E m \in j + 1..i - 1 : pieces[m].type = IF pieces[j].type = "<script"
                                                         THEN "</script" ELSE "</style"
  IN  {i \in DOMAIN pieces : hidden[i]}

\* The words a reader of the page sees, descriptions of images included.
VisibleWords(pieces) ==
  LET Keep(acc, i) ==
        IF pieces[i].type \in {"text", "image"} /\ i \notin Hidden(pieces)
        THEN Append(acc, Token("word", pieces[i].n)) ELSE acc
  IN  FoldLeftDomain(Keep, <<>>, pieces)

Words(text) == SelectSeq(text, LAMBDA t : t.type = "word")
=============================================================================
