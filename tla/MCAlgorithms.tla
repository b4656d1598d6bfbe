----------------------------- MODULE MCAlgorithms -----------------------------
(***************************************************************************)
(* Bounded inputs for the algorithms.                                      *)
(***************************************************************************)
EXTENDS Algorithms

Rule(exact, prefix, strategy) ==
  [content_type |-> exact, content_type_prefix |-> prefix, strategy |-> strategy]

MCRules == {Rule("text/html", "-", "none"), Rule("-", "text/", "html_strip_tags"),
            Rule("application/json", "-", "utf8_body"), Rule("-", "image/", "none"),
            Rule("text/html", "-", "utf8_body_strip_markdown")}

MCTypes == {[name |-> "text/plain", prefixes |-> {"text/"}],
            [name |-> "text/html", prefixes |-> {"text/"}],
            [name |-> "application/json", prefixes |-> {"application/"}],
            [name |-> "image/png", prefixes |-> {"image/"}]}

MCPlaces == {<<1, 1>>, <<1, 2>>, <<2, 0>>}

\* The value types 1 to 3, and an unknown one.
MCAttributes == {Attribute(k, t, v) : k \in {"x", "y"}, t \in 1..4, v \in {"7", "text"}}

MCPairs == [key : {"x", "y"}, value : {"7", "text"}]

MCConditions == [key : {"x", "y"}, value : {<<>>, <<"7">>}]

\* Short buffers, and the default one.
MCBuffers == (1..30) \cup {default_reorg_buffer_size}

MCSamples == 0..default_recheck_sample_size + 1
=============================================================================
