-------------------------- MODULE MCQueryDialogue ---------------------------
(* A small index: agency A issued documents a and c, agency B document b,   *)
(* agency Z none.                                                           *)
EXTENDS QueryDialogue, TLC

MCAgencyOf == ("a" :> "A") @@ ("b" :> "B") @@ ("c" :> "A")

C(id, doc, literal, forms) == [id |-> id, doc |-> doc, literal |-> literal, forms |-> forms]

\* Topic "50m" is an amount the chunks of b write in another form.
MCCorpus ==
  {C(1, "a", {"security", "50m"}, {"security", "50m"}), C(2, "a", {"security"}, {"security"}),
   C(3, "b", {"schedule"}, {"schedule", "50m"}), C(4, "c", {}, {})}

Plain == [strict |-> {}, reduced |-> {}, requested |-> {}, context |-> {}, topics |-> {},
          compares |-> FALSE, joins |-> FALSE, refers |-> FALSE, close |-> FALSE]

Shapes ==
  {Plain,
   [Plain EXCEPT !.strict = {"b"}, !.reduced = {"b"}],
   [Plain EXCEPT !.strict = {"a"}, !.reduced = {"a", "b"}],
   [Plain EXCEPT !.reduced = {"a", "c"}, !.close = TRUE],
   [Plain EXCEPT !.strict = {"a", "b"}, !.reduced = {"a", "b"}, !.joins = TRUE, !.close = TRUE],
   [Plain EXCEPT !.strict = {"a", "b"}, !.reduced = {"a", "b"}, !.requested = {"A", "B"},
                 !.compares = TRUE],
   [Plain EXCEPT !.strict = {"b"}, !.reduced = {"b"}, !.requested = {"B", "Z"}, !.compares = TRUE],
   [Plain EXCEPT !.requested = {"Z"}, !.compares = TRUE],
   [Plain EXCEPT !.refers = TRUE],
   [Plain EXCEPT !.refers = TRUE, !.compares = TRUE],
   [Plain EXCEPT !.context = {"B"}]}

MCQuery ==
  {[s EXCEPT !.topics = T] : s \in Shapes,
     T \in {{}, {"security"}, {"50m"}, {"security", "schedule", "50m"}}}

Settings(first, retry, bal) == [metadataFirst |-> first, verifierRetry |-> retry, balance |-> bal]
AgenticFull == {Settings(TRUE, TRUE, TRUE)}
MCPipeline == AgenticFull \cup
  {Settings(FALSE, FALSE, FALSE), Settings(FALSE, TRUE, FALSE), Settings(TRUE, FALSE, TRUE)}
=============================================================================
