----------------------------- MODULE MCReading -----------------------------
(* Two editions that share a passage at one path under two titles, a       *)
(* contents page before it in one of them and another passage after it.    *)
EXTENDS Reading

CONSTANTS e1, e2, contents, opening, duties

Line(text, path, title, leaders) ==
    [text |-> text, path |-> path, title |-> title, lines |-> 2, leaders |-> leaders]

MCChunksOf(e) ==
    IF e = e1
      THEN <<Line(contents, <<"PREAMBLE">>, "", 2),
             Line(duties, <<"ENCLOSURE 2", "1">>, "RESPONSIBILITIES", 0)>>
      ELSE <<Line(duties, <<"ENCLOSURE 2", "1">>, "PROCEDURES", 1),
             Line(opening, <<"ENCLOSURE 2", "2">>, "PROCEDURES", 0)>>

Says(modality, words, actor, quotes) ==
    [modality |-> modality, words |-> words, actor |-> actor, quotes |-> quotes, typed |-> TRUE]

shall == Says("SHALL", {"SHALL"}, "placeholder", {opening, duties})
assigned == Says("ASSIGNED", {}, "above it", {duties})
heading == Says("SHALL", {}, "none", {duties, opening})
misquoted == Says("MUST", {"MUST"}, "in it", {})

MCStatement == {shall, assigned, heading, misquoted}
MCAnswers == {{}, {assigned}, {shall, assigned, heading}, {heading, misquoted}}

By(adapter, variant) == [adapter |-> adapter, model |-> "m", variant |-> variant, prompt |-> 3]
MCExtractor == {By("null", ""), By("azure", "schema@1"), By("azure", "json@1")}
=============================================================================
