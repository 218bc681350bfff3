----------------------------- MODULE MCChunking -----------------------------
(* Short documents over the lines the patterns tell apart, with a small cap. *)
EXTENDS Chunking

MCLine(kind, id, leader, title, words, caps, size, stops) ==
    [kind |-> kind, id |-> id, leader |-> leader, title |-> title, words |-> words,
     caps |-> caps, size |-> size, stops |-> stops]

blank == MCLine("blank", << >>, FALSE, NoTitle, "", FALSE, 0, {})
prose == MCLine("text", << >>, FALSE, NoTitle, "prose", FALSE, 5, {1})
caption == MCLine("text", << >>, FALSE, NoTitle, "DUTIES", TRUE, 2, {})
part1 == MCLine("named", <<1>>, FALSE, NoTitle, "PART 1", TRUE, 2, {})
part2 == MCLine("named", <<2>>, FALSE, "SCOPE", "PART 2: SCOPE", TRUE, 3, {})
one == MCLine("numbered", <<1>>, FALSE, NoTitle, "1.", FALSE, 3, {1})
oneTitled == MCLine("numbered", <<1>>, FALSE, "GENERAL", "1. GENERAL.", FALSE, 4, {1})
oneOne == MCLine("numbered", <<1, 1>>, FALSE, NoTitle, "1.1.", FALSE, 3, {})
twoOne == MCLine("numbered", <<2, 1>>, FALSE, NoTitle, "2.1.", FALSE, 3, {})
contents == MCLine("numbered", <<2>>, TRUE, NoTitle, "2. Scope .... 4", FALSE, 4, {})
glossary == MCLine("back", <<1>>, FALSE, NoTitle, "GLOSSARY", TRUE, 2, {})

MCLines == {blank, prose, caption, part1, part2, one, oneTitled, oneOne, twoOne,
            contents, glossary}
MCProse == {prose}
=============================================================================
