---------------------------- MODULE MCCatalogue ----------------------------
(* Three names, two of them contending for one base. *)
EXTENDS Catalogue

MCBaseOf == [n \in Name |-> IF n = 3 THEN "other" ELSE "shared"]

MCRow(n, refs) == [name |-> n, references |-> refs]

\* A manifest that names both spellings.
MCManifest == {{MCRow(3, {1, 2})}}

MCIssuance(n, section, cites, gaps, date, bytes, text) ==
    [name |-> n, section |-> section, cites |-> cites, gaps |-> gaps,
     date |-> date, bytes |-> bytes, text |-> text]

\* Two editions of the spelling that is merged away, the later one citing both
\* others, and a corrected reissue of that one.
MCPdf ==
    {MCIssuance(2, TRUE, {1, 3}, {1}, 2, 1, TRUE),
     MCIssuance(2, FALSE, {}, {}, 1, 2, TRUE),
     MCIssuance(2, FALSE, {}, {}, 2, 3, TRUE)}

MCRulings == {<<1, 2>>}
MCLinks == {<<1, 2>>}
=============================================================================
