------------------------------ MODULE Chunking ------------------------------
(***************************************************************************)
(* How a document's pages become chunks: the lines that open a section,    *)
(* the path a section gets, the parts a section's text is cut into, and    *)
(* the identity, page and title a chunk carries.                           *)
(*                                                                         *)
(* A line is what the patterns of chunking.py tell apart: what it opens,   *)
(* whether it is a contents row, the title written on it, its length and   *)
(* where a ". " stands in it.  Positions in a text count from 0.           *)
(*                                                                         *)
(* A definition marked "Variant" is a plausible mistake in the definition  *)
(* after it, used by no one.                                               *)
(***************************************************************************)
EXTENDS Integers, FiniteSets, Sequences, SequencesExt, FiniteSetsExt

CONSTANTS
    Line,           \* the lines an author may write
    Prose,          \* those of them that open nothing and name nothing
    MaxLines,       \* lines of a document (bound)
    MaxPages,       \* pages of a document (bound)
    max_chars,      \* the longest text of a chunk
    overlap_chars,  \* how much of a part the next one repeats
    NoTitle

Kind == {"blank", "text", "back", "lettered", "named", "numbered"}

\* words stands for the verbatim line, id for what its heading is numbered.
LineForm == [kind: Kind, id: Seq(Nat), leader: BOOLEAN, title: STRING \cup {NoTitle},
             words: STRING, caps: BOOLEAN, size: Nat, stops: SUBSET Nat]

FURNITURE_PAGES == 3

Preamble == [kind |-> "preamble", id |-> << >>]

Heading(line) == [kind |-> line.kind, id |-> line.id]
IsBlank(line) == line.kind = "blank"

ASSUME ChunkingAssumption ==
    /\ Line \subseteq LineForm
    /\ \A line \in Line : IsBlank(line) <=> line.size = 0
    /\ Prose \subseteq {line \in Line : line.kind = "text" /\ ~line.caps}
    /\ max_chars \in Nat \ {0}
    /\ overlap_chars \in Nat

VARIABLES
    pages,      \* the text of the document, page by page
    chunks      \* what the last ingest of it stored

vars == <<pages, chunks>>

\* What a sequence makes of a value, one element after another.
Through(step(_, _), base, seq) ==
    LET after[i \in 0 .. Len(seq)] ==
            IF i = 0 THEN base ELSE step(after[i - 1], seq[i])
    IN after[Len(seq)]

-----------------------------------------------------------------------------
(* Sections *)

\* Contents rows point at a section and open none.
OpensSection(line) == line.kind \notin {"blank", "text"} /\ ~line.leader

TitleOf(line) == IF line.leader THEN NoTitle ELSE line.title

\* Only these write their title on the line below.
TitleBelow(line) == line.kind = "named"

\* Variant: an ancestor is any number of lesser depth.
PushByDepth(path, heading) ==
    IF heading.kind # "numbered" \/ path = <<Preamble>> THEN <<heading>>
    ELSE Append(SelectSeq(path, LAMBDA p : p.kind # "numbered"
                                           \/ Len(p.id) < Len(heading.id)), heading)

\* Of an open path: what is not a number, and the numbers a heading extends.
Ancestors(path, heading) ==
    LET Keep(kept, p) ==
            IF p.kind # "numbered" \/ IsStrictPrefix(p.id, heading.id)
              THEN Append(kept, p) ELSE kept
    IN Through(Keep, << >>, path)

\* A number nests under the open numbers it extends; anything else starts over.
Push(path, heading) ==
    IF heading.kind # "numbered" \/ path = <<Preamble>> THEN <<heading>>
    ELSE Append(Ancestors(path, heading), heading)

\* Every line with its page.
Numbered(document) ==
    [p \in DOMAIN document |->
        [i \in DOMAIN document[p] |-> [page |-> p, line |-> document[p][i]]]]

\* Variant: the text of a section is not told from another opening of its path.
OccurrenceNone(sections, path) == 0

\* How often this path has opened and produced text before.
Occurrence(sections, path) ==
    Cardinality({i \in DOMAIN sections : sections[i].path = path})

\* The end of a section: blank ones leave no trace.
Closed(reading) ==
    IF \A i \in DOMAIN reading.body : IsBlank(reading.body[i].line)
      THEN reading.sections
      ELSE Append(reading.sections,
            [path |-> reading.path, lines |-> reading.body,
             occurrence |-> Occurrence(reading.sections, reading.path)])

\* titles.setdefault: the first title a heading gets.
Titled(titles, heading, title) ==
    IF \E t \in titles : t.heading = heading THEN titles
    ELSE titles \cup {[heading |-> heading, title |-> title]}

\* A line that opens a section.
ReadHeading(reading, entry) ==
    LET heading == Heading(entry.line)
        title == TitleOf(entry.line)
    IN [sections |-> Closed(reading),
        path |-> Push(reading.path, heading),
        body |-> <<entry>>,
        titles |-> IF title = NoTitle THEN reading.titles
                   ELSE Titled(reading.titles, heading, title),
        awaiting |-> IF title = NoTitle /\ TitleBelow(entry.line) THEN {heading} ELSE {}]

\* A line of body text; the first one below a named part may be its title.
ReadBody(reading, entry) ==
    [reading EXCEPT
        !.body = Append(@, entry),
        !.titles = IF entry.line.caps /\ reading.awaiting # {}
                     THEN Titled(@, CHOOSE h \in reading.awaiting : TRUE, entry.line.words)
                     ELSE @,
        !.awaiting = IF IsBlank(entry.line) THEN @ ELSE {}]

\* Lines repeated verbatim on several pages are running headers and footers.
PageFurniture(document) ==
    {line \in Line : Cardinality({p \in DOMAIN document :
        line \in Range(document[p])}) >= FURNITURE_PAGES}

\* A line that opens a section does so unless it is a running header.
ReadLine(reading, entry, furniture) ==
    IF OpensSection(entry.line) /\ entry.line \notin furniture
      THEN ReadHeading(reading, entry) ELSE ReadBody(reading, entry)

ReadPage(reading, page, furniture) ==
    LET Step(before, entry) == ReadLine(before, entry, furniture)
    IN Through(Step, reading, page)

\* Before the first heading: the preamble.
Opened == [sections |-> << >>, path |-> <<Preamble>>, body |-> << >>,
           titles |-> {}, awaiting |-> {}]

ReadDocument(document) ==
    LET Step(before, page) == ReadPage(before, page, PageFurniture(document))
    IN Through(Step, Opened, Numbered(document))

-----------------------------------------------------------------------------
(* The text of a section, and its parts *)

\* Where line i begins in the joined lines: each is followed by one newline.
Cursor(lines, i) ==
    LET begins[j \in 1 .. i] ==
            IF j = 1 THEN 0 ELSE begins[j - 1] + lines[j - 1].line.size + 1
    IN begins[i]

\* What strip() takes off the front: the newlines of leading blank lines.
Lead(lines) == Cursor(lines, Min({i \in DOMAIN lines : ~IsBlank(lines[i].line)}))

\* The stripped text, counted from its first visible character.
Text(lines) ==
    LET last == Max({i \in DOMAIN lines : ~IsBlank(lines[i].line)})
        here(k) == k - Lead(lines)
    IN [length |-> here(Cursor(lines, last) + lines[last].line.size),
        paragraphs |-> {here(Cursor(lines, i) - 1) :
                            i \in {i \in 2 .. last : IsBlank(lines[i].line)}},
        stops |-> UNION {{here(Cursor(lines, i) + k) : k \in lines[i].line.stops} :
                            i \in DOMAIN lines}]

Lesser(a, b) == IF a < b THEN a ELSE b
Greater(a, b) == IF a > b THEN a ELSE b

half == max_chars \div 2
overlap == Lesser(overlap_chars, half)

\* Where a part that starts at `start` ends: at a paragraph, else at a sentence
\* in its second half, else at the cap.
EndOf(text, start) ==
    LET cap == Lesser(start + max_chars, text.length)
        within(marks) == {k \in marks : start <= k /\ k + 2 <= cap}
        found(marks, least) ==
            within(marks) # {} /\ Max(within(marks)) - start >= least
    IN CASE cap = text.length -> cap
         [] cap # text.length /\ found(text.paragraphs, 1) ->
                Max(within(text.paragraphs)) + 2
         [] cap # text.length /\ ~found(text.paragraphs, 1)
                /\ found(text.stops, Greater(1, half)) -> Max(within(text.stops)) + 2
         [] OTHER -> cap

NextStart(start, end) == Greater(start + 1, end - overlap)

\* Variant: what is left is taken to be in the last part's overlap.
SplitDroppingTail(text) ==
    LET rest[start \in 0 .. text.length] ==
            LET end == EndOf(text, start)
                part == <<[from |-> start, to |-> end]>>
            IN IF end + overlap >= text.length THEN part
               ELSE part \o rest[NextStart(start, end)]
    IN IF text.length <= max_chars THEN <<[from |-> 0, to |-> text.length]>>
       ELSE rest[0]

\* The parts of a text, each [from, to).
Split(text) ==
    LET rest[start \in 0 .. text.length] ==
            LET end == EndOf(text, start)
                part == <<[from |-> start, to |-> end]>>
            IN IF end >= text.length THEN part
               ELSE part \o rest[NextStart(start, end)]
    IN IF text.length <= max_chars THEN <<[from |-> 0, to |-> text.length]>>
       ELSE rest[0]

\* Variant: a character on the join of two lines is the earlier line's.
PageAtJoin(lines, offset) ==
    lines[Min({i \in DOMAIN lines :
        offset <= Cursor(lines, i) + lines[i].line.size})].page

\* The page of the line an offset stands in; a join belongs to the next line.
PageAt(lines, offset) ==
    LET reached == {i \in DOMAIN lines : offset < Cursor(lines, i) + lines[i].line.size}
    IN IF reached = {} THEN Last(lines).page ELSE lines[Min(reached)].page

\* The title of the outermost element of a path that has one.
TitleOfPath(titles, path) ==
    LET titled == {i \in DOMAIN path : \E t \in titles : t.heading = path[i]} IN
    IF titled = {} THEN NoTitle
    ELSE (CHOOSE t \in titles : t.heading = path[Min(titled)]).title

\* Variant: a chunk is known by its place in the document.
ChunkIdGlobal(section, within, ordinal) ==
    [path |-> << >>, occurrence |-> 0, ordinal |-> ordinal]

\* A chunk is known by its section's path, which opening of it, and its place
\* within; not by its place in the document.
ChunkId(section, within, ordinal) ==
    [path |-> section.path, occurrence |-> section.occurrence, ordinal |-> within]

ChunkOf(section, within, part, ordinal, titles) ==
    [id |-> ChunkId(section, within, ordinal),
     path |-> section.path,
     part |-> part,
     lines |-> section.lines,
     page |-> PageAt(section.lines, part.from + Lead(section.lines)),
     title |-> TitleOfPath(titles, section.path)]

AddChunks(found, section, titles) ==
    LET cut == Split(Text(section.lines)) IN
    found \o [k \in DOMAIN cut |->
                ChunkOf(section, k - 1, cut[k], Len(found) + k - 1, titles)]

\* One chunk never spans two sections.
ChunkPages(document) ==
    LET reading == ReadDocument(document)
        sections == Closed(reading)
        Add(found, section) == AddChunks(found, section, reading.titles)
    IN Through(Add, << >>, sections)

-----------------------------------------------------------------------------
\* An author's document so far, ingested.
Ingest(document) ==
    /\ pages' = document
    /\ chunks' = ChunkPages(document)

Size == Len(FlattenSeq(pages))

Init ==
    /\ pages = << << >> >>
    /\ chunks = << >>

Write(line) ==
    /\ Size < MaxLines
    /\ Ingest([pages EXCEPT ![Len(pages)] = Append(@, line)])

TurnPage ==
    /\ Len(pages) < MaxPages
    /\ pages[Len(pages)] # << >>
    /\ Ingest(Append(pages, << >>))

\* A line of prose is added somewhere above the end.
Revise(p, i, line) ==
    /\ Size < MaxLines
    /\ Ingest([pages EXCEPT ![p] = InsertAt(@, i, line)])

Next ==
    \/ \E line \in Line : Write(line)
    \/ TurnPage
    \/ \E line \in Prose, p \in DOMAIN pages :
        \E i \in DOMAIN pages[p] : Revise(p, i, line)

Spec == Init /\ [][Next]_vars

-----------------------------------------------------------------------------
\* No two chunks of an edition share an identity: a path that opens again, a
\* running header and a section without text do not make two ids meet.
ChunkIdsAreUnique ==
    \A i, j \in DOMAIN chunks : chunks[i].id = chunks[j].id => i = j

\* Section paths are hierarchies: at most one part that is not a number, and it
\* comes first; each number extends the one before it.
PathsNest ==
    \A k \in DOMAIN chunks :
        LET path == chunks[k].path IN
        /\ path # << >>
        /\ \A i \in DOMAIN path \ {1} :
            /\ path[i].kind = "numbered"
            /\ path[i - 1].kind = "numbered" => IsStrictPrefix(path[i - 1].id, path[i].id)
        /\ Preamble \in Range(path) => Len(path) = 1

\* The parts of a section leave out no character of it and exceed the cap by none.
EveryCharacterIsKept ==
    \A k \in DOMAIN chunks :
        LET text == Text(chunks[k].lines)
            parts == {c.part : c \in {c \in Range(chunks) :
                        /\ c.path = chunks[k].path
                        /\ c.lines = chunks[k].lines}}
        IN /\ UNION {p.from .. p.to - 1 : p \in parts} = 0 .. text.length - 1
           /\ \A p \in parts : p.to - p.from \in 1 .. max_chars

\* A chunk's page is where its own text starts: the page of the line its first
\* character stands in, or of the line below when that character is a line's end.
PagesAreWhereTextStarts ==
    \A k \in DOMAIN chunks :
        LET c == chunks[k]
            at == c.part.from + Lead(c.lines)
            opened == {i \in DOMAIN c.lines : Cursor(c.lines, i) <= at}
            i == Max(opened)
            onLine == at < Cursor(c.lines, i) + c.lines[i].line.size
        IN c.page = IF onLine THEN c.lines[i].page ELSE c.lines[i + 1].page

\* "An edit only moves the ids of the sections it actually touches": adding prose
\* to one section leaves the chunks of every other as they were, id and text, so
\* what is anchored to them survives.
Identity(c) ==
    [id |-> c.id, part |-> c.part,
     lines |-> [i \in DOMAIN c.lines |-> c.lines[i].line]]

ProseTouchesOneSection ==
    [][(\E line \in Prose, p \in DOMAIN pages :
            \E i \in DOMAIN pages[p] : Revise(p, i, line)) =>
        LET moved == {Identity(c) : c \in Range(chunks)}
                     \ {Identity(c) : c \in Range(chunks')}
        IN \A c, d \in Range(chunks) :
            Identity(c) \in moved /\ Identity(d) \in moved =>
                c.path = d.path /\ c.lines = d.lines]_vars
=============================================================================
