-------------------------------- MODULE MCRules --------------------------------
(***************************************************************************)
(* Bounded inputs for the algorithms that only compute: those of           *)
(* Retrieval, Indexing, ResearchContext and TableStructure.  MCWorkbench   *)
(* checks them.                                                            *)
(***************************************************************************)
EXTENDS Nothing, Naturals, FiniteSets, Sequences, SequencesExt

Recalled == INSTANCE Retrieval WITH FewChunks <- 1, SomeChunks <- 2, ManyChunks <- 2,
                                    MinPool <- 3, MaxPool <- 4
Index    == INSTANCE Indexing WITH LargeSize <- 6, LargeOverlap <- 2, SmallSize <- 3,
                                   SmallOverlap <- 1, LongText <- 4, VeryLongText <- 6,
                                   PieceSize <- 2, MinFront <- 3, BatchSize <- 2

Tables   == INSTANCE TableStructure WITH MaxHeader <- 3

ASSUME Recalled!RetrievalAssumption /\ Index!IndexingAssumption /\ Tables!TableAssumption

-----------------------------------------------------------------------------
(* Retrieval: two chunks that are alike, one that is not, one that shares  *)
(* an element with one and the page of another; noise; a row and a table.  *)
Chunk(section, page, element, text, words) ==
  [section |-> section, page |-> page, type |-> "text", table |-> None,
   element |-> element, boxed |-> element # None, fields |-> <<>>,
   method |-> "hybrid", noise |-> FALSE, text |-> text, words |-> words,
   whole |-> FALSE]
Plain == Chunk("s", 1, None, <<"x", "X">>, {"w"})
Boxed == Chunk("s", 1, "e", <<"x", "X">>, {"w"})
Other == Chunk("t", 2, None, <<"y", "Y">>, {"v"})
Joins == Chunk("t", 2, "e", <<"x", "Z">>, {"w", "v"})
Noise == [Other EXCEPT !.noise = TRUE]
Row   == [Chunk("t", 2, None, <<"r", "R">>, {"w"}) EXCEPT
            !.type = "table_row", !.table = 1,
            !.fields = <<[label |-> "l", value |-> 1], [label |-> "m", value |-> 2]>>]
Table == [Chunk("t", 2, None, <<"T", "T">>, {"v"}) EXCEPT
            !.type = "table", !.table = 1, !.method = "exact"]

Lists(S, n)    == UNION {[1..k -> S] : k \in 0..n}
Rankings(S, n) == {s \in Lists(S, n) : \A i, j \in DOMAIN s : s[i] = s[j] => i = j}

Questions == [words : {{"w"}}, kind : {{}, {"table", "numeric"}, {"complex"}},
              sides : {<<{"w"}, {"v"}>>}, asks : {"max"}]
(* What the model answers of the candidates: nothing, an order, nonsense. *)
Orders == {None, <<1>>, <<2, 1>>, <<9>>} \X {None, <<2>>}

RetrieveInputs ==
  [rule : {"retrieve"}, q : Questions, docs : {<<Plain, Other>>, <<Joins, Boxed>>},
   vector : Rankings({Plain, Boxed, Other, Joins}, 2), table : {<<>>, <<Table>>},
   orders : Orders]
ReviewInputs ==
  [rule : {"review"}, q : Questions, intent : {"general", "table", "comparison"},
   chunks : Rankings({Plain, Other, Noise, Row, Table}, 3)]
MarkerInputs ==
  [rule : {"cite"}, markers : Lists(0..4, 3), chunks : Lists({Plain, Boxed, Other, Joins}, 3)]

RetrieveHolds(i) ==
  Recalled!EvidenceIsSound(i.q, "general",
    [table_row |-> <<Row>>, table |-> i.table, image |-> <<>>],
    [asked |-> [vector |-> i.vector, docs |-> i.docs],
     broad |-> [vector |-> <<Joins>>, docs |-> i.docs],
     sides |-> <<[vector |-> <<Boxed>>, docs |-> i.docs],
                 [vector |-> <<>>, docs |-> i.docs]>>], i.orders)

-----------------------------------------------------------------------------
(* ResearchContext: three papers, one of which may not be the user's, have *)
(* no evidence, or the same chunk twice.                                   *)
Part(element, index, text, words, score) ==
  [element |-> element, index |-> index, text |-> text, words |-> words, score |-> score]
Figure    == Part("e1", None, "x", {"w"}, 900)
Paragraph == Part(None, "b1", "y", {"v"}, 500)
Image     == Part(None, None, "z", {"w", "v"}, 100)
Scan      == Part(None, None, "q", {"u"}, 100)

PapersLike(id, words, chunks) ==
  [id : {id}, mine : BOOLEAN, role : {"core", "background"}, priority : {3},
   profile : {"ready", "stale", "failed"}, words : {words}, chunks : chunks]

ProjectInputs ==
  [rule : {"project"}, query : {{"w", "v"}}, k : {2, 3}, allowed : {None, {"p", "r"}},
   papers : {<<a, b, c>> :
     a \in PapersLike("p", {"w"}, {<<>>, <<Figure, Paragraph, Image>>, <<Image, Scan>>}),
     b \in PapersLike("q", {"v"}, {<<Figure, Figure>>}),
     c \in PapersLike("r", {}, {<<Figure>>})}]

-----------------------------------------------------------------------------
(* Indexing.  Texts of up to four sentences, and of one that is too long.  *)
Text(sentences, lines) == [sentences |-> sentences, lines |-> lines,
                           length |-> FoldLeft(+, 0, sentences)]
Texts == {Text(s, s) : s \in Lists({1, 2, 4}, 4)}
           \union {Text(<<7>>, <<7>>), Text(<<7>>, <<3, 4>>), Text(<<5>>, <<5>>)}
CutInputs ==
  [rule : {"cut"}, first : Texts, whole : BOOLEAN, page : {0, 2},
   second : {Text(<<>>, <<>>), Text(<<7>>, <<7>>), Text(<<2, 2>>, <<2, 2>>)}]

CutHolds(i) ==
  LET From(text, place) == [text |-> text, from |-> place]
      all == <<From(i.first, "a"), From(i.second, "b")>>
      sections == IF i.whole THEN <<all[1]>> ELSE all
      pages == <<From(Text(<<1, 2>>, <<1, 2>>), "p"), From(i.first, "q")>>
      index == Index!CompleteChunks(sections, i.whole, i.page, pages)
      cut == {c.from : c \in Range(index)}
  IN  /\ \A s \in Range(sections) : s.text.length > 0 => s.from \in cut
      /\ Index!ChunksAreSound(SelectSeq(sections \o pages, LAMBDA p : p.from \in cut), index)

(* Two columns of two texts, and up to two things across or figures. *)
Item(left, right, top, kind) ==
  [left |-> left, right |-> right, top |-> top, kind |-> kind,
   bottom |-> top + (IF kind = "figure" THEN 2 ELSE 1)]
Column(left, right) == {<<Item(left, right, p[1], "text"), Item(left, right, p[2], "text")>> :
                         p \in {q \in (0..4) \X (0..4) : q[1] < q[2]}}
LayoutInputs ==
  [rule : {"layout"},
   items : {l \o r \o s : l \in Column(0, 4), r \in Column(6, 10),
             s \in Rankings({Item(0, 10, t, "text") : t \in {0, 2, 4}}
                             \union {Item(0, 4, t, "figure") : t \in {1, 2, 3}}, 2)}]

Block(looks, edge, sign, prominent, level) ==
  [looks |-> looks, edge |-> edge, sign |-> sign, prominent |-> prominent, level |-> level]
Blocks == {Block({"numbered"}, None, None, FALSE, l) : l \in 1..3}
            \union {Block({"numbered"}, "top", "s", p, 1) : p \in BOOLEAN}
            \union {Block({}, "bottom", "s", FALSE, 1),
                    Block({"caption", "numbered"}, None, None, FALSE, 1)}
BlockInputs == [rule : {"blocks"}, blocks : Lists(Blocks, 4)]
OnPages(bs) == [i \in DOMAIN bs |->
  [page |-> (i + 1) \div 2, title |-> i, looks |-> bs[i].looks, edge |-> bs[i].edge,
   sign |-> bs[i].sign, prominent |-> bs[i].prominent, level |-> bs[i].level]]

(* Elements whose lines may be on several pages. *)
TextLine(sign, long, number, size) ==
  [sign |-> sign, long |-> long, number |-> number, size |-> size]
Lines == {TextLine("a", TRUE, FALSE, 2), TextLine("b", FALSE, FALSE, 1),
          TextLine("n", FALSE, TRUE, 1)}
Elements(id, types) ==
  [id : {id}, page : {id, 2}, type : types, indexable : {TRUE}, path : {<<>>, <<"t">>},
   lines : Rankings(Lines, 2)]
ElementInputs ==
  [rule : {"elements"},
   elements : {<<a, b>> : a \in Elements(1, {"paragraph", "title"}),
                          b \in Elements(2, {"paragraph", "title"})}]

VectorInputs == [rule : {"vectors"}, texts : Lists({None, "a", "b"}, 4),
                 reply : {"ordered", "reversed", "short", "none"}]
Reply(how, texts, sent) ==
  LET n == Len(sent)
      Vector(i) == [index |-> i, vector |-> texts[sent[i]]]
  IN  CASE how = "ordered"  -> [i \in 1..n |-> Vector(i)]
        [] how = "reversed" -> [i \in 1..n |-> Vector(n + 1 - i)]
        [] how = "short"    -> [i \in 1..(n - 1) |-> Vector(i)]
        [] how = "none"     -> None

Found(type, index, table, distance, words) ==
  [type |-> type, index |-> index, section |-> "s", table |-> table,
   distance |-> distance, words |-> words, titles |-> 0]
Candidates ==
  {Found("small", 1, None, 50, 1), Found("small", 1, None, 60, 2),
   Found("small", 2, None, 40, 0), Found("large", 0, None, 10, 0),
   Found("table", 3, 1, 150, 0), Found("table", 4, 2, 60, 1),
   Found("table_row", 3, 1, 100, 0), Found("image", 5, None, 20, 0)}
QueryInputs == [rule : {"query"}, candidates : Rankings(Candidates, 3), k : 1..3,
                q : [about : {{}, {"table"}, {"image"}}, table : {1}]]

-----------------------------------------------------------------------------
(* TableStructure.  A table on page 1, one with the same, a similar or     *)
(* another header on page 2, and one after that.                           *)
Line(kind, text) == [kind |-> kind, text |-> text]
Header(a, b) == Line("words", <<a, b>>)
Body(n) == Lists({Line("words", <<"w", "w">>), Line("numbers", <<"n", "n">>),
                  Line("note", <<"*", "*">>)}, n)
Parts(page, number, captions, hints, headers, body) ==
  [page : {page}, number : {number}, width : {1}, caption : captions, goesOn : hints,
   rows : {<<h>> \o b : h \in headers, b \in body} \union {<<>>}]

TableInputs ==
  [rule : {"table"},
   parts : {{a, b, c} :
     a \in Parts(1, 1, {"c"}, {FALSE}, {Header("h", "h")}, Body(2)),
     b \in Parts(2, 2, {"c", "d"}, BOOLEAN,
                {Header("h", "h"), Header("h", "g"), Header("x", "x")}, Body(2)),
     c \in UNION {Parts(p, 3, {None}, {FALSE}, {Header("h", "h")}, Body(1)) : p \in {2, 3}}}]

-----------------------------------------------------------------------------
RuleInputs == RetrieveInputs \union ReviewInputs \union MarkerInputs
                \union CutInputs \union LayoutInputs \union BlockInputs
                \union ElementInputs \union VectorInputs \union QueryInputs
                \union TableInputs

RuleHolds(i) ==
  CASE i.rule = "retrieve" -> RetrieveHolds(i)
    [] i.rule = "review" -> Recalled!ReviewIsSound(i.q, i.chunks, i.intent)
    [] i.rule = "cite" -> Recalled!CitationsResolve(i.markers, i.chunks)
    [] i.rule = "cut" -> CutHolds(i)
    [] i.rule = "layout" -> Index!PageIsRead(i.items, 10)
    [] i.rule = "blocks" -> Index!SectionsAreTitles(OnPages(i.blocks), 2)
    [] i.rule = "elements" -> Index!ElementsAreKept(i.elements)
    [] i.rule = "vectors" -> Index!VectorsFit(i.texts,
           [b \in Index!Batches(i.texts) |-> Reply(i.reply, i.texts, Index!Sent(i.texts, b))])
    [] i.rule = "table" -> Tables!TablesAreWhole(i.parts)
    [] i.rule = "query" -> Index!ResultsAreSound(i.candidates, i.q, i.k)
=============================================================================
