------------------------------- MODULE Indexing -------------------------------
(***************************************************************************)
(* From a parsed paper to its vector index and back: the reading order of  *)
(* a page, the kind and the section of its elements, the chunks of a text, *)
(* large ones and the small ones inside, their vectors, and a query.  All  *)
(* of it only computes.                                                    *)
(*                                                                         *)
(* A text is [sentences, lines, length]: the sizes of its sentences and    *)
(* of its lines.  A chunk is a range of sentences [type, index, parent,    *)
(* first, last, from], from being what was cut; a line counts as a         *)
(* sentence of an element.                                                 *)
(***************************************************************************)
EXTENDS Integers, Sequences, FiniteSets, SequencesExt, FiniteSetsExt

CONSTANTS
  None,
  LargeSize, LargeOverlap,          \* 1200 and 200
  SmallSize, SmallOverlap,          \* 400 and 100
  LongText, VeryLongText, PieceSize,  \* 200, 500 and 200
  MinFront,                         \* 80: what a page of front matter must have
  BatchSize                         \* 10 texts in a call for vectors

IndexingAssumption ==
  /\ {LargeSize, SmallSize, PieceSize, BatchSize} \subseteq Nat \ {0}
  /\ {LargeOverlap, SmallOverlap, LongText, VeryLongText, MinFront} \subseteq Nat
  /\ LargeOverlap < LargeSize /\ SmallOverlap < SmallSize

SumFrom(sizes, i, j) == FoldLeft(+, 0, SubSeq(sizes, i, j))
Ceil(a, b) == (a + b - 1) \div b
Sorted(S, Before(_, _)) ==
  [n \in 1..Cardinality(S) |->
    CHOOSE i \in S : Cardinality({j \in S : Before(j, i)}) = n - 1]

-----------------------------------------------------------------------------
(* Sentences; lines when there is one sentence; pieces when there is one   *)
(* line.                                                                   *)
Pieces(length) == [i \in 1..Ceil(length, PieceSize) |->
                    Min({PieceSize, length - (i - 1) * PieceSize})]

Split(text) ==
  IF Len(text.sentences) > 1 \/ text.length <= LongText THEN text.sentences
  ELSE IF Len(text.lines) > 1 \/ text.length <= VeryLongText THEN text.lines
  ELSE Pieces(text.length)

(* Sentences are put together while they fit; the next chunk begins with   *)
(* the last of them, as many as the overlap takes.  What they measure is   *)
(* counted with separators before, and without after an overlap.           *)
Merge(sizes, target, overlap) ==
  LET Step(sofar, i) ==
        IF sofar.size + sizes[i] + 1 <= target
        THEN [sofar EXCEPT !.size = @ + sizes[i] + 1]
        ELSE LET begin == Min({j \in sofar.first..i :
                                SumFrom(sizes, j, i - 1) <= overlap})
             IN  [done |-> Append(sofar.done, [first |-> sofar.first, last |-> i - 1]),
                  first |-> begin, size |-> SumFrom(sizes, begin, i)]
      all == FoldLeft(Step, [done |-> <<>>, first |-> 1, size |-> sizes[1]],
                      [i \in 1..(Len(sizes) - 1) |-> i + 1])
  IN  IF sizes = <<>> THEN <<>>
      ELSE Append(all.done, [first |-> all.first, last |-> Len(sizes)])

(* Each large chunk is followed by its small ones, which know its number.  *)
ChunkText(text, from) ==
  LET sizes == Split(text)
      Family(sofar, large) ==
        LET n == Len(sofar)
            small == Merge(SubSeq(sizes, large.first, large.last), SmallSize, SmallOverlap)
        IN  Append(sofar, [type |-> "large", index |-> n, parent |-> None, from |-> from,
                           first |-> large.first, last |-> large.last])
              \o [i \in DOMAIN small |->
                   [type |-> "small", index |-> n + i, parent |-> n, from |-> from,
                    first |-> large.first + small[i].first - 1,
                    last |-> large.first + small[i].last - 1]]
  IN  FoldLeft(Family, <<>>, Merge(sizes, LargeSize, LargeOverlap))

Renumber(chunks, base) ==
  [i \in DOMAIN chunks |->
    [chunks[i] EXCEPT !.index = @ + base,
                      !.parent = IF @ = None THEN None ELSE @ + base]]

(* The chunks of several texts [text, from], numbered through. *)
Assemble(parts) ==
  FoldLeft(LAMBDA sofar, p : sofar \o Renumber(ChunkText(p.text, p.from), Len(sofar)),
           <<>>, parts)

-----------------------------------------------------------------------------
(* What is cut.  Sections [text, from], and pages [text, from] of the      *)
(* file: those before the first section, or all when one section stands    *)
(* for the whole text and has less than four fifths of it.                 *)
FrontEnd(sections, whole, firstPage, pages) ==
  LET length == FoldLeft(LAMBDA n, p : n + p.text.length, 0, pages)
  IN  IF sections = <<>> THEN 0
      ELSE IF ~whole THEN Min({Max({1, firstPage}), Len(pages)})
      ELSE IF 10 * sections[1].text.length < 8 * length THEN Len(pages) ELSE 0

CompleteChunks(sections, whole, firstPage, pages) ==
  Assemble(SelectSeq(sections, LAMBDA s : s.text.length > 0)
             \o SelectSeq(SubSeq(pages, 1, FrontEnd(sections, whole, firstPage, pages)),
                          LAMBDA p : p.text.length >= MinFront))

(* Elements [id, page, type, indexable, path, lines]; a line [sign, long,  *)
(* number, size].  A line of many pages is a running title, not text.      *)
RepeatedOn(pages) == Max({2, Ceil(3 * Cardinality(pages), 10)})

Repeated(elements) ==
  LET pages == {e.page : e \in Range(elements)}
      On(sign) == {e.page : e \in {f \in Range(elements) :
                    \E l \in Range(f.lines) : l.long /\ l.sign = sign}}
      signs == UNION {{l.sign : l \in Range(e.lines)} : e \in Range(elements)}
  IN  {sign \in signs : Cardinality(On(sign)) >= RepeatedOn(pages)}

CleanLines(element, elements) ==
  SelectSeq(element.lines, LAMBDA l : l.sign \notin Repeated(elements) /\ ~l.number)

ElementChunks(elements) ==
  LET Clean(e) == LET lines == CleanLines(e, elements)
                      sizes == [i \in DOMAIN lines |-> lines[i].size]
                  IN  [text |-> [sentences |-> sizes, lines |-> sizes,
                                 length |-> SumFrom(sizes, 1, Len(sizes))],
                       from |-> [element |-> e.id, page |-> e.page,
                                 section |-> IF e.path = <<>> THEN None ELSE Last(e.path)]]
      kept == SelectSeq(elements, LAMBDA e : e.indexable /\ e.type # "title"
                                               /\ CleanLines(e, elements) # <<>>)
  IN  Assemble([i \in DOMAIN kept |-> Clean(kept[i])])

-----------------------------------------------------------------------------
(* The layout of a page.  An item is [left, top, right, bottom, kind].     *)
InOrder(items, S) ==
  Sorted(S, LAMBDA i, j :
    \/ items[i].top < items[j].top
    \/ items[i].top = items[j].top /\ items[i].left < items[j].left
    \/ items[i].top = items[j].top /\ items[i].left = items[j].left /\ i < j)

Narrow(item, width) ==
  item.kind = "text" /\ 100 * (item.right - item.left) < 72 * width
LeftOf(items, width)  == {i \in DOMAIN items : Narrow(items[i], width)
                           /\ 100 * (items[i].left + items[i].right) < 94 * width}
RightOf(items, width) == {i \in DOMAIN items : Narrow(items[i], width)
                           /\ 100 * (items[i].left + items[i].right) > 106 * width}
Across(items, width)  == DOMAIN items \ (LeftOf(items, width) \union RightOf(items, width))

TwoColumns(items, width) ==
  Len(items) >= 3 /\ Cardinality(LeftOf(items, width)) >= 2
    /\ Cardinality(RightOf(items, width)) >= 2

(* From one thing that goes across the page to the next, the left column   *)
(* and then the right one.  The places of the items, in reading order.     *)
ReadingOrder(items, width) ==
  LET left == LeftOf(items, width)
      right == RightOf(items, width)
      Columns(S) == InOrder(items, S \ (left \union right))
                      \o InOrder(items, S \intersect left)
                      \o InOrder(items, S \intersect right)
      Cross(sofar, s) ==
        LET segment == {i \in sofar.rest \ {s} :
                         sofar.top <= items[i].top /\ items[i].top < items[s].top}
        IN  [read |-> sofar.read \o Columns(segment) \o <<s>>,
             rest |-> sofar.rest \ (segment \union {s}), top |-> items[s].bottom]
      all == FoldLeft(Cross, [read |-> <<>>, rest |-> DOMAIN items, top |-> 0],
                      InOrder(items, Across(items, width)))
  IN  IF ~TwoColumns(items, width) THEN InOrder(items, DOMAIN items)
      ELSE all.read \o Columns(all.rest)

(* The kind of a block from what its text looks like, and what repeats at  *)
(* the edge of many pages: a block is [page, looks, edge, sign, prominent, *)
(* level, title], without a sign when it has too few letters to repeat.    *)
Looks(block) ==
  LET ranked == <<"figure", "page_number", "caption", "list", "equation">>
      seen == SelectSeq(ranked, LAMBDA look : look \in block.looks)
  IN  IF seen # <<>> THEN seen[1]
      ELSE IF block.looks \intersect {"numbered", "large"} # {} THEN "title"
      ELSE "paragraph"

OnEdges(blocks, sign) == {i \in DOMAIN blocks :
                           blocks[i].sign = sign /\ blocks[i].edge # None}
TypeOf(blocks, pages, i) ==
  LET block == blocks[i]
      running == block.sign # None /\ Cardinality(OnEdges(blocks, block.sign)) >= RepeatedOn(1..pages)
  IN  CASE running /\ block.edge = "top" /\ ~(block.page = 1 /\ block.prominent) -> "header"
        [] running /\ block.edge = "bottom" -> "footer"
        [] OTHER -> Looks(block)

Indexable == {"title", "paragraph", "list", "caption", "equation"}

(* The titles above an element, one for each level. *)
Paths(blocks, pages) ==
  LET Under(path, i) ==
        IF TypeOf(blocks, pages, i) # "title" THEN path
        ELSE Append(SubSeq(path, 1, Min({Len(path), blocks[i].level - 1})), blocks[i].title)
  IN  [n \in DOMAIN blocks |->
        FoldLeft(Under, <<>>, [i \in 1..n |-> i])]

-----------------------------------------------------------------------------
(* Vectors: blank texts are not sent, and the answers come in any order.   *)
(* replies has what the service answers to each, None when it fails.       *)
Batches(texts) == 1..Ceil(Len(texts), BatchSize)
Sent(texts, b) ==
  SelectSeq([i \in 1..Min({BatchSize, Len(texts) - (b - 1) * BatchSize}) |->
               (b - 1) * BatchSize + i], LAMBDA i : texts[i] # None)

Embed(texts, replies) ==
  LET Answers(b) == IF Sent(texts, b) = <<>> THEN <<>> ELSE replies[b]
      VectorOf(b, n) == (CHOOSE x \in Range(Answers(b)) : x.index = n).vector
      At(i) == LET b == Ceil(i, BatchSize)
               IN  VectorOf(b, CHOOSE n \in DOMAIN Sent(texts, b) : Sent(texts, b)[n] = i)
  IN  IF \E b \in Batches(texts) : \/ Answers(b) = None
                                  \/ Len(Answers(b)) # Len(Sent(texts, b))
      THEN None
      ELSE [i \in DOMAIN texts |-> IF texts[i] = None THEN None ELSE At(i)]

(* A query: the nearest, with a bonus for words in common, by kind.  A     *)
(* candidate is [type, index, section, table, distance, words, titles]: in *)
(* hundredths, and how many words of the query its text and title have.    *)
Bonus(c, q) ==
  Min({60, 8 * c.words + 12 * c.titles + (IF c.type = "small" THEN 3 ELSE 0)
             + (IF c.table = None THEN 0 ELSE IF c.table = q.table THEN 55 ELSE 5)})

Reranked(candidates, q) ==
  LET asked == SelectSeq(candidates, LAMBDA c : q.table # None /\ c.table = q.table)
      others == SelectSeq(candidates, LAMBDA c : q.table = None \/ c.table # q.table)
      all == asked \o others
      value == [i \in DOMAIN all |-> all[i].distance - Bonus(all[i], q)]
      order == Sorted(DOMAIN all, LAMBDA i, j :
                 value[i] < value[j] \/ (value[i] = value[j] /\ i < j))
  IN  [n \in DOMAIN all |-> all[order[n]]]

Kinds(q) ==
  CASE "table" \in q.about -> <<{"table", "table_row"}, {"small"}, {"image"}>>
    [] "table" \notin q.about /\ "image" \in q.about ->
         <<{"image"}, {"small"}, {"table", "table_row"}>>
    [] OTHER -> <<{"small"}, {"table", "table_row"}, {"image"}>>

QueryResults(candidates, q, k) ==
  LET ranked == Reranked(SelectSeq(candidates, LAMBDA c : c.type # "large"), q)
      grouped == FlattenSeq([g \in 1..3 |->
                   SelectSeq(ranked, LAMBDA c : c.type \in Kinds(q)[g])])
      Same(c, d) == c.type = d.type /\ c.index = d.index /\ c.section = d.section
  IN  FoldLeft(LAMBDA kept, c : IF \E d \in Range(kept) : Same(c, d) THEN kept
                                ELSE Append(kept, c),
               <<>>, SubSeq(grouped, 1, Min({k, Len(grouped)})))

(* The large chunk a small one is shown in. *)
ParentOf(index, small) ==
  LET there == SelectSeq(index, LAMBDA c : c.type = "large" /\ c.index = small.parent)
  IN  IF there = <<>> THEN None ELSE there[1]

-----------------------------------------------------------------------------
(* Every sentence is in a large and in a small chunk of its own text; a    *)
(* number is of one chunk; the large chunk shown for a small one, by its   *)
(* number, has all of it; a chunk goes on where the last one ended and is  *)
(* no larger than it may be, but for one sentence after the overlap.       *)
ChunksAreSound(parts, index) ==
  LET Of(p, type) == {c \in Range(index) : c.from = p.from /\ c.type = type}
      Covered(p, type) == UNION {c.first..c.last : c \in Of(p, type)}
      Fits(p, c, size, overlap) ==
        LET sizes == Split(p.text)
            longest == Max({sizes[i] : i \in c.first..c.last})
        IN  SumFrom(sizes, c.first, c.last) <= Max({size, overlap + longest})
  IN  /\ \A i \in DOMAIN index : index[i].index = i - 1
      /\ \A p \in Range(parts) :
           /\ Covered(p, "large") = DOMAIN Split(p.text)
           /\ Covered(p, "small") = DOMAIN Split(p.text)
           /\ \A c \in Of(p, "large") : Fits(p, c, LargeSize, LargeOverlap)
           /\ \A c \in Of(p, "small") : Fits(p, c, SmallSize, SmallOverlap)
      /\ \A c \in Range(index) : c.type = "small" =>
           LET large == ParentOf(index, c)
           IN  large # None /\ large.from = c.from
                 /\ large.first <= c.first /\ c.last <= large.last

(* Nothing of a page is lost or read twice.  Where nothing starts beside   *)
(* a thing that goes across, a column is read from top to bottom and       *)
(* nothing is read on the wrong side of it.                                *)
Beside(items, width) ==
  \E s \in Across(items, width), i \in DOMAIN items :
    i # s /\ items[s].top <= items[i].top /\ items[i].top < items[s].bottom

ReadsDown(items, width) ==
  LET read == ReadingOrder(items, width)
      Place(i) == CHOOSE n \in DOMAIN read : read[n] = i
      columns == {LeftOf(items, width), RightOf(items, width)}
  IN  TwoColumns(items, width) =>
        /\ \A column \in columns : \A i, j \in column :
             items[i].top < items[j].top => Place(i) < Place(j)
        /\ \A s \in Across(items, width), i \in DOMAIN items :
             items[i].top < items[s].top => Place(i) < Place(s)

PageIsRead(items, width) ==
  /\ {ReadingOrder(items, width)[n] : n \in DOMAIN ReadingOrder(items, width)}
       = DOMAIN items
  /\ Len(ReadingOrder(items, width)) = Len(items)
  /\ ~Beside(items, width) => ReadsDown(items, width)

(* A title that repeats at the edges is no section, unless the first page  *)
(* makes much of it; the path of a block is made of titles before it, of   *)
(* rising levels.                                                          *)
SectionsAreTitles(blocks, pages) ==
  \A n \in DOMAIN blocks :
    LET path == Paths(blocks, pages)[n]
        Title(i, t) == blocks[i].title = t /\ TypeOf(blocks, pages, i) = "title"
        at == [k \in DOMAIN path |->
                Max({i \in 1..n : Title(i, path[k])} \union {0})]
    IN  /\ \A k \in DOMAIN path : at[k] > 0 /\ blocks[at[k]].level >= k
        /\ \A j, k \in DOMAIN path : j < k => at[j] < at[k]
        /\ TypeOf(blocks, pages, n) = "title" => Last(path) = blocks[n].title

(* Lines of text are dropped only for being on many pages or a number.     *)
ElementsAreKept(elements) ==
  LET index == ElementChunks(elements)
  IN  \A e \in Range(elements) :
        e.indexable /\ e.type # "title"
          /\ (\E l \in Range(e.lines) : ~l.number /\ (l.long =>
               \A f \in Range(elements) : f.page = e.page \/ l.sign \notin
                 {x.sign : x \in Range(f.lines)}))
        => \E c \in Range(index) : c.from.element = e.id /\ c.from.page = e.page

(* A vector is of its own text, whatever is blank and in whatever order    *)
(* the answers come; and no vector is missing unless its text is.          *)
VectorsFit(texts, replies) ==
  LET vectors == Embed(texts, replies)
  IN  vectors # None => \A i \in DOMAIN texts : vectors[i] = texts[i]

(* A query has no more results than asked for, none twice, first those of  *)
(* the kind it is about; while there is room, all of them.                 *)
ResultsAreSound(candidates, q, k) ==
  LET results == QueryResults(candidates, q, k)
      Group(c) == CHOOSE g \in 1..3 : c.type \in Kinds(q)[g]
      able == {c \in Range(candidates) : c.type # "large"}
  IN  /\ Len(results) <= k
      /\ \A i, j \in DOMAIN results : i < j => Group(results[i]) <= Group(results[j])
      /\ Range(results) \subseteq able
      /\ IsInjective(results)
      /\ Len(candidates) <= k => \A c \in able : \E d \in Range(results) :
           c.type = d.type /\ c.index = d.index /\ c.section = d.section

-----------------------------------------------------------------------------
(* knowledge_base.py:482, the table a question names comes first among     *)
(* the results of its kind.  Not so: the reranking sorts it by distance    *)
(* again, and its bonus is bounded.                                        *)
NamedTableIsFirst(candidates, q, k) ==
  LET results == QueryResults(candidates, q, k)
  IN  \A i, j \in DOMAIN results :
        q.table # None /\ {"table"} \subseteq q.about
          /\ results[j].type = "table" /\ results[j].table = q.table
          /\ results[i].type = "table" /\ results[i].table # q.table => j < i

(* document_layout.py:163, what goes across a page separates it.  Not so   *)
(* for a text that starts beside a figure: it is read after everything     *)
(* below the figure.                                                       *)
SeparatorsHold(items, width) == ReadsDown(items, width)
=============================================================================
