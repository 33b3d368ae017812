------------------------------ MODULE Retrieval ------------------------------
(***************************************************************************)
(* How evidence for a question is found in a paper: the plan, the recall   *)
(* by several channels, two rerankings, the removal of duplicates, a       *)
(* second pass when too little was found; and how an answer's markers      *)
(* become citations of that evidence.  All of it is computed from a        *)
(* question [words, kind, sides], the chunks each channel ranked and the   *)
(* order a model proposed.                                                 *)
(*                                                                         *)
(* A chunk is [section, page, type, table, element, boxed, fields, method, *)
(* noise, text, words, whole]; text is a pair of its first sentence and    *)
(* its whole content, equal for chunks the similarity measures take for    *)
(* the same; whole: it holds the question word for word.                   *)
(***************************************************************************)
EXTENDS Integers, Sequences, FiniteSets, SequencesExt, FiniteSetsExt

CONSTANTS
  None,
  FewChunks, SomeChunks, ManyChunks,  \* 4, 6 and 10
  MinPool, MaxPool                    \* 20 and 40

RetrievalAssumption ==
  /\ {FewChunks, SomeChunks, ManyChunks, MinPool, MaxPool} \subseteq Nat \ {0}
  /\ FewChunks <= SomeChunks /\ SomeChunks <= ManyChunks /\ MinPool <= MaxPool

AtMost(s, n) == SubSeq(s, 1, Min({n, Len(s)}))

(* The plan: what a question is about decides channels and sizes.          *)
Intent(q, intent) ==
  IF "table" \in q.kind THEN "table"
  ELSE IF "image" \in q.kind THEN "image"
  ELSE IF "complex" \in q.kind THEN "comparison" ELSE intent

TopK(q, intent) ==
  IF intent = "comparison" \/ "complex" \in q.kind THEN ManyChunks
  ELSE IF "long" \in q.kind THEN SomeChunks ELSE FewChunks

Plan(q, intent) ==
  LET i == Intent(q, intent)
      k == TopK(q, i)
  IN  [top |-> k, pool |-> Min({MaxPool, Max({MinPool, 3 * k})}),
       channels |-> CASE i = "table" -> <<"table_row", "table", "vector", "bm25">>
                      [] i = "image" -> <<"image", "vector", "bm25">>
                      [] OTHER       -> <<"vector", "bm25">>,
       sides |-> IF i = "comparison" THEN q.sides ELSE <<>>]

(* A question that points back is read after the last one of the user.     *)
Standalone(q, history) ==
  IF "refers" \notin q.kind \/ history = <<>> THEN q
  ELSE [q EXCEPT !.words = @ \union Last(history).words,
                 !.kind = @ \union Last(history).kind]

(* The keyword channel ranks the documents that have a word of the query.  *)
Matching(words, docs) == SelectSeq(docs, LAMBDA d : d.words \intersect words # {})
Bm25(words, docs, k)  == AtMost(Matching(words, docs), k)

(* Tables named by number, of the first three numbers of the question; a   *)
(* table is a chunk without fields: its cells are text.                    *)
ExactTables(numbers, tables) ==
  LET there == SelectSeq(AtMost(numbers, 3), LAMBDA n : n \in DOMAIN tables)
  IN  [i \in DOMAIN there |-> tables[there[i]]]

-----------------------------------------------------------------------------
(* The first reranking: 1/(60 + rank) in every group, the words in common, *)
(* the whole question in the text, a table that was asked for by number.   *)
Scale == 61 * 62 * 63 * 100

Key(c) == IF c.type = "table" /\ c.table # None THEN <<"table", c.table>>
          ELSE <<c.section, c.page, c.text>>

Candidates(groups) ==
  FoldLeft(LAMBDA kept, c : IF \E d \in Range(kept) : Key(d) = Key(c) THEN kept
                            ELSE Append(kept, c), <<>>, FlattenSeq(groups))

Score(q, groups, c) ==
  LET places == {p \in (DOMAIN groups) \X (1..MaxPool) :
                  p[2] <= Len(groups[p[1]]) /\ Key(groups[p[1]][p[2]]) = Key(c)}
      common == Cardinality(q.words \intersect c.words)
  IN  MapThenSumSet(LAMBDA p : Scale \div (60 + p[2]), places)
        + (4 * Scale * common) \div (5 * Max({1, Cardinality(q.words)}))
        + (IF c.whole THEN (12 * Scale) \div 100 ELSE 0)
        + (IF c.method = "exact" THEN (35 * Scale) \div 100 ELSE 0)

(* Sorted by score, first come first among equals. *)
Rerank(q, groups, k) ==
  LET all == Candidates(groups)
      s == [i \in DOMAIN all |-> Score(q, groups, all[i])]
      Before(i, j) == s[i] > s[j] \/ (s[i] = s[j] /\ i < j)
  IN  AtMost([n \in DOMAIN all |-> all[CHOOSE i \in DOMAIN all :
                Cardinality({j \in DOMAIN all : Before(j, i)}) = n - 1]], k)

(* The second: a model lists numbers of candidates; what is no such number *)
(* is dropped, and without one left, or on any error, the order stays.     *)
Distinct(s) == FoldLeft(LAMBDA kept, x : IF x \in Range(kept) THEN kept
                                         ELSE Append(kept, x), <<>>, s)
Semantic(candidates, order, k) ==
  LET valid == IF order = None THEN <<>>
               ELSE Distinct(SelectSeq(order, LAMBDA i : i \in DOMAIN candidates))
  IN  IF Len(candidates) <= k THEN candidates
      ELSE IF valid = <<>> THEN AtMost(candidates, k)
      ELSE AtMost([i \in DOMAIN valid |-> candidates[valid[i]]], k)

(* The same element, or the same text on the same page. *)
SameEvidence(a, b) == (a.element # None /\ a.element = b.element)
                        \/ (a.page = b.page /\ a.text = b.text)

Flag(b) == IF b THEN 1 ELSE 0
Precision(c, q) == 4 * Flag("numeric" \in q.kind /\ c.type = "table_row")
                     + 2 * Flag(c.element # None /\ c.boxed) + Flag(c.fields # <<>>)

Deduplicate(chunks, q, k) ==
  LET Add(kept, c) ==
        LET twins == {i \in DOMAIN kept : SameEvidence(kept[i], c)}
        IN  IF twins = {} THEN Append(kept, c)
            ELSE IF Precision(c, q) > Precision(kept[Min(twins)], q)
            THEN [kept EXCEPT ![Min(twins)] = c] ELSE kept
  IN  AtMost(FoldLeft(Add, <<>>, chunks), k)

TooLittle(q, pass, plan) ==
  \/ Len(pass.chunks) < Min({plan.top, 4})
  \/ plan.sides # <<>> /\ Cardinality({c.section : c \in Range(pass.chunks)}) < 2
  \/ \A c \in Range(pass.chunks) : Score(q, pass.groups, c) < (8 * Scale) \div 100

(* The whole of retrieve.  found has the chunks of the table and image     *)
(* channels; recall what the vector channel and the sections hold for the  *)
(* question, for the broader query of the same words, and for either side  *)
(* of a comparison; orders the model's answers of both passes.             *)
Chosen(q, groups, order, plan) ==
  LET pool == Rerank(q, groups, plan.pool)
  IN  Semantic(pool, order, Min({Len(pool), 2 * plan.top}))

Pass(q, groups, order, plan) ==
  LET chosen == Chosen(q, groups, order, plan)
  IN  [groups |-> groups, chosen |-> chosen,
       chunks |-> Deduplicate(chosen, q, plan.top)]

Recall(words, from, k) == <<AtMost(from.vector, k), Bm25(words, from.docs, k)>>

Groups(q, plan, found, recall) ==
  LET main == Recall(q.words, recall.asked, plan.pool)
      routed == [channel \in Range(plan.channels) |->
                  CASE channel = "vector" -> main[1] [] channel = "bm25" -> main[2]
                    [] channel = "table" -> found.table
                    [] OTHER -> Bm25(q.words, found[channel], plan.pool)]
  IN  [i \in DOMAIN plan.channels |-> routed[plan.channels[i]]]
        \o FlattenSeq([n \in DOMAIN plan.sides |->
             Recall(plan.sides[n], recall.sides[n], Max({6, plan.top \div 2}))])

Retrieve(q, intent, found, recall, orders) ==
  LET plan == Plan(q, intent)
      first == Pass(q, Groups(q, plan, found, recall), orders[1], plan)
  IN  IF TooLittle(q, first, plan)
      THEN Pass(q, first.groups \o Recall(q.words, recall.broad, plan.pool),
                orders[2], plan)
      ELSE first

-----------------------------------------------------------------------------
(* The review of what was found, before an answer is made of it.           *)
Clean(chunks) == SelectSeq(chunks, LAMBDA c : ~c.noise)
Relevant(q, chunks) ==
  SelectSeq(Clean(chunks), LAMBDA c : q.words = {} \/ q.words \intersect c.words # {}
                                        \/ c.method = "exact")

Issues(q, chunks, intent) ==
  LET relevant == Range(Relevant(q, chunks))
  IN  {i \in {"few", "sides", "tables"} :
        CASE i = "few" -> Len(Relevant(q, chunks)) < Min({3, Len(Clean(chunks))})
          [] i = "sides" -> intent = "comparison"
                              /\ Cardinality({c.section : c \in relevant}) < 2
          [] i = "tables" -> intent = "table"
                /\ \A c \in relevant : c.type \notin {"table", "table_row"}}

(* The largest, the smallest or the mean number of the fields, with the    *)
(* label of its first holder; None when there is none.                     *)
Calculation(q, chunks) ==
  LET values == FlattenSeq([i \in DOMAIN chunks |-> chunks[i].fields])
      Best(better(_, _)) == CHOOSE i \in DOMAIN values : \A j \in DOMAIN values :
                              better(values[i].value, values[j].value)
                                \/ (values[i].value = values[j].value /\ i <= j)
  IN  IF values = <<>> \/ q.asks = None THEN None
      ELSE CASE q.asks = "max" -> values[Best(>)]
             [] q.asks = "min" -> values[Best(<)]
             [] q.asks = "mean" ->
                  [sum |-> FoldLeft(LAMBDA s, v : s + v.value, 0, values),
                   of |-> Len(values)]

Review(q, chunks, intent) ==
  LET relevant == Relevant(q, chunks)
  IN  [chunks |-> IF relevant = <<>> THEN Clean(chunks) ELSE relevant,
       sufficient |-> relevant # <<>> /\ Issues(q, chunks, intent) = {},
       calculation |-> Calculation(q, relevant)]

(* compute_over_tables: the exact tables of the question, reviewed.        *)
Computed(q, numbers, tables) ==
  LET chunks == ExactTables(numbers, tables)
  IN  IF chunks = <<>> THEN None ELSE Review(q, chunks, "table").calculation

-----------------------------------------------------------------------------
(* An answer's markers [S1], [S2].. become citations of the chunks shown   *)
(* under those numbers; a chunk shown twice is cited by its first number.  *)
Number(chunks, i) == CHOOSE j \in DOMAIN chunks : chunks[j] = chunks[i]
                       /\ \A k \in 1..(j - 1) : chunks[k] # chunks[i]

Cited(markers, chunks) ==
  LET valid == Distinct(SelectSeq(markers, LAMBDA n : n \in DOMAIN chunks))
  IN  [i \in DOMAIN valid |->
        [source |-> Number(chunks, valid[i]), said |-> chunks[valid[i]].text[1],
         from |-> chunks[valid[i]]]]

CitesSame(a, b) ==
  /\ a.from.page = b.from.page
  /\ \/ a.from.element # None /\ a.from.element = b.from.element
     \/ a.said # None /\ a.said = b.said

CitePrecision(c) == 4 * Flag(c.from.element # None /\ c.from.boxed)
                      + 2 * Flag(c.from.type = "table_row") + Flag(c.said # None)

Citations(markers, chunks) ==
  LET Add(kept, c) ==
        LET twins == {i \in DOMAIN kept : CitesSame(kept[i], c)}
        IN  IF twins = {} THEN Append(kept, c)
            ELSE IF CitePrecision(c) > CitePrecision(kept[Min(twins)])
            THEN [kept EXCEPT ![Min(twins)] = c] ELSE kept
  IN  FoldLeft(Add, <<>>, Cited(markers, chunks))

(* Support of an answer, in hundredths: the share of citations whose words *)
(* are in the chunk they name, less when there is only one.                *)
Confidence(citations, chunks) ==
  LET Grounded(c) == c.said # None /\ c.source \in DOMAIN chunks
                       /\ c.said = chunks[c.source].text[1]
      n == Len(citations)
  IN  IF n = 0 \/ chunks = <<>> THEN 0
      ELSE (Len(SelectSeq(citations, Grounded)) * (IF n = 1 THEN 85 ELSE 100)) \div n

-----------------------------------------------------------------------------
AnEquivalence(R(_, _), S) == \A a, b, c \in S : R(a, b) /\ R(b, c) => R(a, c)

(* retrieve, whatever the model answers in either pass and however often   *)
(* it searches: no more than planned, each from a channel that was asked,  *)
(* and, where being the same is transitive, no evidence twice; and of what *)
(* was chosen none is lost but for a chunk of the same evidence as precise *)
(* as it, while there is room.                                             *)
IsSound(pass, q, plan) ==
  LET result == pass.chunks
      all == Range(FlattenSeq(pass.groups))
  IN  /\ Len(result) <= plan.top /\ Range(result) \subseteq all
      /\ \A i, j \in DOMAIN result : i # j => Key(result[i]) # Key(result[j])
      /\ AnEquivalence(SameEvidence, all) =>
           /\ \A i, j \in DOMAIN result : i # j => ~SameEvidence(result[i], result[j])
           /\ Len(result) < plan.top => \A c \in Range(pass.chosen) :
                \E d \in Range(result) :
                  SameEvidence(c, d) /\ Precision(d, q) >= Precision(c, q)

(* Of a question, whatever the channels hold.                              *)
EvidenceIsSound(q, intent, found, recall, orders) ==
  IsSound(Retrieve(q, intent, found, recall, orders), q, Plan(q, intent))

(* A review uses no noise and, when anything is clean, something; what it  *)
(* computes is computed from what it uses.                                 *)
ReviewIsSound(q, chunks, intent) ==
  LET review == Review(q, chunks, intent)
      values == UNION {Range(c.fields) : c \in Range(review.chunks)}
  IN  /\ \A c \in Range(review.chunks) : ~c.noise
      /\ review.chunks = <<>> <=> Clean(chunks) = <<>>
      /\ q.asks = "max" /\ review.calculation # None =>
           /\ review.calculation \in values
           /\ \A v \in values : v.value <= review.calculation.value

(* build_deterministic_citations: every citation is of the chunk it names, *)
(* so the answer is as supported as it can be; and a marker that names a   *)
(* chunk has its citation or one of the same evidence.                     *)
CitationsResolve(markers, chunks) ==
  LET citations == Citations(markers, chunks)
      full == {Cited(<<n>>, chunks)[1] : n \in Range(markers) \intersect DOMAIN chunks}
  IN  /\ \A c \in Range(citations) : chunks[c.source] = c.from
      /\ Confidence(citations, chunks)
           = IF citations = <<>> THEN 0 ELSE IF Len(citations) = 1 THEN 85 ELSE 100
      /\ AnEquivalence(CitesSame, full) => \A c \in full :
           \E d \in Range(citations) : CitesSame(c, d) /\ CitePrecision(d) >= CitePrecision(c)

-----------------------------------------------------------------------------
(* paper_internal.py:428-430, a question that names a table and asks for   *)
(* the largest number gets a computed answer.  Not so: the chunk of an     *)
(* exact table has no fields to compute with.                              *)
TablesCompute(q, numbers, tables) ==
  q.asks # None /\ ExactTables(numbers, tables) # <<>>
    => Computed(q, numbers, tables) # None
=============================================================================
