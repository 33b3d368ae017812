--------------------------- MODULE TableStructure ---------------------------
(***************************************************************************)
(* services/table_structure.py: which rows of a table are its header,      *)
(* which become records, and how the parts of a table that goes on over    *)
(* several pages are put together.                                         *)
(*                                                                         *)
(* A row is [kind, text]: mostly numbers, words, a footnote, or empty; two *)
(* texts are pairs, alike for the similarity measure when they begin with  *)
(* the same.  A part is [page, number, width, caption, goesOn, rows];      *)
(* caption is None or likewise what captions are compared by, goesOn says  *)
(* that it calls itself a continuation.                                    *)
(***************************************************************************)
EXTENDS Naturals, FiniteSets, Sequences, SequencesExt

CONSTANTS
  None,
  MaxHeader    \* the 3 of detect_header_rows

TableAssumption == MaxHeader \in Nat \ {0}

(* A second header row is one of words above a row of numbers; the row     *)
(* after that is one of numbers, so that there is never a third.           *)
HeaderRows(rows) ==
  LET bound == IF MaxHeader < Len(rows) - 1 THEN MaxHeader ELSE Len(rows) - 1
      Heads(i) == rows[i].kind # "numbers" /\ rows[i + 1].kind = "numbers"
  IN  {i \in DOMAIN rows : i = 1 \/ (i <= bound /\ \A j \in 2..i : Heads(j))}

Records(table) ==
  {[row |-> i, page |-> table.rowPages[i]] :
     i \in {i \in DOMAIN table.rows \ HeaderRows(table.rows) :
              table.rows[i].kind \notin {"empty", "note"}}}

Cells(table) ==
  {[row |-> i, column |-> c, page |-> table.rowPages[i],
    header |-> i \in HeaderRows(table.rows)] :
     i \in DOMAIN table.rows, c \in 1..table.width}

(* Whether a part is the continuation of the table above it. *)
GoesOn(table, part) ==
  /\ part.page = Last(table.pages) + 1
  /\ table.rows # <<>> /\ part.rows # <<>> /\ table.width = part.width
  /\ table.rows[1].text[1] = part.rows[1].text[1]
  /\ part.caption \in {table.caption, None} \/ part.goesOn

Alone(part) ==
  [pages |-> <<part.page>>, width |-> part.width, caption |-> part.caption,
   rows |-> part.rows, rowPages |-> [i \in DOMAIN part.rows |-> part.page]]

(* A header that is repeated to the letter goes, one that is only alike    *)
(* becomes a row of the table.                                             *)
Join(table, part) ==
  LET repeated == table.rows[1].text = part.rows[1].text
      rows == IF repeated THEN Tail(part.rows) ELSE part.rows
  IN  [table EXCEPT !.rows = @ \o rows,
                    !.rowPages = @ \o [i \in DOMAIN rows |-> part.page],
                    !.pages = Append(@, part.page)]

Add(tables, part) ==
  IF tables # <<>> /\ GoesOn(Last(tables), part)
  THEN Append(Front(tables), Join(Last(tables), part))
  ELSE Append(tables, Alone(part))

Before(p, q) == p.page < q.page \/ (p.page = q.page /\ p.number < q.number)

Merge(parts) == FoldLeft(Add, <<>>, SetToSortSeq(parts, Before))

-----------------------------------------------------------------------------
(* Each row of each part is in one table, in its place and under its page, *)
(* except for a header that the table has already; a table goes from page  *)
(* to page; and a row is a header, a record, a note or empty.              *)
Stands(table, part) ==
  LET again == /\ part.page \in Range(Tail(table.pages))
               /\ part.rows[1].text = table.rows[1].text
      rows  == IF again THEN Tail(part.rows) ELSE part.rows
  IN  SelectSeq(Zip(table.rows, table.rowPages), LAMBDA r : r[2] = part.page)
        = [i \in DOMAIN rows |-> <<rows[i], part.page>>]

TablesAreWhole(parts) ==
  LET tables == Merge(parts) IN
  /\ \A part \in parts : \E t \in Range(tables) : Stands(t, part)
  /\ FoldLeft(LAMBDA n, t : n + Len(t.pages), 0, tables) = Cardinality(parts)
  /\ \A t \in Range(tables) :
       /\ \A i \in 2..Len(t.pages) : t.pages[i] = t.pages[i - 1] + 1
       /\ Cardinality(HeaderRows(t.rows)) <= 2
       /\ {c.row : c \in {c \in Cells(t) : ~c.header}} =
            {r.row : r \in Records(t)} \union
            {i \in DOMAIN t.rows \ HeaderRows(t.rows) : t.rows[i].kind \in {"empty", "note"}}

(* Expected to fail: what is a record on a page of its own is one in the   *)
(* whole table.  A row of words that ends its page becomes a header when   *)
(* numbers follow on the next.                                             *)
RecordsStay(parts) ==
  LET Said(tables) == UNION {{<<t.rows[r.row], r.page>> : r \in Records(t)} :
                               t \in Range(tables)}
  IN  Said(SetToSeq({Alone(p) : p \in parts})) \subseteq Said(Merge(parts))
=============================================================================
