----------------------------- MODULE PaperFiles -----------------------------
(***************************************************************************)
(* The PDF of a paper: the checks of an upload, what the viewer is served  *)
(* while the file may be written again, and the page a passage is on.      *)
(* Bytes are counted, never looked at; a file is known by its version.     *)
(***************************************************************************)
EXTENDS Naturals, Sequences, FiniteSets, FiniteSetsExt

CONSTANTS
  None,
  Sizes,     \* size of each version of the file, in order
  Fetches,   \* ranges the viewer asks for: [first, last], either may be None
  MaxServed  \* answers, as a bound

FilesAssumption ==
  /\ Sizes \in Seq(Nat \ {0}) /\ Sizes # <<>> /\ MaxServed \in Nat
  /\ \A f \in Fetches : f.first \in Nat \union {None} /\ f.last \in Nat \union {None}

-----------------------------------------------------------------------------
(* save_validated_pdf: chunks, each with its size and whether it begins    *)
(* like a PDF.  The file stays only if all is well; the first chunk that   *)
(* is not ends the upload.                                                 *)
Saved(chunks, maxSize) ==
  LET Total(n) == MapThenSumSet(LAMBDA i : chunks[i].size, 1..n)
      wrong == {n \in 1..Len(chunks) :
                  \/ n = 1 /\ ~chunks[1].pdf
                  \/ Total(n) > maxSize}
  IN  IF chunks = <<>> \/ wrong # {} THEN None ELSE Total(Len(chunks))

(* Faulty variant, for the mutation runs only: the last byte is not cut off *)
(* at the end of the file.                                                 *)
ByteRangeUncut(fetch, size) ==
  LET last == IF fetch.last = None THEN size - 1 ELSE fetch.last
  IN  IF fetch.first = None \/ fetch.first >= size \/ last < fetch.first THEN None
      ELSE [first |-> fetch.first, last |-> last]

(* parse_byte_range of one range; a suffix has no first byte. *)
ByteRange(fetch, size) ==
  IF fetch.first = None
  THEN IF fetch.last = None \/ fetch.last = 0 THEN None
       ELSE [first |-> IF fetch.last > size THEN 0 ELSE size - fetch.last,
             last |-> size - 1]
  ELSE LET last == IF fetch.last = None THEN size - 1 ELSE fetch.last
       IN  IF fetch.first >= size \/ last < fetch.first THEN None
           ELSE [first |-> fetch.first, last |-> Min({last, size - 1})]

(* find_content_page: pages are sets of the anchors found on them, and the *)
(* search goes round from the page it is expected on, at most one past the *)
(* last: further out the code has no answer.  A passage without a letter   *)
(* or digit (None) is where it is expected, unlooked; a short one has no   *)
(* anchors.                                                                *)
Order(pages, start) ==
  [i \in 1..Len(pages) |-> ((Max({0, start - 1}) + i - 1) % Len(pages)) + 1]

FindPage(pages, anchors, start) ==
  LET score(p) == Cardinality(pages[p] \intersect anchors)
      best     == Max({score(p) : p \in 1..Len(pages)})
      order    == Order(pages, start)
  IN  IF pages = <<>> \/ anchors = None THEN Max({1, start})
      ELSE IF best = 0 THEN Max({1, Min({start, Len(pages)})})
      ELSE order[Min({i \in 1..Len(pages) : score(order[i]) = best})]

-----------------------------------------------------------------------------
(* GET /papers/{id}/pdf.  The size, the headers and the bytes are read one *)
(* after the other; a writer may truncate the file and fill it between.    *)
VARIABLES
  version,  \* of the file
  size,     \* bytes of it that are on the disk
  serving,  \* the request under way, or None
  answers   \* what the viewer got, in order

filesVars == <<version, size, serving, answers>>

FilesInit == version = 1 /\ size = Sizes[1] /\ serving = None /\ answers = <<>>

Rewrite ==
  /\ version < Len(Sizes) /\ version' = version + 1 /\ size' = 0
  /\ UNCHANGED <<serving, answers>>

Fill ==
  /\ size < Sizes[version] /\ size' = size + 1
  /\ UNCHANGED <<version, serving, answers>>

(* fetch is None for the whole file, known the validator the viewer has.   *)
Fetch(fetch, known) ==
  /\ serving = None /\ Len(answers) < MaxServed
  /\ serving' = [fetch |-> fetch, known |-> known, size |-> size, etag |-> None]
  /\ UNCHANGED <<version, size, answers>>

Etag == <<version, size>>

BuildHeaders ==
  /\ serving # None /\ serving.etag = None
  /\ serving' = [serving EXCEPT !.etag = Etag]
  /\ UNCHANGED <<version, size, answers>>

Answer(status, announced, sent) ==
  /\ answers' = Append(answers,
       [status |-> status, etag |-> serving.etag, announced |-> announced,
        sent |-> sent, of |-> version])
  /\ serving' = None
  /\ UNCHANGED <<version, size>>

Ready == serving # None /\ serving.etag # None

NotModified ==
  /\ Ready /\ serving.fetch = None /\ serving.known = serving.etag
  /\ Answer(304, 0, 0)

(* read_file_range: all of the part, or an error.                          *)
Read(part) == IF size <= part.last THEN None ELSE part.last - part.first + 1

(* A part is read before it is announced; a file that has become too short *)
(* for it is an error the viewer may retry.                                *)
ServePart ==
  /\ Ready /\ serving.fetch # None
  /\ LET part == ByteRange(serving.fetch, serving.size)
     IN  IF serving.size = 0 \/ part = None THEN Answer(416, 0, 0)
         ELSE IF Read(part) = None THEN Answer(503, 0, 0)
         ELSE Answer(206, part.last - part.first + 1, Read(part))

(* The whole file is sent as it is then, with the length read at first.    *)
ServeWhole ==
  /\ Ready /\ serving.fetch = None /\ serving.known # serving.etag
  /\ Answer(200, serving.size, size)

FilesNext ==
  \/ Rewrite \/ Fill
  \/ \E f \in Fetches \union {None} :
       \E k \in {None} \union {answers[i].etag : i \in 1..Len(answers)} : Fetch(f, k)
  \/ BuildHeaders \/ NotModified \/ ServePart \/ ServeWhole

-----------------------------------------------------------------------------
(* Every variable has its type. *)
FilesTypeOK ==
  /\ version \in 1..Len(Sizes) /\ size \in 0..Sizes[version]
  /\ Len(answers) <= MaxServed

(* papers.py:293: whatever happens to the file while a part of it is       *)
(* served, the bytes that are sent are as many as are announced; and a     *)
(* viewer is told that nothing changed only if nothing had when its        *)
(* validator was compared.                                                 *)
PartIsAsAnnounced ==
  \A i \in 1..Len(answers) :
    /\ answers[i].status = 206 => answers[i].sent = answers[i].announced
    /\ answers[i].status = 304 =>
         \E j \in 1..i - 1 : answers[j].etag = answers[i].etag

(* A stored upload is a PDF that is not empty nor too large, and every     *)
(* such upload is stored.                                                  *)
UploadIsRight(chunks, maxSize) ==
  LET total == MapThenSumSet(LAMBDA i : chunks[i].size, 1..Len(chunks)) IN
  IF chunks # <<>> /\ chunks[1].pdf /\ total <= maxSize
  THEN Saved(chunks, maxSize) = total ELSE Saved(chunks, maxSize) = None

(* A range is the bytes asked for that the file has: a suffix of the whole *)
(* file, at most, and never an empty one.                                  *)
RangeIsRight(fetch, length) ==
  LET asked == IF fetch.first = None
               THEN IF fetch.last = None THEN {}
                    ELSE {b \in 0..length - 1 : b + fetch.last >= length}
               ELSE {b \in 0..length - 1 :
                       b >= fetch.first /\ (fetch.last = None \/ b <= fetch.last)}
      part  == ByteRange(fetch, length)
  IN  IF asked = {} THEN part = None
      ELSE part # None /\ part.first..part.last = asked

(* No page has more of the passage than the one found, and none before it, *)
(* from the expected one on, as much; a passage to look for is found on a  *)
(* page there is, whatever page it was expected on.                        *)
PageIsBest(pages, anchors, start) ==
  pages # <<>> /\ start <= Len(pages) + 1 =>
    LET found == FindPage(pages, anchors, start)
        Has(p) == Cardinality(pages[p] \intersect anchors)
    IN  IF anchors = None THEN found = Max({1, start}) ELSE
        /\ found \in 1..Len(pages)
        /\ \A p \in 1..Len(pages) : Has(p) <= Has(found)
        /\ Has(found) > 0 /\ start \in 1..Len(pages) =>
             IF found >= start THEN \A p \in start..found - 1 : Has(p) < Has(found)
             ELSE \A p \in 1..Len(pages) :
                    p >= start \/ p < found => Has(p) < Has(found)

-----------------------------------------------------------------------------
(* papers.py:93, leaving out "immutable" keeps a replacement of the file   *)
(* safe: the parts a viewer has put together are of one version.           *)
PartsAreOfOneFile ==
  \A i, j \in 1..Len(answers) :
    answers[i].status = 206 /\ answers[j].status = 206 =>
      answers[i].of = answers[j].of
=============================================================================
