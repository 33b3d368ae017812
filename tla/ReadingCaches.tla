--------------------------- MODULE ReadingCaches ---------------------------
(***************************************************************************)
(* The cached summary of a paper and its cached interpretations.  A        *)
(* request reads the sections, spends minutes in a model and then looks    *)
(* for the cache row; meanwhile the paper may be parsed again, and another *)
(* request may have stored the row.                                        *)
(***************************************************************************)
EXTENDS Naturals, Sequences, FiniteSets, SequencesExt

CONSTANTS
  None,
  Interpretations,  \* the types of interpretation
  Readers,          \* requests
  MaxReparses

CacheAssumption == MaxReparses \in Nat /\ "summary" \notin Interpretations

Parts == {"overview", "methodology", "experiments", "contributions"}
Order == <<"overview", "methodology", "experiments", "contributions">>
Kinds == Interpretations \union {"summary"}

VARIABLES
  parsed,    \* how often the paper was parsed; 0: it has no content
  row,       \* of each kind: None, or what is stored
  reading,   \* of each request: None, or what it is about
  replies    \* of each request: the status it ended with, or None

cacheVars == <<parsed, row, reading, replies>>

CacheInit ==
  /\ parsed \in 0..1 /\ row = [k \in Kinds |-> None]
  /\ reading = [r \in Readers |-> None] /\ replies = [r \in Readers |-> None]

(* A part of a row: from which parse it was made, or the placeholder of a  *)
(* part that was not.                                                      *)
From(n) == <<n>>
Failed  == <<>>
Part    == {Failed} \union {From(n) : n \in 0..MaxReparses + 1}
Nothing == [p \in Parts |-> None]

Reparse ==
  /\ parsed \in 1..MaxReparses /\ parsed' = parsed + 1
  /\ UNCHANGED <<row, reading, replies>>

(* The sections, or the paragraphs of the full text, are read at once.     *)
Ask(r, k) ==
  /\ reading[r] = None /\ replies[r] = None
  /\ IF k = "summary" /\ parsed = 0
     THEN replies' = [replies EXCEPT ![r] = 400] /\ UNCHANGED reading
     ELSE /\ reading' = [reading EXCEPT ![r] =
               [kind |-> k, from |-> parsed, made |-> Nothing, phase |-> "make",
                found |-> FALSE]]
          /\ UNCHANGED replies
  /\ UNCHANGED <<parsed, row>>

(* The next part of a summary, by the model; a failure is a placeholder.   *)
NextPart(made) == SelectSeq(Order, LAMBDA p : made[p] = None)[1]

Extract(r) ==
  /\ reading[r] # None /\ reading[r].kind = "summary"
  /\ \E p \in Parts : reading[r].made[p] = None
  /\ LET part == NextPart(reading[r].made)
     IN  \E result \in {From(reading[r].from), Failed} :
           reading' = [reading EXCEPT ![r].made[part] = result]
  /\ UNCHANGED <<parsed, row, replies>>

(* The agent reads on while it works.  Its answer is one JSON object or an *)
(* error, and an error or an empty object is not stored.                   *)
Interpret(r) ==
  /\ reading[r] # None /\ reading[r].kind # "summary" /\ reading[r].made = Nothing
  /\ \/ /\ replies' = [replies EXCEPT ![r] = 500]
        /\ reading' = [reading EXCEPT ![r] = None]
     \/ /\ \E seen \in [Parts -> reading[r].from..parsed] :
             reading' = [reading EXCEPT ![r].made = [p \in Parts |-> From(seen[p])]]
        /\ UNCHANGED replies
  /\ UNCHANGED <<parsed, row>>

Made(r) == reading[r] # None /\ \A p \in Parts : reading[r].made[p] # None

LookUp(r) ==
  /\ Made(r) /\ reading[r].phase = "make"
  /\ reading' = [reading EXCEPT ![r].phase = "store",
                                ![r].found = row[reading[r].kind] # None]
  /\ UNCHANGED <<parsed, row, replies>>

(* One row of a kind: who found none and comes second fails. *)
Store(r) ==
  /\ Made(r) /\ reading[r].phase = "store"
  /\ LET k == reading[r].kind
         fits == reading[r].found \/ row[k] = None
     IN  /\ row' = IF fits THEN [row EXCEPT ![k] = reading[r].made] ELSE row
         /\ replies' = [replies EXCEPT ![r] = IF fits THEN 200 ELSE 500]
  /\ reading' = [reading EXCEPT ![r] = None]
  /\ UNCHANGED parsed

CacheNext ==
  \/ Reparse
  \/ \E r \in Readers : \/ \E k \in Kinds : Ask(r, k)
                        \/ Extract(r) \/ Interpret(r) \/ LookUp(r) \/ Store(r)

-----------------------------------------------------------------------------
(* Every variable has its type. *)
CacheTypeOK ==
  /\ parsed \in 0..MaxReparses + 1
  /\ row \in [Kinds -> [Parts -> Part] \union {None}]
  /\ \A r \in Readers : replies[r] \in {None, 200, 400, 500}

(* A stored summary is of one parse of a paper with content, whoever else  *)
(* stored one in between; an interpretation, which the agent may have read *)
(* together from two, has no part that failed.                             *)
RowIsOfOneParse ==
  \A k \in Kinds : row[k] # None =>
    IF k = "summary"
    THEN \E n \in 1..parsed : \A p \in Parts : row[k][p] \in {From(n), Failed}
    ELSE \A p \in Parts : row[k][p] # Failed

(* A row changes only when somebody is told so. *)
ChangesAreTold ==
  [][\A k \in Kinds : row'[k] # row[k] =>
       \E r \in Readers : reading[r] # None /\ reading[r].kind = k
                            /\ replies'[r] = 200]_cacheVars

-----------------------------------------------------------------------------
(* chat.py:945, a summary is generated or generated again: a part that was *)
(* made is not lost to a later failure.                                    *)
MadePartsStay ==
  [][\A p \in Parts : row["summary"] # None /\ row["summary"][p] # Failed =>
       row'["summary"][p] # Failed]_cacheVars
=============================================================================
