--------------------------- MODULE DiscoverySearch ---------------------------
(***************************************************************************)
(* One literature search of a project: the planner of queries, the two     *)
(* providers with their retries and the fallback, the merging of           *)
(* duplicates, the rounds and their quality gate, the answer with its      *)
(* warnings, and the progress record kept in Redis for the page to poll.   *)
(*                                                                         *)
(* A query is the tuple of the parts of the intent it is composed of.  A   *)
(* result keeps what merging and ranking look at: its key (source and id), *)
(* doi, title, year, and the other fields it has.                          *)
(***************************************************************************)
EXTENDS Naturals, SequencesExt, FiniteSetsExt

CONSTANTS
  None,
  Intents,      \* sets of the parts a request may fill
  Answers,      \* sequences of rows a provider may answer with
  OnTopic,      \* titles in which a term of the intent occurs
  Target,       \* request.max_results
  MaxRounds,    \* SEARCH_MAX_ROUNDS
  MaxQueries,   \* SEARCH_MAX_QUERIES_PER_ROUND
  MaxTries,     \* SEARCH_MAX_RETRIES, the further attempts of a call
  SearchFaults  \* what may fail: "transient", "refusal", "save"

DiscoveryAssumption ==
  /\ Target \in 1..10 /\ MaxRounds \in 1..3 /\ MaxQueries \in 1..3
  /\ MaxTries \in 0..3
  /\ \A i \in Intents : i \subseteq {"topic", "keywords", "question", "methods"}
  /\ \A a \in Answers : Len(a) <= Target

VARIABLES
  intent,   \* the parts of the request, None before it came
  round,    \* the round under way
  toSearch, \* queries of the round that are not searched yet
  searched, \* every query planned so far, in order
  provider, \* the provider of the call under way
  attempt,  \* attempts of that call that failed
  results,  \* normalized_results
  failures, \* queries both providers failed
  warnings,
  stage,    \* where the request is
  progress, \* the stage Redis holds
  response, \* the papers answered with
  calls     \* requests sent to the providers

discoveryVars == <<intent, round, toSearch, searched, provider, attempt, results,
                   failures, warnings, stage, progress, response, calls>>

Providers == <<"semantic_scholar", "crossref">>

---------------------------------------------------------------------------
(* Rows and their merging.                                                 *)

(* A row of Semantic Scholar: without id or title it is dropped. *)
ParsePaper(row) ==
  IF row.id = None \/ row.title = None THEN <<>>
  ELSE <<[key |-> <<"semantic_scholar", row.id>>, doi |-> row.doi, title |-> row.title,
          year |-> row.year, fields |-> row.fields]>>

(* A row of Crossref is known by its DOI, or else by its address. *)
ParseItem(row) ==
  LET id == IF row.doi # None THEN row.doi ELSE row.id IN
  IF id = None \/ row.title = None THEN <<>>
  ELSE <<[key |-> <<"crossref", id>>, doi |-> row.doi, title |-> row.title,
          year |-> row.year, fields |-> row.fields]>>

Normalize(name, rows) ==
  FlattenSeq([i \in DOMAIN rows |->
    IF name = "crossref" THEN ParseItem(rows[i]) ELSE ParsePaper(rows[i])])

IsDuplicate(a, b) ==
  \/ a.doi # None /\ a.doi = b.doi
  \/ a.key = b.key
  \/ a.year # None /\ a.year = b.year /\ a.title = b.title

Completeness(r) ==
  Cardinality(r.fields) + (IF r.doi # None THEN 1 ELSE 0)

Prefer(a, b) == IF a # None THEN a ELSE b

(* The more complete of two duplicates gives its identity; the other fills *)
(* what it lacks.                                                          *)
MergeResults(left, right) ==
  LET first  == IF Completeness(left) >= Completeness(right) THEN left ELSE right
      second == IF first = left THEN right ELSE left IN
  [first EXCEPT !.doi = Prefer(@, second.doi), !.year = Prefer(@, second.year),
                !.fields = @ \cup second.fields]

(* One pass: each result joins the first it duplicates. *)
Deduplicate(found) ==
  FoldLeft(LAMBDA merged, r :
             LET twins == {i \in DOMAIN merged : IsDuplicate(merged[i], r)} IN
             IF twins = {} THEN Append(merged, r)
             ELSE [merged EXCEPT ![Min(twins)] = MergeResults(@, r)],
           <<>>, found)

(* Relevance first, then completeness, then the order of discovery. *)
SelectResults(found) ==
  LET Relevance(i) == IF found[i].title \in OnTopic THEN 1 ELSE 0
      Before(i, j) ==
        \/ Relevance(i) > Relevance(j)
        \/ /\ Relevance(i) = Relevance(j)
           /\ \/ Completeness(found[i]) > Completeness(found[j])
              \/ Completeness(found[i]) = Completeness(found[j]) /\ i < j
      ranked == SetToSortSeq(DOMAIN found, Before) IN
  [n \in 1..Min({Target, Len(found)}) |-> found[ranked[n]]]

(* evaluate_result_quality: the reason to go on searching, or "enough". *)
Quality(found) ==
  CASE found = <<>> -> "nothing"
    [] \A i \in DOMAIN found : found[i].title \notin OnTopic -> "off topic"
    [] Len(found) < Target -> "few"
    [] OTHER -> "enough"

(* The planner: three ways to combine the parts, later rounds with a       *)
(* modifier, none that was planned before, at most MaxQueries.  A request  *)
(* with a blank topic uses the project's research topic.                   *)
Plan(parts, number, before) ==
  LET Query(names) == SelectSeq(names, LAMBDA p : p \in parts \cup {"review", "study"})
      modifier == CASE number = 1 -> <<>> [] number = 2 -> <<"review">>
                    [] OTHER -> <<"study">>
      candidates ==
        << Query(<<"topic", "keywords">> \o modifier),
           Query(IF number = 1 THEN <<"question", "topic">>
                 ELSE <<"question">> \o modifier),
           Query(<<"topic", "methods">> \o modifier) >>
      new == FoldLeft(LAMBDA kept, q :
                        IF q = <<>> \/ q \in ToSet(kept) \cup ToSet(before)
                        THEN kept ELSE Append(kept, q),
                      <<>>, candidates) IN
  SubSeq(new, 1, Min({MaxQueries, Len(new)}))

---------------------------------------------------------------------------
(* The request.                                                            *)

DiscoveryInit ==
  /\ intent = None /\ round = 0 /\ toSearch = <<>> /\ searched = <<>>
  /\ provider = 1 /\ attempt = 0 /\ results = <<>> /\ failures = 0
  /\ warnings = {} /\ stage = "none" /\ progress = None /\ response = <<>>
  /\ calls = 0

(* A stage is shown: Redis takes it, or the write fails and is ignored. *)
Emit(next) ==
  /\ stage' = next
  /\ \/ progress' = next
     \/ "save" \in SearchFaults /\ UNCHANGED progress

(* POST /discovery/search. *)
SearchLiterature(parts) ==
  /\ stage = "none"
  /\ intent' = parts
  /\ Emit("preparing")
  /\ UNCHANGED <<round, toSearch, searched, provider, attempt, results, failures,
                 warnings, response, calls>>

(* A round begins.  A plan must hold a query: a request of which nothing   *)
(* is left but blanks is refused by the plan's own schema, and that error  *)
(* is nobody's.                                                            *)
StartRound ==
  /\ stage \in {"preparing", "retrying"}
  /\ round' = round + 1
  /\ LET queries == Plan(intent, round + 1, searched) IN
       IF queries = <<>>
       THEN stage' = "error" /\ UNCHANGED <<toSearch, searched, progress>>
       ELSE /\ toSearch' = queries
            /\ searched' = searched \o queries
            /\ Emit("searching")
  /\ UNCHANGED <<intent, provider, attempt, results, failures, warnings, response,
                 calls>>

(* A provider answers: its rows join the results, and the round is over    *)
(* early when there are enough of them.                                    *)
Found(rows) ==
  /\ stage = "searching" /\ toSearch # <<>>
  /\ LET found == Deduplicate(results \o Normalize(Providers[provider], rows)) IN
       /\ results' = found
       /\ toSearch' = IF Quality(found) = "enough" THEN <<>> ELSE Tail(toSearch)
  /\ warnings' = IF provider > 1 THEN warnings \cup {"fallback"} ELSE warnings
  /\ provider' = 1 /\ attempt' = 0 /\ calls' = calls + 1
  /\ UNCHANGED <<intent, round, searched, failures, stage, progress, response>>

(* The provider gave up: the next one is asked, or the query has failed. *)
GiveUp ==
  /\ attempt' = 0
  /\ IF provider < Len(Providers)
     THEN provider' = provider + 1 /\ UNCHANGED <<toSearch, failures>>
     ELSE provider' = 1 /\ toSearch' = Tail(toSearch) /\ failures' = failures + 1

(* Faulty variant, for the mutation runs only: the attempts go on.          *)
TransientForEver ==
  /\ "transient" \in SearchFaults
  /\ stage = "searching" /\ toSearch # <<>>
  /\ calls' = calls + 1 /\ attempt' = attempt + 1
  /\ UNCHANGED <<intent, round, toSearch, searched, provider, results, failures,
                 warnings, stage, progress, response>>

(* A timeout, a broken connection or a 5xx is tried again. *)
Transient ==
  /\ "transient" \in SearchFaults
  /\ stage = "searching" /\ toSearch # <<>>
  /\ calls' = calls + 1
  /\ IF attempt < MaxTries
     THEN attempt' = attempt + 1 /\ UNCHANGED <<provider, toSearch, failures>>
     ELSE GiveUp
  /\ UNCHANGED <<intent, round, searched, results, warnings, stage, progress, response>>

(* A 4xx, a rate limit or an answer that cannot be read is not. *)
Refusal ==
  /\ "refusal" \in SearchFaults
  /\ stage = "searching" /\ toSearch # <<>>
  /\ calls' = calls + 1
  /\ GiveUp
  /\ UNCHANGED <<intent, round, searched, results, warnings, stage, progress, response>>

(* The round's results are merged once more, *)
Screen ==
  /\ stage = "searching" /\ toSearch = <<>>
  /\ results' = Deduplicate(results)
  /\ Emit("screening")
  /\ UNCHANGED <<intent, round, toSearch, searched, provider, attempt, failures,
                 warnings, response, calls>>

(* and another round follows unless they are enough or it was the last; *)
SearchAgain ==
  /\ stage = "screening" /\ Quality(results) # "enough" /\ round < MaxRounds
  /\ Emit("retrying")
  /\ UNCHANGED <<intent, round, toSearch, searched, provider, attempt, results,
                 failures, warnings, response, calls>>

(* the best of them are kept for the answer, with what is to be said; *)
Finalize ==
  /\ stage = "screening"
  /\ Quality(results) = "enough" \/ round = MaxRounds
  /\ ~ (results = <<>> /\ failures > 0)
  /\ LET selected == SelectResults(results) IN
       /\ response' = selected
       /\ warnings' = warnings
            \cup (IF Quality(results) # "enough" THEN {Quality(results)} ELSE {})
            \cup (IF Len(selected) < Target THEN {"short"} ELSE {})
            \cup (IF selected = <<>> THEN {"empty"} ELSE {})
  /\ Emit("finalizing")
  /\ UNCHANGED <<intent, round, toSearch, searched, provider, attempt, results,
                 failures, calls>>

Complete ==
  /\ stage = "finalizing"
  /\ Emit("completed")
  /\ UNCHANGED <<intent, round, toSearch, searched, provider, attempt, results,
                 failures, warnings, response, calls>>

(* nothing at all and a failed query is a failed search. *)
Fail ==
  /\ stage = "screening" /\ Quality(results) # "enough" /\ round = MaxRounds
  /\ results = <<>> /\ failures > 0
  /\ Emit("failed")
  /\ UNCHANGED <<intent, round, toSearch, searched, provider, attempt, results,
                 failures, warnings, response, calls>>

DiscoveryNext ==
  \/ \E parts \in Intents : SearchLiterature(parts)
  \/ StartRound \/ (\E rows \in Answers : Found(rows)) \/ Transient \/ Refusal
  \/ Screen \/ SearchAgain \/ Finalize \/ Complete \/ Fail

---------------------------------------------------------------------------
(* Properties.                                                             *)

DiscoveryTypeOK ==
  /\ intent \in Intents \cup {None} /\ round \in 0..MaxRounds
  /\ provider \in DOMAIN Providers /\ attempt \in 0..MaxTries
  /\ stage \in {"none", "preparing", "searching", "screening", "retrying",
                "finalizing", "completed", "failed", "error"}
  /\ failures <= Len(searched) /\ Len(response) <= Target

(* A search is bounded: it sends no query twice, and no more requests than *)
(* its rounds, queries, providers and retries allow (docs/API.md, "at most *)
(* three rounds").                                                         *)
SearchIsBounded ==
  /\ IsInjective(searched)
  /\ calls <= MaxRounds * MaxQueries * Len(Providers) * (MaxTries + 1)

(* What a completed search says is so: an answer without papers is one in  *)
(* which every query was answered, a short one says so, and papers of the  *)
(* fallback are announced as such; a failed search has lost nothing.       *)
AnswerIsHonest ==
  /\ stage = "completed" =>
       /\ response = <<>> => failures = 0
       /\ Len(response) < Target <=> "short" \in warnings
       /\ (\E i \in DOMAIN results : results[i].key[1] = "crossref") => "fallback" \in warnings
  /\ stage = "failed" => results = <<>> /\ failures > 0

(* No paper twice: the two passes a search makes merge every duplicate by  *)
(* DOI, by identifier and by title and year (normalize.py:58), whatever    *)
(* the order they are found in, when every row has a year.                 *)
NoneTwice(found) ==
  \A i, j \in DOMAIN found : IsDuplicate(found[i], found[j]) => i = j

MergedOnce(found) ==
  (\A i \in DOMAIN found : found[i].year # None)
    => NoneTwice(Deduplicate(Deduplicate(found)))

(* Expected to fail (normalize.py:58): a row without a year can take the   *)
(* year of its twin in the second pass and become the twin of a third row. *)
EveryPaperOnce == NoneTwice(response)

(* Expected to fail (workflow.py:115 says each query combines the topic,   *)
(* the question, methods and contexts): without a question the second      *)
(* query of a later round is the modifier alone.                           *)
QueriesHaveASubject ==
  \A i \in DOMAIN searched :
    ToSet(searched[i]) \cap {"topic", "question"} # {}

(* Expected to fail: the record of a request that is over says so.  The    *)
(* error of an empty plan leaves it at "preparing" for a day.              *)
OverIsShown ==
  stage \in {"completed", "failed", "error"} => progress \in {"completed", "failed"}
=============================================================================
