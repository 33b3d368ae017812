--------------------------- MODULE ResearchContext ---------------------------
(***************************************************************************)
(* What the agent and the writer are told of a project: the literature     *)
(* memory, built from the notes the user and the agent keep, and the       *)
(* evidence from a few candidate papers, chosen by their profiles.  The    *)
(* memory lists and the selections are bounded; the schema they are put in *)
(* refuses a list that is too long.                                        *)
(***************************************************************************)
EXTENDS Integers, Sequences, FiniteSets, SequencesExt, FiniteSetsExt

CONSTANTS
  None,
  NoteTypes,     \* "intent", "preference", "exclusion", "decision", others
  Texts,         \* contents of a note
  TextTags,      \* directions in its tags
  MaxRows,       \* notes a project may have; the code reads the last 100
  ListLimit,     \* 12: directions and decisions
  MaxCandidates  \* 5

ContextAssumption == MaxRows \in Nat /\ {ListLimit, MaxCandidates} \subseteq Nat \ {0}

VARIABLES
  remembered,   \* the notes in use, the one touched last first
  built         \* how the last request for the context went

contextVars == <<remembered, built>>

Note == [type : NoteTypes, content : Texts, tag : TextTags \union {None}]

ContextInit == remembered = <<>> /\ built = "never"

-----------------------------------------------------------------------------
(* append_unique: new values are appended, and it stops when the list has  *)
(* as many as it may.                                                      *)
AppendUnique(values, candidates, limit) ==
  FoldLeft(LAMBDA sofar, c :
             IF sofar.full THEN sofar
             ELSE LET now == IF c \in Range(sofar.values) THEN sofar.values
                             ELSE Append(sofar.values, c)
                  IN  [values |-> now, full |-> Len(now) >= limit],
           [values |-> values, full |-> FALSE], candidates).values

Tags(note) == IF note.tag = None THEN <<>> ELSE <<note.tag>>

(* The rows of the discovery types, newest first, each adding to a list.   *)
Values(note) == IF note.type = "decision" THEN <<note.content>>
                ELSE Tags(note) \o <<note.content>>
Listed(rows, type) ==
  FoldLeft(LAMBDA list, n : IF n.type = type
                            THEN AppendUnique(list, Values(n), ListLimit) ELSE list,
           <<>>, rows)

Discovery(rows) ==
  LET intents == SelectSeq(rows, LAMBDA n : n.type = "intent")
  IN  [summary |-> IF intents = <<>> THEN None ELSE Head(intents).content,
       preferred |-> Listed(rows, "preference"),
       excluded |-> Listed(rows, "exclusion"),
       notes |-> Listed(rows, "decision")]

(* What the schema takes. *)
Fits(context) == \A list \in {context.preferred, context.excluded, context.notes} :
                   Len(list) <= ListLimit

-----------------------------------------------------------------------------
(* create_note and append_memory, update_note, delete_note *)
Remember(note) ==
  /\ Len(remembered) < MaxRows
  /\ remembered' = <<note>> \o remembered /\ UNCHANGED built

Rewrite(i, note) ==
  /\ remembered' = <<note>> \o RemoveAt(remembered, i) /\ UNCHANGED built

Forget(i) == remembered' = RemoveAt(remembered, i) /\ UNCHANGED built

(* A turn of the agent in the project begins with the context; when the    *)
(* schema refuses it, the turn fails.                                      *)
BuildDiscovery ==
  /\ built' = IF Fits(Discovery(remembered)) THEN "told" ELSE "refused"
  /\ UNCHANGED remembered

ContextNext ==
  \/ \E n \in Note : Remember(n)
  \/ \E i \in DOMAIN remembered : \/ Forget(i)
                                  \/ \E n \in Note : Rewrite(i, n)
  \/ BuildDiscovery

-----------------------------------------------------------------------------
(* The candidate papers of a request.  A paper is [id, mine, role,         *)
(* priority, profile, words, chunks]; scores are in thousandths.           *)
Rank(s, score) ==
  LET Before(i, j) == score[i] > score[j] \/ (score[i] = score[j] /\ i < j)
  IN  [n \in DOMAIN s |-> s[CHOOSE i \in DOMAIN s :
         Cardinality({j \in DOMAIN s : Before(j, i)}) = n - 1]]

Overlap(query, words) ==
  (1000 * Cardinality(query \intersect words)) \div Max({1, Cardinality(query)})
RoleBonus(role, most) ==
  CASE role = "core" -> most [] role = "related" -> most \div 2 [] OTHER -> 0

SelectionScore(query, paper) ==
  Max({0, Overlap(query, paper.words) + RoleBonus(paper.role, 80)
            + 5 * Max({1, Min({paper.priority, 5})})
            - (IF paper.profile = "stale" THEN 50 ELSE 0)})

Select(query, papers, limit, allowed) ==
  LET able == SelectSeq(papers, LAMBDA p : p.mine /\ (allowed = None \/ p.id \in allowed)
                                             /\ p.profile \in {"ready", "stale"})
      ranked == Rank(able, [i \in DOMAIN able |-> SelectionScore(query, able[i])])
  IN  SubSeq(ranked, 1, Min({Len(ranked), Max({1, Min({limit, MaxCandidates})})}))

(* Chunks of all candidates, each paper's cut to its share, ranked         *)
(* together; a paper has no more than the cap, and nothing comes twice.    *)
Ceil(a, b) == (a + b - 1) \div b
Share(k, n) == Max({2, Min({6, Ceil(k, n) + 1})})

Item(paper, n) == [paper |-> paper.id, role |-> paper.role, rank |-> n,
                   chunk |-> paper.chunks[n]]
ItemScore(query, item) ==
  (3 * Overlap(query, item.chunk.words)) \div 4 + (15 * item.chunk.score) \div 100
    + 1000 \div (60 + item.rank) + RoleBonus(item.role, 40)

RankProject(query, papers, k) ==
  LET cap == Max({2, Ceil(k, Max({1, Len(papers)})) + 1})
      items == FlattenSeq([p \in DOMAIN papers |->
                 [n \in DOMAIN papers[p].chunks |-> Item(papers[p], n)]])
      Take(taken, item) ==
        LET same == {i \in DOMAIN taken : taken[i].paper = item.paper}
        IN  IF Len(taken) < k /\ Cardinality(same) < cap
                 /\ \A i \in same : taken[i].chunk.text # item.chunk.text
            THEN Append(taken, item) ELSE taken
      ranked == Rank(items, [i \in DOMAIN items |-> ItemScore(query, items[i])])
  IN  FoldLeft(Take, <<>>, ranked)

(* What evidence is called; what has no place of its own is called by its  *)
(* number in this result.                                                  *)
ChunkId(chunk, number) ==
  IF chunk.element # None THEN <<"element", chunk.element>>
  ELSE IF chunk.index # None THEN <<"chunk", chunk.index>> ELSE <<"number", number>>

Evidence(query, papers, limit, k, allowed) ==
  LET candidates == Select(query, papers, limit, allowed)
      cut == [p \in DOMAIN candidates |-> [candidates[p] EXCEPT !.chunks =
               SubSeq(@, 1, Min({Len(@), Share(k, Len(candidates))}))]]
      found == SelectSeq(cut, LAMBDA p : p.chunks # <<>>)
      ranked == RankProject(query, found, Max({1, Min({k, 20})}))
  IN  [status |-> IF \A p \in Range(papers) : ~p.mine THEN "no_imported_papers"
                  ELSE IF candidates = <<>> THEN "no_ready_profiles"
                  ELSE IF ranked = <<>> THEN "no_supporting_evidence" ELSE "ready",
       items |-> [i \in DOMAIN ranked |->
                   [paper |-> ranked[i].paper, chunk |-> ranked[i].chunk,
                    id |-> ChunkId(ranked[i].chunk, i)]]]

-----------------------------------------------------------------------------
(* Every variable has its type. *)
ContextTypeOK ==
  /\ remembered \in Seq(Note) /\ Len(remembered) <= MaxRows
  /\ built \in {"never", "told", "refused"}

(* build_discovery_context: while a list has room, it has everything the   *)
(* notes of its type say, however they were written, rewritten and         *)
(* removed, and nothing that no note says.                                 *)
ContextIsComplete ==
  LET context == Discovery(remembered)
      Says(type) == UNION {{n.content} \union Range(Tags(n)) :
                            n \in {m \in Range(remembered) : m.type = type}}
  IN  /\ Len(context.preferred) < ListLimit => Range(context.preferred) = Says("preference")
      /\ Len(context.excluded) < ListLimit => Range(context.excluded) = Says("exclusion")
      /\ Range(context.preferred) \subseteq Says("preference")
      /\ \A list \in {context.preferred, context.excluded, context.notes} : IsInjective(list)

(* Evidence comes from papers the user may use and a profile is there for, *)
(* no more of it than asked for, none twice under one name, and while      *)
(* there is room every candidate with evidence has some.                   *)
ProjectEvidenceIsSound(query, papers, limit, k, allowed) ==
  LET evidence == Evidence(query, papers, limit, k, allowed)
      chosen == Select(query, papers, limit, allowed)
      Of(p) == {i \in DOMAIN evidence.items : evidence.items[i].paper = p.id}
  IN  /\ \A i \in DOMAIN evidence.items : \E p \in Range(papers) :
           p.id = evidence.items[i].paper /\ p.mine /\ p.profile \in {"ready", "stale"}
             /\ (allowed # None => p.id \in allowed)
      /\ Len(evidence.items) <= Max({1, k})
      /\ \A i, j \in DOMAIN evidence.items :
           evidence.items[i].paper = evidence.items[j].paper
             /\ evidence.items[i].id = evidence.items[j].id => i = j
      /\ Len(evidence.items) < k =>
           \A p \in Range(chosen) : p.chunks # <<>> => Of(p) # {}
      /\ evidence.status = "ready" <=> evidence.items # <<>>

-----------------------------------------------------------------------------
(* schemas.py:69, a "bounded, durable discovery memory": the schema takes  *)
(* the lists, however many notes there are.  Not so: the bound of a list   *)
(* is looked at after appending, so every note adds one to a full list.    *)
MemoryIsBounded == built # "refused"

(* retrieval.py:1, "stable Evidence provenance": a name is of one chunk,   *)
(* in whichever search it was found.  Not so for an image, which is named  *)
(* by its number in the result.                                            *)
NamesAreStable(query, other, papers, limit, k, allowed) ==
  LET one == Evidence(query, papers, limit, k, allowed).items
      two == Evidence(other, papers, limit, k, allowed).items
  IN  \A i \in DOMAIN one, j \in DOMAIN two :
        one[i].id = two[j].id /\ one[i].paper = two[j].paper
          => one[i].chunk.text = two[j].chunk.text
=============================================================================
