--------------------------- MODULE RequestProofs ---------------------------
(***************************************************************************)
(* What holds of the components of Requests for every number of requests,  *)
(* callers, texts, events, changes, deaths and outages.  Each has an       *)
(* invariant:                                                              *)
(*                                                                         *)
(*   CiteInv    a row that was stale when a call began is stale until it   *)
(*              is deleted, in the table and in the call's memory (Begun), *)
(*              and what a call let pass was sound and not stale (Judged); *)
(*   PaperInv   a report is of the full draft or of an earlier version,    *)
(*              and a full draft knows of itself whether a part is open    *)
(*              and which list it was made with;                           *)
(*   DeskInv    what was asked of the content the editor still has, and    *)
(*              what was proposed for it, is of that text and document;    *)
(*   ShelfInv   what belongs to a project or paper is gone with it, and    *)
(*              what a request has found of a session is still so;         *)
(*   CacheInv   what a request has made is of the parse it read;           *)
(*   RecordInv  while the processes take turns the temporary file is the   *)
(*              writer's own, and with Redis there the file has what was   *)
(*              applied, but between the two halves of a write;            *)
(*   FilesInv   a part that is answered was read before it was announced;  *)
(*   EventsInv  the events are numbered as they lie, a writer numbers the  *)
(*              next with the counter locked, a stream has got a prefix;   *)
(*   PageInv    while no answer comes late the requests of the visit are   *)
(*              of its project and an import is watched, and while no      *)
(*              search crosses a request either, there is one search or    *)
(*              one change of a favorite, and the page knows which.        *)
(*                                                                         *)
(* WorkbenchProofs puts them together.                                     *)
(***************************************************************************)
EXTENDS Requests, FiniteSetTheorems, SequenceTheorems, WellFoundedInduction, TLAPS

-----------------------------------------------------------------------------
(* The largest and the smallest of some numbers. *)
LEMMA LargestOf ==
  ASSUME NEW n \in Nat, NEW S \in SUBSET (1..n), S # {}
  PROVE  LET most == CHOOSE i \in S : \A j \in S : j <= i
         IN  most \in S /\ \A j \in S : j <= most
<1> DEFINE T == {n - i : i \in S}
<1>1. \A i \in S : i \in Nat /\ n - i \in Nat
  OBVIOUS
<1>2. T \subseteq Nat /\ T # {}
  BY <1>1
<1>3. PICK t \in T : \A u \in T : ~ (<<u, t>> \in OpToRel(<, Nat))
  BY <1>2, NatLessThanWellFounded, WFMin
<1>4. \A u \in T : u \in Nat /\ t \in Nat /\ ~ (u < t)
  BY <1>2, <1>3 DEF OpToRel
<1>5. PICK i \in S : t = n - i
  OBVIOUS
<1>6. \A j \in S : ~ (n - j < n - i)
  BY <1>4, <1>5
<1>7. \A j \in S : j <= i
  BY <1>1, <1>6
<1> QED
  BY <1>7

LEMMA SmallestOf ==
  ASSUME NEW S \in SUBSET Nat, S # {}
  PROVE  LET least == CHOOSE i \in S : \A j \in S : i <= j
         IN  least \in S /\ \A j \in S : least <= j
<1>1. PICK t \in S : \A u \in S : ~ (<<u, t>> \in OpToRel(<, Nat))
  BY NatLessThanWellFounded, WFMin
<1>2. \A u \in S : t \in Nat /\ u \in Nat /\ ~ (u < t)
  BY <1>1 DEF OpToRel
<1>3. \A u \in S : t <= u
  BY <1>2
<1> QED
  BY <1>3


-----------------------------------------------------------------------------
(* Citations *)

CiteRow == [chunk : Chunks, claim : Claims, parse : 1..MaxParses,
            status : {"active", "stale"},
            verification : {"verified", "weak", "unverified", "unsupported"}]
Mapping == [id : Cite!Ids, claim : Claims]
Verdict == {"missing", "stale", "refused", "passed", "verified", "weak", "unsupported"}
Memory  == [Cite!Ids -> CiteRow \union {Cite!NoRow}]
Draft   == [pc : {"persist"}, draft : Seq([chunk : Chunks, claim : Claims]), of : Nat,
            cites : Seq(Mapping), held : Memory, began : SUBSET Cite!Ids]
Verification ==
  [pc : {"integrity", "gates", "semantic", "done"}, kind : {"paragraph", "text", "gate"},
   cites : Seq(Mapping), held : Memory, linked : BOOLEAN,
   results : Seq(Verdict), began : SUBSET Cite!Ids, sound : SUBSET Cite!Ids,
   judged : SUBSET Nat]

CiteTypes ==
  /\ parse \in 1..MaxParses /\ member \in BOOLEAN /\ moves \in 0..MaxMoves
  /\ evidence \in Memory
  /\ calls \in [Cite!Callers -> {Cite!Idle} \union Draft \union Verification]

(* Where a call is: a row that was stale when it began is stale until it is *)
(* deleted, and what the gates let pass was not stale and was sound.        *)
Begun(call) ==
  \A id \in call.began : /\ evidence[id] \in CiteRow /\ evidence[id].status = "stale"
                         /\ call.held[id] = Cite!NoRow \/ call.held[id].status = "stale"

Judged(call) ==
  /\ Len(call.results) = Len(call.cites) /\ call.judged \subseteq 1..Len(call.results)
  /\ \A i \in 1..Len(call.results) :
       call.results[i] \in {"passed", "verified", "weak"} =>
         call.cites[i].id \in call.sound \ call.began
  /\ \A i \in call.judged : call.held[call.cites[i].id] \in CiteRow

CallPlace(c) ==
  /\ calls[c].pc \in {"persist", "integrity", "gates"} => Begun(calls[c])
  /\ calls[c].pc = "persist" => Len(calls[c].cites) <= Len(calls[c].draft)
  /\ calls[c].pc \in {"integrity", "gates"} => calls[c].judged = {}
  /\ calls[c].pc \in {"semantic", "done"} => Judged(calls[c])

CiteInv == CiteTypes /\ \A c \in Cite!Callers : CallPlace(c)

LEMMA CiteNumbers == MaxParses \in Nat \ {0} /\ MaxMoves \in Nat /\ MaxCitations \in Nat \ {0}
BY RequestsAssumption DEF Cite!CitationAssumption

LEMMA NoRowIsNone == \A kept \in CiteRow : kept # Cite!NoRow
<1> SUFFICES ASSUME NEW kept \in CiteRow, kept = Cite!NoRow PROVE FALSE
  OBVIOUS
<1>1. kept.parse \in 1..MaxParses /\ kept.parse = 0
  BY DEF CiteRow, Cite!NoRow
<1> QED
  BY <1>1

LEMMA CiteShows ==
  ASSUME CiteInv
  PROVE  Cite!CitationTypeOK /\ Cite!StaleStaysOut
<1>1. \A id \in Cite!Ids : evidence[id] = Cite!NoRow \/ evidence[id] \in CiteRow
  BY DEF CiteInv, CiteTypes, Memory
<1>2. \A c \in Cite!Callers : calls[c] \in {Cite!Idle} \union Draft \union Verification
  BY DEF CiteInv, CiteTypes
<1>3. Cite!CitationTypeOK
  BY <1>1, <1>2 DEF Cite!CitationTypeOK, CiteInv, CiteTypes, CiteRow, Draft, Verification,
     Cite!Idle, Cite!Good
<1>4. ASSUME NEW c \in Cite!Callers, NEW i \in Cite!GoodCitations(c)
      PROVE  calls[c].cites[i].id \in calls[c].sound \ calls[c].began
  <2>1. calls[c].pc = "done" /\ i \in 1..Len(calls[c].results)
        /\ calls[c].results[i] \in {"passed", "verified", "weak"}
    BY <1>4 DEF Cite!GoodCitations, Cite!Good
  <2> QED
    BY <2>1 DEF CiteInv, CallPlace, Judged
<1> QED
  BY <1>3, <1>4 DEF Cite!StaleStaysOut

LEMMA CiteInit ==
  ASSUME Cite!CitationInit
  PROVE  CiteInv
BY CiteNumbers DEF Cite!CitationInit, CiteInv, CiteTypes, CallPlace, Cite!Idle, Memory

(* What the gates write and find. *)
LEMMA GateTypes ==
  ASSUME NEW claim, NEW kept \in CiteRow, NEW linked \in BOOLEAN
  PROVE  /\ Cite!Gate(claim, kept, linked) \in {"stale", "refused", "passed"}
         /\ Cite!Gate(claim, kept, linked) = "passed" =>
              linked /\ kept.parse = parse /\ kept.status # "stale"
         /\ \A gate \in {"stale", "refused", "passed"} :
              /\ Cite!Gated(kept, gate) \in CiteRow
              /\ kept.status = "stale" => Cite!Gated(kept, gate).status = "stale"
<1>1. kept # Cite!NoRow
  BY NoRowIsNone
<1>2. /\ Cite!Gate(claim, kept, linked) \in {"stale", "refused", "passed"}
      /\ Cite!Gate(claim, kept, linked) = "passed" =>
           linked /\ kept.parse = parse /\ kept.status # "stale"
  BY <1>1 DEF Cite!Gate
<1>3. \A gate \in {"stale", "refused", "passed"} :
              /\ Cite!Gated(kept, gate) \in CiteRow
              /\ kept.status = "stale" => Cite!Gated(kept, gate).status = "stale"
  BY DEF Cite!Gated, CiteRow
<1> QED
  BY <1>2, <1>3

LEMMA GateOfNone ==
  ASSUME NEW claim, NEW linked
  PROVE  /\ Cite!Gate(claim, Cite!NoRow, linked) = "missing"
         /\ Cite!Gated(Cite!NoRow, "missing") = Cite!NoRow
<1>1. Cite!Gate(claim, Cite!NoRow, linked) = "missing"
  BY DEF Cite!Gate
<1>2. Cite!Gated(Cite!NoRow, "missing") = Cite!NoRow
  BY DEF Cite!Gated
<1> QED
  BY <1>1, <1>2

LEMMA GatesOfAll ==
  ASSUME NEW call \in Verification
  PROVE  LET done  == Cite!GateAll(call)
             cites == call.cites
         IN
         /\ done.results \in Seq(Verdict) /\ Len(done.results) = Len(cites)
         /\ \A i \in 1..Len(cites) :
              LET id == cites[i].id IN
              /\ id \in Cite!Ids
              /\ done.results[i] \in {"missing", "stale", "refused", "passed"}
              /\ done.results[i] = "passed" =>
                   /\ call.linked /\ call.held[id].parse = parse
                   /\ call.held[id] \in CiteRow /\ call.held[id].status # "stale"
         /\ done.rows \in Memory
         /\ \A id \in Cite!Ids : call.held[id] \in CiteRow =>
              /\ done.rows[id] \in CiteRow
              /\ call.held[id].status = "stale" => done.rows[id].status = "stale"
<1> DEFINE cites == call.cites
           Of(id) == {i \in 1..Len(cites) : cites[i].id = id}
           result == [i \in 1..Len(cites) |->
                        Cite!Gate(cites[i].claim, Cite!AsFound(call, i), call.linked)]
           Last(id) == Cite!LastOf(Of(id))
           rows == [id \in Cite!Ids |->
                      IF Of(id) = {} THEN call.held[id]
                      ELSE Cite!Gated(Cite!AsFound(call, Last(id)), result[Last(id)])]
<1>0. cites \in Seq(Mapping) /\ call.held \in Memory /\ call.linked \in BOOLEAN
  BY DEF Verification
<1>1. Cite!GateAll(call).results = result /\ Cite!GateAll(call).rows = rows
  BY DEF Cite!GateAll
<1>2. ASSUME NEW i \in 1..Len(cites)
      PROVE  /\ cites[i].id \in Cite!Ids
             /\ call.held[cites[i].id] = Cite!NoRow => result[i] = "missing"
             /\ call.held[cites[i].id] = Cite!NoRow =>
                  Cite!Gated(Cite!AsFound(call, i), result[i]) = Cite!NoRow
             /\ call.held[cites[i].id] \in CiteRow =>
                  /\ result[i] \in {"stale", "refused", "passed"}
                  /\ Cite!Gated(Cite!AsFound(call, i), result[i]) \in CiteRow
                  /\ result[i] = "passed" =>
                       /\ call.linked /\ call.held[cites[i].id].parse = parse
                       /\ call.held[cites[i].id].status # "stale"
                  /\ call.held[cites[i].id].status = "stale" =>
                       Cite!Gated(Cite!AsFound(call, i), result[i]).status = "stale"
  <2> DEFINE kept == call.held[cites[i].id]
             asFound == Cite!AsFound(call, i)
  <2>1. cites[i].id \in Cite!Ids
    <3>1. cites[i] \in Mapping
      BY <1>0
    <3> QED
      BY <3>1 DEF Mapping
  <2>2. result[i] = Cite!Gate(cites[i].claim, asFound, call.linked)
    OBVIOUS
  <2>3. CASE kept = Cite!NoRow
    <3>1. ~ \E j \in 1..i - 1 : /\ cites[j].id = cites[i].id
                               /\ Cite!Gate(cites[j].claim, kept, call.linked) = "stale"
      <4>1. \A j : Cite!Gate(cites[j].claim, kept, call.linked) = "missing"
        BY <2>3, GateOfNone
      <4> QED
        BY <4>1
    <3>2. asFound = Cite!NoRow
      BY <2>3, <3>1 DEF Cite!AsFound
    <3> QED
      BY <2>1, <2>2, <2>3, <3>2, GateOfNone, NoRowIsNone
  <2>4. CASE kept \in CiteRow
    <3>1. asFound = kept \/ asFound = [kept EXCEPT !.status = "stale"]
      BY DEF Cite!AsFound
    <3>2. /\ asFound \in CiteRow /\ asFound.parse = kept.parse
          /\ kept.status = "stale" => asFound.status = "stale"
      BY <2>4, <3>1 DEF CiteRow
    <3>3. asFound.status # "stale" => kept.status # "stale"
      BY <3>2
    <3> HIDE DEF asFound, kept, result
    <3> QED
      BY <1>0, <2>1, <2>2, <2>4, <3>2, <3>3, GateTypes, NoRowIsNone DEF kept, asFound
  <2> QED
    BY <1>0, <2>1, <2>3, <2>4 DEF Memory
<1>3. \A i \in 1..Len(cites) : call.held[cites[i].id] = Cite!NoRow \/ call.held[cites[i].id] \in CiteRow
  BY <1>0, <1>2 DEF Memory
<1>4. result \in Seq(Verdict) /\ Len(result) = Len(cites)
  <2>1. \A i \in 1..Len(cites) : Cite!Gate(cites[i].claim, Cite!AsFound(call, i), call.linked) \in Verdict
    BY <1>2, <1>3 DEF Verdict
  <2> QED
    BY <1>0, <2>1
<1>5. \A id \in Cite!Ids : Of(id) # {} => Last(id) \in 1..Len(cites) /\ cites[Last(id)].id = id
  <2>1. ASSUME NEW id \in Cite!Ids, Of(id) # {}
        PROVE  Last(id) \in Of(id)
    <3>1. Of(id) \in SUBSET (1..Len(cites)) /\ Len(cites) \in Nat
      BY <1>0
    <3> HIDE DEF Of
    <3> QED
      BY <2>1, <3>1, LargestOf DEF Cite!LastOf
  <2> QED
    BY <2>1
<1>6. ASSUME NEW id \in Cite!Ids
      PROVE  /\ rows[id] \in CiteRow \union {Cite!NoRow}
             /\ call.held[id] \in CiteRow =>
                  /\ rows[id] \in CiteRow
                  /\ call.held[id].status = "stale" => rows[id].status = "stale"
  <2>1. call.held[id] \in CiteRow \union {Cite!NoRow}
    BY <1>0 DEF Memory
  <2>2. CASE Of(id) = {}
    BY <2>1, <2>2
  <2>3. CASE Of(id) # {}
    <3>1. rows[id] = Cite!Gated(Cite!AsFound(call, Last(id)), result[Last(id)])
      BY <2>3
    <3>2. Last(id) \in 1..Len(cites) /\ cites[Last(id)].id = id
      BY <1>5, <2>3
    <3> HIDE DEF Last, Of, rows, result
    <3> QED
      BY <1>2, <2>1, <3>1, <3>2
  <2> QED
    BY <2>2, <2>3
<1> HIDE DEF rows, result
<1>7. rows \in Memory
  BY <1>6 DEF rows, Memory
<1> QED
  BY <1>1, <1>2, <1>3, <1>4, <1>6, <1>7

(* What an UPDATE leaves of a row: stale it stays.                          *)
LEMMA UpdatedRow ==
  ASSUME NEW kept \in CiteRow, NEW loaded \in CiteRow, NEW now \in CiteRow,
         loaded.status = "stale" => now.status = "stale"
  PROVE  /\ Cite!Updated(kept, loaded, now) \in CiteRow
         /\ kept.status = "stale" => Cite!Updated(kept, loaded, now).status = "stale"
BY DEF Cite!Updated, CiteRow

LEMMA HeldOne ==
  ASSUME NEW id, NEW kept, id \in Cite!Ids => kept \in CiteRow \union {Cite!NoRow}
  PROVE  /\ Cite!NoneHeld \in Memory /\ Cite!Holding(id, kept) \in Memory
         /\ \A i \in Cite!Ids : Cite!NoneHeld[i] = Cite!NoRow
         /\ \A i \in Cite!Ids : Cite!Holding(id, kept)[i] = IF i = id THEN kept ELSE Cite!NoRow
BY DEF Cite!NoneHeld, Cite!Holding, Memory

LEMMA StaleOnes ==
  ASSUME CiteTypes
  PROVE  \A id \in Cite!StaleRows :
           id \in Cite!Ids /\ evidence[id] \in CiteRow /\ evidence[id].status = "stale"
BY DEF CiteTypes, Cite!StaleRows, Memory

(* What a call is told when it begins to verify is so.                      *)
LEMMA BeginTypes ==
  ASSUME NEW kind \in {"paragraph", "text", "gate"}, NEW cites \in Seq(Mapping),
         NEW held \in Memory, NEW began \in SUBSET Cite!Ids,
         \A id \in began : /\ evidence[id] \in CiteRow /\ evidence[id].status = "stale"
                           /\ held[id] = Cite!NoRow \/ held[id].status = "stale"
  PROVE  /\ Cite!Verifying(kind, cites, held, began) \in Verification
         /\ Cite!Verifying(kind, cites, held, began).pc = "integrity"
         /\ Cite!Verifying(kind, cites, held, began).judged = {}
         /\ Begun(Cite!Verifying(kind, cites, held, began))
<1>1. Cite!Verifying(kind, cites, held, began) \in Verification
  BY DEF Cite!Verifying, Verification
<1>2. Begun(Cite!Verifying(kind, cites, held, began))
  BY DEF Cite!Verifying, Begun
<1> QED
  BY <1>1, <1>2 DEF Cite!Verifying

LEMMA SomeCites ==
  ASSUME NEW To, NEW From \in SUBSET To, NEW cites \in Cite!Cites(From)
  PROVE  cites \in Seq(To)
<1>1. PICK n \in 1..MaxCitations : cites \in [1..n -> From]
  BY DEF Cite!Cites
<1>2. n \in Nat /\ cites \in [1..n -> To]
  BY <1>1, CiteNumbers
<1> QED
  BY <1>2

(* A call alone moves, and the rows it was begun with are kept.             *)
LEMMA OneCall ==
  ASSUME CiteInv, NEW c \in Cite!Callers,
         parse' \in 1..MaxParses, member' \in BOOLEAN, moves' \in 0..MaxMoves,
         evidence' \in Memory,
         \A id \in Cite!Ids : evidence[id] \in CiteRow /\ evidence[id].status = "stale" =>
           evidence'[id] \in CiteRow /\ evidence'[id].status = "stale",
         calls' \in [Cite!Callers -> {Cite!Idle} \union Draft \union Verification],
         CallPlace(c)', \A d \in Cite!Callers \ {c} : calls'[d] = calls[d]
  PROVE  CiteInv'
<1>1. CiteTypes'
  BY DEF CiteTypes, Memory, Cite!Ids, CiteRow, Cite!NoRow, Cite!Callers, Cite!Idle, Draft,
     Verification, Mapping
<1>2. ASSUME NEW d \in Cite!Callers \ {c} PROVE CallPlace(d)'
  <2>1. CallPlace(d) /\ calls'[d] = calls[d]
    BY DEF CiteInv
  <2>2. calls[d].pc \in {"persist", "integrity", "gates"} => Begun(calls[d])'
    <3> SUFFICES ASSUME calls[d].pc \in {"persist", "integrity", "gates"} PROVE Begun(calls[d])'
      OBVIOUS
    <3>1. Begun(calls[d])
      BY <2>1 DEF CallPlace
    <3>2. calls[d] \in Draft \union Verification
      BY DEF CiteInv, CiteTypes, Cite!Idle
    <3>3. calls[d].began \subseteq Cite!Ids
      BY <3>2 DEF Draft, Verification
    <3>4. \A id \in calls[d].began :
            /\ evidence'[id] \in CiteRow /\ evidence'[id].status = "stale"
            /\ calls[d].held[id] = Cite!NoRow \/ calls[d].held[id].status = "stale"
      BY <3>1, <3>3 DEF Begun
    <3> QED
      BY <2>1, <3>4 DEF Begun, CiteRow, Cite!NoRow
  <2>3. calls[d].pc \in {"semantic", "done"} => Judged(calls[d])'
    BY <2>1 DEF CallPlace, Judged, CiteRow
  <2> QED
    BY <2>1, <2>2, <2>3 DEF CallPlace
<1> QED
  BY <1>1, <1>2 DEF CiteInv, Cite!Callers

LEMMA CiteStepInv ==
  ASSUME CiteInv, Cite!CitationNext
  PROVE  CiteInv'
<1> USE CiteNumbers
<1>1. /\ CiteTypes /\ parse \in 1..MaxParses /\ member \in BOOLEAN /\ moves \in 0..MaxMoves
      /\ evidence \in Memory
      /\ calls \in [Cite!Callers -> {Cite!Idle} \union Draft \union Verification]
      /\ \A c \in Cite!Callers : CallPlace(c)
  BY DEF CiteInv, CiteTypes
<1>2. \A c \in Cite!Callers :
        /\ calls[c].pc = "persist" => calls[c] \in Draft
        /\ calls[c].pc \in {"integrity", "gates", "semantic"} => calls[c] \in Verification
  <2> TAKE c \in Cite!Callers
  <2>1. calls[c] = Cite!Idle \/ calls[c] \in Draft \/ calls[c] \in Verification
    BY <1>1
  <2>2. Cite!Idle.pc = "idle" /\ (calls[c] \in Draft => calls[c].pc = "persist")
        /\ (calls[c] \in Verification => calls[c].pc \in {"integrity", "gates", "semantic", "done"})
    BY DEF Draft, Verification, Cite!Idle
  <2> QED
    BY <2>1, <2>2
<1>3. ASSUME NEW c \in Cite!Callers, Cite!Generate(c) PROVE CiteInv'
  <2>1. PICK draft \in Seq([chunk : Chunks, claim : Claims]) :
          calls' = [calls EXCEPT ![c] =
                     [pc |-> "persist", draft |-> draft, of |-> parse, cites |-> <<>>,
                      held |-> Cite!NoneHeld, began |-> Cite!StaleRows]]
    BY <1>3, SomeCites DEF Cite!Generate
  <2> DEFINE call == [pc |-> "persist", draft |-> draft, of |-> parse, cites |-> <<>>,
                      held |-> Cite!NoneHeld, began |-> Cite!StaleRows]
  <2>2. Cite!NoneHeld \in Memory /\ \A id \in Cite!Ids : Cite!NoneHeld[id] = Cite!NoRow
    BY DEF Cite!NoneHeld, Memory
  <2>3. Cite!StaleRows \subseteq Cite!Ids
    BY DEF Cite!StaleRows
  <2>4. call \in Draft
    BY <1>1, <2>2, <2>3 DEF Draft
  <2>5. Begun(call)
    BY <1>1, <2>2, <2>3, StaleOnes DEF Begun
  <2>6. call.pc = "persist" /\ Len(call.cites) <= Len(call.draft)
    OBVIOUS
  <2>7. calls'[c] = call
    BY <1>1, <2>1
  <2> HIDE DEF call
  <2>8. Begun(calls[c])'
    BY <1>3, <2>5, <2>7 DEF Begun, Cite!Generate, CiteRow, Cite!NoRow
  <2>9. CallPlace(c)'
    BY <2>6, <2>7, <2>8 DEF CallPlace
  <2>10. calls' \in [Cite!Callers -> {Cite!Idle} \union Draft \union Verification]
         /\ \A d \in Cite!Callers \ {c} : calls'[d] = calls[d]
    BY <1>1, <2>1, <2>4 DEF call
  <2> QED
    BY <1>1, <1>3, <2>9, <2>10, OneCall DEF Cite!Generate
<1>4. ASSUME NEW c \in Cite!Callers, Cite!PersistUsed(c) PROVE CiteInv'
  <2> DEFINE call == calls[c]
             n == Len(call.cites) + 1
             id == <<"task", call.draft[n].chunk>>
             newest == IF call.held[id] # Cite!NoRow THEN call.held[id]
                       ELSE IF evidence[id] # Cite!NoRow THEN evidence[id]
                       ELSE Cite!NewRow(call.draft[n].chunk, call.draft[n].claim, parse)
  <2>1. call \in Draft /\ call.pc = "persist" /\ n <= Len(call.draft) /\ Begun(call)
    BY <1>1, <1>2, <1>4 DEF Cite!PersistUsed, CallPlace
  <2>2. n \in 1..Len(call.draft) /\ call.draft[n] \in [chunk : Chunks, claim : Claims]
    <3>1. call.draft \in Seq([chunk : Chunks, claim : Claims]) /\ Len(call.cites) \in Nat
      BY <2>1 DEF Draft
    <3>2. n \in 1..Len(call.draft)
      BY <2>1, <3>1
    <3> HIDE DEF n, call
    <3> QED
      BY <3>1, <3>2, ElementOfSeq
  <2>3. id \in Cite!Ids /\ call.draft[n].claim \in Claims /\ call.draft[n].chunk \in Chunks
    BY <2>2 DEF Cite!Ids
  <2>4. CASE member /\ call.of = parse
    <3> DEFINE next == Append(call.cites, [id |-> id, claim |-> call.draft[n].claim])
    <3>1. /\ calls' = [calls EXCEPT ![c].cites = next, ![c].held = Cite!Holding(id, newest)]
          /\ evidence' = IF call.held[id] # Cite!NoRow THEN evidence
                         ELSE [evidence EXCEPT ![id] = newest]
      BY <1>4, <2>4 DEF Cite!PersistUsed
    <3>2. next \in Seq(Mapping) /\ Len(next) = n
      BY <2>1, <2>3 DEF Draft, Mapping
    <3>3. Cite!NewRow(call.draft[n].chunk, call.draft[n].claim, parse) \in CiteRow
      BY <1>1, <2>3 DEF Cite!NewRow, CiteRow
    <3>4. newest \in CiteRow /\ call.held \in Memory /\ call.began \subseteq Cite!Ids
      BY <1>1, <2>1, <2>3, <3>3 DEF Draft, Memory
    <3>5. id \in call.began => newest.status = "stale"
      BY <2>1, <3>4, NoRowIsNone DEF Begun
    <3>6. call.held[id] = Cite!NoRow /\ evidence[id] # Cite!NoRow => newest = evidence[id]
      OBVIOUS
    <3> HIDE DEF next, newest, id, n
    <3>7. /\ Cite!Holding(id, newest) \in Memory
          /\ \A i \in Cite!Ids : Cite!Holding(id, newest)[i] = IF i = id THEN newest ELSE Cite!NoRow
      BY <3>4, HeldOne
    <3>8. /\ calls'[c] \in Draft /\ calls'[c].pc = "persist" /\ calls'[c].cites = next
          /\ calls'[c].draft = call.draft /\ calls'[c].began = call.began
          /\ calls'[c].held = Cite!Holding(id, newest)
      BY <1>1, <2>1, <3>1, <3>2, <3>7 DEF Draft
    <3>9. calls' \in [Cite!Callers -> {Cite!Idle} \union Draft \union Verification]
          /\ \A d \in Cite!Callers \ {c} : calls'[d] = calls[d]
      BY <1>1, <3>1, <3>8
    <3>10. /\ evidence' \in Memory
           /\ \A i \in Cite!Ids : evidence[i] \in CiteRow => evidence'[i] = evidence[i]
      <4>1. CASE call.held[id] # Cite!NoRow
        BY <1>1, <3>1, <4>1
      <4>2. CASE call.held[id] = Cite!NoRow
        <5>1. evidence' = [evidence EXCEPT ![id] = newest]
          BY <3>1, <4>2
        <5> HIDE DEF call
        <5>2. evidence' \in Memory
          BY <1>1, <2>3, <3>4, <5>1 DEF Memory
        <5>3. ASSUME NEW i \in Cite!Ids, evidence[i] \in CiteRow PROVE evidence'[i] = evidence[i]
          <6>1. evidence[i] # Cite!NoRow
            BY <5>3, NoRowIsNone
          <6>2. i = id => newest = evidence[i]
            BY <3>6, <4>2, <6>1
          <6>3. evidence'[i] = IF i = id THEN newest ELSE evidence[i]
            BY <1>1, <5>1 DEF Memory
          <6> QED
            BY <6>2, <6>3
        <5> QED
          BY <5>2, <5>3
      <4> QED
        BY <4>1, <4>2
    <3>11. Begun(calls[c])'
      <4>1. ASSUME NEW i \in call.began
            PROVE  /\ evidence'[i] \in CiteRow /\ evidence'[i].status = "stale"
                   /\ calls'[c].held[i] = Cite!NoRow \/ calls'[c].held[i].status = "stale"
        <5>1. evidence[i] \in CiteRow /\ evidence[i].status = "stale" /\ i \in Cite!Ids
          BY <2>1, <3>4, <4>1 DEF Begun
        <5> QED
          BY <3>5, <3>7, <3>8, <3>10, <4>1, <5>1
      <4> QED
        BY <3>8, <4>1 DEF Begun, CiteRow, Cite!NoRow
    <3>12. CallPlace(c)'
      BY <2>1, <3>2, <3>8, <3>11 DEF CallPlace
    <3> QED
      BY <1>1, <1>4, <3>9, <3>10, <3>12, OneCall DEF Cite!PersistUsed
  <2>5. CASE ~ (member /\ call.of = parse)
    <3>1. calls' = [calls EXCEPT ![c] = Cite!Idle] /\ UNCHANGED evidence
      BY <1>4, <2>5 DEF Cite!PersistUsed
    <3> QED
      BY <1>1, <1>4, <3>1, OneCall DEF Cite!PersistUsed, CallPlace, Cite!Idle
  <2> QED
    BY <2>4, <2>5
<1>5. ASSUME NEW c \in Cite!Callers, NEW kind \in {"paragraph", "text", "gate"},
             NEW cites \in Seq(Mapping), NEW held \in Memory, NEW began \in SUBSET Cite!Ids,
             \A id \in began : /\ evidence[id] \in CiteRow /\ evidence[id].status = "stale"
                               /\ held[id] = Cite!NoRow \/ held[id].status = "stale",
             calls' = [calls EXCEPT ![c] = Cite!Verifying(kind, cites, held, began)],
             UNCHANGED <<parse, member, evidence, moves>>
      PROVE  CiteInv'
  <2> DEFINE begun == Cite!Verifying(kind, cites, held, began)
  <2>1. begun \in Verification /\ begun.pc = "integrity" /\ begun.judged = {} /\ Begun(begun)
    BY <1>5, BeginTypes
  <2> HIDE DEF begun
  <2>2. calls'[c] = begun
    BY <1>1, <1>5 DEF begun
  <2>3. Begun(calls[c])'
    BY <1>5, <2>1, <2>2 DEF Begun, CiteRow, Cite!NoRow
  <2>4. CallPlace(c)'
    BY <2>1, <2>2, <2>3 DEF CallPlace
  <2>5. calls' \in [Cite!Callers -> {Cite!Idle} \union Draft \union Verification]
        /\ \A d \in Cite!Callers \ {c} : calls'[d] = calls[d]
    BY <1>1, <1>5, <2>1 DEF begun
  <2> QED
    BY <1>1, <1>5, <2>4, <2>5, OneCall
<1>6. ASSUME NEW c \in Cite!Callers, Cite!StartVerification(c) PROVE CiteInv'
  <2> DEFINE call == calls[c]
             read == {id \in Cite!StaleRows : call.held[id] = Cite!NoRow}
  <2>1. call \in Draft /\ Begun(call)
    BY <1>1, <1>2, <1>6 DEF Cite!StartVerification, CallPlace
  <2>2. call.cites \in Seq(Mapping) /\ call.held \in Memory /\ call.began \subseteq Cite!Ids
    BY <2>1 DEF Draft
  <2>3. \A id \in call.began \union read :
          /\ id \in Cite!Ids /\ evidence[id] \in CiteRow /\ evidence[id].status = "stale"
          /\ call.held[id] = Cite!NoRow \/ call.held[id].status = "stale"
    BY <1>1, <2>1, <2>2, StaleOnes DEF Begun
  <2>4. call.began \union read \in SUBSET Cite!Ids
    BY <2>3
  <2>5. calls' = [calls EXCEPT ![c] =
                   Cite!Verifying("paragraph", call.cites, call.held, call.began \union read)]
        /\ UNCHANGED <<parse, member, evidence, moves>>
    BY <1>6 DEF Cite!StartVerification
  <2> HIDE DEF call, read
  <2> QED
    BY <1>5, <2>2, <2>3, <2>4, <2>5
<1>7. ASSUME NEW c \in Cite!Callers, Cite!Check(c) PROVE CiteInv'
  <2>1. \A cites \in Cite!Cites([id : {"task"} \X Chunks, claim : Claims]) \union
                       Cite!Cites([id : Cite!Ids, claim : Claims]) : cites \in Seq(Mapping)
    <3>1. [id : {"task"} \X Chunks, claim : Claims] \subseteq Mapping
      BY DEF Mapping, Cite!Ids
    <3>2. [id : Cite!Ids, claim : Claims] \subseteq Mapping
      BY DEF Mapping
    <3> QED
      BY <3>1, <3>2, SomeCites
  <2>2. PICK kind \in {"text", "gate"}, cites \in Seq(Mapping) :
          calls' = [calls EXCEPT ![c] =
                     Cite!Verifying(kind, cites, Cite!NoneHeld, Cite!StaleRows)]
    BY <1>7, <2>1 DEF Cite!Check
  <2>3. Cite!NoneHeld \in Memory /\ \A id \in Cite!Ids : Cite!NoneHeld[id] = Cite!NoRow
    BY DEF Cite!NoneHeld, Memory
  <2>4. Cite!StaleRows \in SUBSET Cite!Ids
    BY DEF Cite!StaleRows
  <2>5. UNCHANGED <<parse, member, evidence, moves>>
    BY <1>7 DEF Cite!Check
  <2> QED
    BY <1>1, <1>5, <2>2, <2>3, <2>4, <2>5, StaleOnes
<1>16. ASSUME NEW c \in Cite!Callers, Cite!LoadCited(c) PROVE CiteInv'
  <2> DEFINE call == calls[c]
             held == [id \in Cite!Ids |->
                       IF call.held[id] # Cite!NoRow \/ id \notin Cite!Cited(call.cites)
                         THEN call.held[id] ELSE evidence[id]]
  <2>1. call \in Verification /\ call.pc = "integrity" /\ Begun(call) /\ call.judged = {}
    BY <1>1, <1>2, <1>16 DEF Cite!LoadCited, CallPlace
  <2>2. calls' = [calls EXCEPT ![c].pc = "gates", ![c].linked = member, ![c].held = held]
        /\ UNCHANGED <<parse, member, evidence, moves>>
    BY <1>16 DEF Cite!LoadCited
  <2>3. held \in Memory
    BY <1>1, <2>1 DEF Verification, Memory
  <2>4. \A id \in Cite!Ids : held[id] = call.held[id] \/ held[id] = evidence[id]
    OBVIOUS
  <2> HIDE DEF held
  <2>5. /\ calls'[c] \in Verification /\ calls'[c].pc = "gates" /\ calls'[c].held = held
        /\ calls'[c].began = call.began /\ calls'[c].judged = {}
    BY <1>1, <2>1, <2>2, <2>3 DEF Verification
  <2>6. Begun(calls[c])'
    <3>1. ASSUME NEW id \in call.began
          PROVE  /\ evidence[id] \in CiteRow /\ evidence[id].status = "stale"
                 /\ held[id] = Cite!NoRow \/ held[id].status = "stale"
      <4>1. id \in Cite!Ids
        BY <2>1, <3>1 DEF Verification
      <4> QED
        BY <2>1, <2>4, <3>1, <4>1 DEF Begun
    <3> QED
      BY <2>2, <2>5, <3>1 DEF Begun, CiteRow, Cite!NoRow
  <2>7. CallPlace(c)'
    BY <2>5, <2>6 DEF CallPlace
  <2>8. calls' \in [Cite!Callers -> {Cite!Idle} \union Draft \union Verification]
        /\ \A d \in Cite!Callers \ {c} : calls'[d] = calls[d]
    BY <1>1, <2>2, <2>5
  <2> QED
    BY <1>1, <2>2, <2>7, <2>8, OneCall
<1>8. ASSUME NEW c \in Cite!Callers, Cite!VerifyIntegrity(c) PROVE CiteInv'
  <2> DEFINE call == calls[c]
             done == Cite!GateAll(call)
             last == call.cites[Len(call.cites)].id
             withdrawn == \E id \in Cite!Ids : call.held[id] # Cite!NoRow /\ evidence[id] = Cite!NoRow
             sound == {id \in Cite!Cited(call.cites) : call.linked /\ call.held[id].parse = parse}
             pc == IF call.kind = "gate" THEN "done" ELSE "semantic"
             held == IF call.kind = "paragraph" THEN Cite!Holding(last, done.rows[last])
                     ELSE Cite!NoneHeld
  <2>1. call \in Verification /\ call.pc = "gates" /\ call.judged = {}
    BY <1>1, <1>2, <1>8 DEF Cite!VerifyIntegrity, CallPlace
  <2>2. Begun(call) /\ call.cites \in Seq(Mapping) /\ call.held \in Memory
    BY <1>1, <2>1 DEF CallPlace, Verification
  <2>3. CASE withdrawn
    <3>1. calls' = [calls EXCEPT ![c] = Cite!Idle] /\ UNCHANGED <<evidence, parse, member, moves>>
      BY <1>8, <2>3 DEF Cite!VerifyIntegrity
    <3> QED
      BY <1>1, <3>1, OneCall DEF CallPlace, Cite!Idle
  <2>4. CASE ~withdrawn
    <3>1. /\ calls' = [calls EXCEPT ![c].pc = pc, ![c].results = done.results,
                                    ![c].held = held, ![c].linked = FALSE, ![c].sound = sound]
          /\ evidence' = [id \in Cite!Ids |->
                            IF call.held[id] = Cite!NoRow THEN evidence[id]
                            ELSE Cite!Updated(evidence[id], call.held[id], done.rows[id])]
          /\ UNCHANGED <<parse, member, moves>>
      BY <1>8, <2>4 DEF Cite!VerifyIntegrity
    <3>2. /\ done.results \in Seq(Verdict) /\ Len(done.results) = Len(call.cites)
          /\ \A i \in 1..Len(call.cites) :
               /\ call.cites[i].id \in Cite!Ids
               /\ done.results[i] \in {"missing", "stale", "refused", "passed"}
               /\ done.results[i] = "passed" =>
                    /\ call.linked /\ call.held[call.cites[i].id].parse = parse
                    /\ call.held[call.cites[i].id] \in CiteRow
                    /\ call.held[call.cites[i].id].status # "stale"
          /\ done.rows \in Memory
          /\ \A id \in Cite!Ids : call.held[id] \in CiteRow =>
               /\ done.rows[id] \in CiteRow
               /\ call.held[id].status = "stale" => done.rows[id].status = "stale"
      BY <2>1, GatesOfAll
    <3> HIDE DEF done
    <3>3. sound \subseteq Cite!Ids /\ sound \in SUBSET Cite!Ids
      BY <3>2 DEF Cite!Cited
    <3>4. \A i \in 1..Len(call.cites) : done.results[i] = "passed" =>
            call.cites[i].id \in sound \ call.began
      <4> SUFFICES ASSUME NEW i \in 1..Len(call.cites), done.results[i] = "passed"
                   PROVE  call.cites[i].id \in sound \ call.began
        OBVIOUS
      <4>1. call.cites[i].id \in Cite!Cited(call.cites)
        BY DEF Cite!Cited
      <4>2. call.held[call.cites[i].id] # Cite!NoRow
        BY <3>2, NoRowIsNone
      <4>3. call.cites[i].id \notin call.began
        BY <2>2, <3>2, <4>2 DEF Begun
      <4> QED
        BY <3>2, <4>1, <4>3
    <3> HIDE DEF sound
    <3>5. held \in Memory
      <4>1. last \in Cite!Ids => done.rows[last] \in CiteRow \union {Cite!NoRow}
        BY <3>2 DEF Memory
      <4> HIDE DEF last
      <4> QED
        BY <4>1, HeldOne
    <3> HIDE DEF held, last
    <3>6. /\ calls'[c].results = done.results /\ calls'[c].cites = call.cites
          /\ calls'[c].sound = sound /\ calls'[c].began = call.began
          /\ calls'[c].judged = {}
          /\ calls'[c].pc \in {"done", "semantic"} /\ calls'[c] \in Verification
      BY <1>1, <2>1, <3>1, <3>2, <3>3, <3>5 DEF Verification
    <3>7. Judged(calls[c])'
      BY <3>2, <3>4, <3>6 DEF Judged
    <3>8. CallPlace(c)'
      BY <3>6, <3>7 DEF CallPlace
    <3>9. calls' \in [Cite!Callers -> {Cite!Idle} \union Draft \union Verification]
          /\ \A d \in Cite!Callers \ {c} : calls'[d] = calls[d]
      BY <1>1, <3>1, <3>6
    <3>10. ASSUME NEW id \in Cite!Ids
           PROVE  /\ evidence'[id] \in CiteRow \union {Cite!NoRow}
                  /\ evidence[id] \in CiteRow /\ evidence[id].status = "stale" =>
                       evidence'[id] \in CiteRow /\ evidence'[id].status = "stale"
      <4>1. evidence[id] \in CiteRow \union {Cite!NoRow} /\ call.held[id] \in CiteRow \union {Cite!NoRow}
        BY <1>1, <2>2 DEF Memory
      <4>2. CASE call.held[id] = Cite!NoRow
        BY <3>1, <4>1, <4>2
      <4>3. CASE call.held[id] # Cite!NoRow
        <5>1. evidence[id] \in CiteRow /\ call.held[id] \in CiteRow
          BY <2>4, <4>1, <4>3
        <5>2. evidence'[id] = Cite!Updated(evidence[id], call.held[id], done.rows[id])
          BY <3>1, <4>3
        <5>3. /\ done.rows[id] \in CiteRow
              /\ call.held[id].status = "stale" => done.rows[id].status = "stale"
          BY <3>2, <5>1
        <5> HIDE DEF call
        <5> QED
          BY <5>1, <5>2, <5>3, UpdatedRow
      <4> QED
        BY <4>2, <4>3
    <3>11. evidence' \in Memory
      <4>1. evidence' = [id \in Cite!Ids |-> evidence'[id]]
        BY <3>1
      <4> QED
        BY <3>10, <4>1 DEF Memory
    <3> QED
      BY <1>1, <3>1, <3>8, <3>9, <3>10, <3>11, OneCall
  <2> QED
    BY <2>3, <2>4
<1>9. ASSUME NEW c \in Cite!Callers, Cite!Judge(c) PROVE CiteInv'
  <2> DEFINE call == calls[c]
             answers == call.results
             open == {i \in 1..Len(answers) :
                        answers[i] \notin {"verified", "weak", "unsupported"}}
             i == CHOOSE k \in open : \A j \in open : k <= j
             id == call.cites[i].id
             kept == IF call.held[id] # Cite!NoRow THEN call.held[id] ELSE evidence[id]
             Answered(verdict) == [answers EXCEPT ![i] = verdict]
  <2>1. call \in Verification /\ call.pc = "semantic" /\ open # {}
    BY <1>2, <1>9 DEF Cite!Judge
  <2>2. answers \in Seq(Verdict) /\ Judged(call) /\ call.held \in Memory /\ call.cites \in Seq(Mapping)
    BY <1>1, <2>1 DEF CallPlace, Verification
  <2>3. i \in open
    <3>1. open \in SUBSET Nat
      BY <2>2
    <3> HIDE DEF open
    <3> QED
      BY <2>1, <3>1, SmallestOf
  <2>4. i \in 1..Len(answers)
    BY <2>3
  <2>5. id \in Cite!Ids
    <3>1. i \in 1..Len(call.cites)
      BY <2>2, <2>4 DEF Judged
    <3>2. call.cites[i] \in Mapping
      BY <2>2, <3>1, ElementOfSeq
    <3> QED
      BY <3>2 DEF Mapping
  <2>6. /\ UNCHANGED <<parse, member, evidence, moves>>
        /\ \/ calls' = [calls EXCEPT ![c].results = Answered("unsupported")]
           \/ /\ answers[i] = "passed" /\ kept # Cite!NoRow
              /\ \E verdict \in {"verified", "weak", "unsupported"} :
                   calls' = [calls EXCEPT ![c].results = Answered(verdict),
                                          ![c].judged = @ \union {i},
                                          ![c].held = [@ EXCEPT ![id] = kept]]
    BY <1>9 DEF Cite!Judge
  <2>7. \A verdict \in {"verified", "weak", "unsupported"} :
          /\ Answered(verdict) \in Seq(Verdict) /\ Len(Answered(verdict)) = Len(answers)
          /\ Answered(verdict)[i] = verdict
          /\ \A j \in 1..Len(answers) : j # i => Answered(verdict)[j] = answers[j]
    BY <2>2, <2>4 DEF Verdict
  <2>8. kept \in CiteRow \union {Cite!NoRow}
    BY <1>1, <2>2, <2>5 DEF Memory
  <2>9. /\ Len(answers) = Len(call.cites) /\ call.judged \subseteq 1..Len(answers)
        /\ \A j \in 1..Len(answers) : answers[j] \in {"passed", "verified", "weak"} =>
             call.cites[j].id \in call.sound \ call.began
        /\ \A j \in call.judged : call.held[call.cites[j].id] \in CiteRow
    BY <2>2 DEF Judged
  <2> HIDE DEF open, kept, Answered, i, answers
  <2>10. CASE calls' = [calls EXCEPT ![c].results = Answered("unsupported")]
    <3>1. /\ calls'[c] \in Verification /\ calls'[c].results = Answered("unsupported")
          /\ calls'[c].judged = call.judged /\ calls'[c].held = call.held
          /\ calls'[c].cites = call.cites /\ calls'[c].sound = call.sound
          /\ calls'[c].began = call.began /\ calls'[c].pc = "semantic"
      BY <1>1, <2>1, <2>7, <2>10 DEF Verification
    <3>2. \A j \in 1..Len(answers) :
            Answered("unsupported")[j] \in {"passed", "verified", "weak"} => j # i
      BY <2>7
    <3>3. Judged(calls[c])'
      <4>1. \A j \in 1..Len(answers) :
              Answered("unsupported")[j] \in {"passed", "verified", "weak"} =>
                call.cites[j].id \in call.sound \ call.began
        BY <2>7, <2>9, <3>2
      <4>2. Len(Answered("unsupported")) = Len(answers)
        BY <2>7
      <4> QED
        BY <2>9, <3>1, <4>1, <4>2 DEF Judged, CiteRow
    <3>4. CallPlace(c)'
      BY <3>1, <3>3 DEF CallPlace
    <3>5. calls' \in [Cite!Callers -> {Cite!Idle} \union Draft \union Verification]
          /\ \A d \in Cite!Callers \ {c} : calls'[d] = calls[d]
      BY <1>1, <2>10, <3>1
    <3> QED
      BY <1>1, <2>6, <3>4, <3>5, OneCall
  <2>11. ASSUME answers[i] = "passed", kept # Cite!NoRow,
                NEW verdict \in {"verified", "weak", "unsupported"},
                calls' = [calls EXCEPT ![c].results = Answered(verdict),
                                       ![c].judged = @ \union {i},
                                       ![c].held = [@ EXCEPT ![id] = kept]]
         PROVE  CiteInv'
    <3>1. kept \in CiteRow
      BY <2>8, <2>11
    <3> DEFINE held == [call.held EXCEPT ![id] = kept]
    <3>2. held \in Memory /\ held[id] = kept /\ \A k \in Cite!Ids \ {id} : held[k] = call.held[k]
      BY <2>2, <2>5, <3>1 DEF Memory
    <3>3. call.judged \union {i} \subseteq 1..Len(answers) /\ call.judged \union {i} \subseteq Nat
      BY <2>4, <2>9
    <3>4. \A j \in call.judged \union {i} : held[call.cites[j].id] \in CiteRow
      <4> SUFFICES ASSUME NEW j \in call.judged \union {i} PROVE held[call.cites[j].id] \in CiteRow
        OBVIOUS
      <4>1. j \in 1..Len(call.cites)
        BY <2>9, <3>3
      <4>2. call.cites[j] \in Mapping
        BY <2>2, <4>1, ElementOfSeq
      <4>3. call.cites[j].id \in Cite!Ids
        BY <4>2 DEF Mapping
      <4>4. CASE call.cites[j].id = id
        BY <3>1, <3>2, <4>4
      <4>5. CASE call.cites[j].id # id
        <5>1. j \in call.judged
          BY <4>5
        <5>2. held[call.cites[j].id] = call.held[call.cites[j].id]
          BY <3>2, <4>3, <4>5
        <5>3. call.held[call.cites[j].id] \in CiteRow
          BY <2>9, <5>1
        <5> HIDE DEF held
        <5> QED
          BY <5>2, <5>3
      <4> QED
        BY <4>4, <4>5
    <3> HIDE DEF held
    <3>5. /\ calls'[c] \in Verification /\ calls'[c].results = Answered(verdict)
          /\ calls'[c].judged = call.judged \union {i} /\ calls'[c].held = held
          /\ calls'[c].cites = call.cites /\ calls'[c].sound = call.sound
          /\ calls'[c].began = call.began /\ calls'[c].pc = "semantic"
      BY <1>1, <2>1, <2>7, <2>11, <3>2, <3>3 DEF Verification, held
    <3>6. \A j \in 1..Len(answers) : Answered(verdict)[j] \in {"passed", "verified", "weak"} =>
            call.cites[j].id \in call.sound \ call.began
      <4> SUFFICES ASSUME NEW j \in 1..Len(answers),
                          Answered(verdict)[j] \in {"passed", "verified", "weak"}
                   PROVE  call.cites[j].id \in call.sound \ call.began
        OBVIOUS
      <4>1. CASE j = i
        BY <2>9, <2>11, <4>1
      <4>2. CASE j # i
        BY <2>7, <2>9, <4>2
      <4> QED
        BY <4>1, <4>2
    <3>7. Len(Answered(verdict)) = Len(answers)
      BY <2>7
    <3>8. Judged(calls[c])'
      BY <2>9, <3>3, <3>4, <3>5, <3>6, <3>7 DEF Judged, CiteRow
    <3>9. CallPlace(c)'
      BY <3>5, <3>8 DEF CallPlace
    <3>10. calls' \in [Cite!Callers -> {Cite!Idle} \union Draft \union Verification]
           /\ \A d \in Cite!Callers \ {c} : calls'[d] = calls[d]
      BY <1>1, <2>11, <3>5
    <3> QED
      BY <1>1, <2>6, <3>9, <3>10, OneCall
  <2> QED
    BY <2>6, <2>10, <2>11
<1>10. ASSUME NEW c \in Cite!Callers, Cite!SaveVerdicts(c) PROVE CiteInv'
  <2> DEFINE call == calls[c]
             Of(id) == {i \in call.judged : call.cites[i].id = id}
             Last(id) == Cite!LastOf(Of(id))
             Said(id) == [call.held[id] EXCEPT !.verification = call.results[Last(id)]]
             withdrawn == \E i \in call.judged : evidence[call.cites[i].id] = Cite!NoRow
  <2>1. call \in Verification /\ call.pc = "semantic" /\ Judged(call)
    BY <1>1, <1>2, <1>10 DEF Cite!SaveVerdicts, CallPlace
  <2>2. CASE withdrawn
    <3>1. calls' = [calls EXCEPT ![c] = Cite!Idle] /\ UNCHANGED evidence
      BY <1>10, <2>2 DEF Cite!SaveVerdicts
    <3> QED
      BY <1>1, <1>10, <3>1, OneCall DEF Cite!SaveVerdicts, CallPlace, Cite!Idle
  <2>3. CASE ~withdrawn
    <3>1. calls' = [calls EXCEPT ![c].pc = "done", ![c].held = Cite!NoneHeld, ![c].judged = {}]
          /\ evidence' = [id \in Cite!Ids |->
                 IF Of(id) = {} THEN evidence[id]
                 ELSE Cite!Updated(evidence[id], call.held[id], Said(id))]
          /\ \A i \in 1..Len(call.results) : call.results[i] \in {"verified", "weak", "unsupported"}
      BY <1>10, <2>3 DEF Cite!SaveVerdicts
    <3>2. ASSUME NEW id \in Cite!Ids
          PROVE  /\ evidence'[id] \in CiteRow \union {Cite!NoRow}
                 /\ evidence[id] \in CiteRow /\ evidence[id].status = "stale" =>
                      evidence'[id] \in CiteRow /\ evidence'[id].status = "stale"
      <4>0. evidence[id] \in CiteRow \union {Cite!NoRow}
        BY <1>1 DEF Memory
      <4>1. CASE Of(id) = {}
        BY <3>1, <4>0, <4>1
      <4>2. CASE Of(id) # {}
        <5>1. Last(id) \in Of(id)
          <6>1. Of(id) \in SUBSET (1..Len(call.results)) /\ Len(call.results) \in Nat
            BY <2>1 DEF Judged, Verification
          <6> HIDE DEF Of
          <6> QED
            BY <4>2, <6>1, LargestOf DEF Cite!LastOf
        <5>2. /\ Last(id) \in 1..Len(call.results) /\ evidence[id] # Cite!NoRow
              /\ call.held[id] \in CiteRow
          BY <2>1, <2>3, <5>1 DEF Judged
        <5>3. evidence'[id] = Cite!Updated(evidence[id], call.held[id], Said(id))
              /\ call.results[Last(id)] \in {"verified", "weak", "unsupported"}
          BY <3>1, <4>2, <5>2
        <5> HIDE DEF Last, Of, call
        <5>4. Said(id) \in CiteRow /\ Said(id).status = call.held[id].status
          BY <5>2, <5>3 DEF CiteRow
        <5> HIDE DEF Said
        <5> QED
          BY <4>0, <5>2, <5>3, <5>4, UpdatedRow
      <4> QED
        BY <4>1, <4>2
    <3>3. evidence' \in Memory
      <4>1. evidence' = [id \in Cite!Ids |-> evidence'[id]]
        BY <3>1
      <4> QED
        BY <3>2, <4>1 DEF Memory
    <3>4. Cite!NoneHeld \in Memory
      BY DEF Cite!NoneHeld, Memory
    <3>5. /\ calls'[c] \in Verification /\ calls'[c].pc = "done" /\ calls'[c].judged = {}
          /\ calls'[c].results = call.results /\ calls'[c].cites = call.cites
          /\ calls'[c].sound = call.sound /\ calls'[c].began = call.began
      BY <1>1, <2>1, <3>1, <3>4 DEF Verification
    <3>6. CallPlace(c)'
      BY <2>1, <3>5 DEF CallPlace, Judged
    <3>7. calls' \in [Cite!Callers -> {Cite!Idle} \union Draft \union Verification]
          /\ \A d \in Cite!Callers \ {c} : calls'[d] = calls[d]
      BY <1>1, <3>1, <3>5
    <3>8. UNCHANGED <<parse, member, moves>>
      BY <1>10 DEF Cite!SaveVerdicts
    <3> HIDE DEF call, withdrawn
    <3> QED
      BY <1>1, <3>2, <3>3, <3>6, <3>7, <3>8, OneCall
  <2> QED
    BY <2>2, <2>3
<1>11. ASSUME NEW c \in Cite!Callers, Cite!CitationDies(c) PROVE CiteInv'
  BY <1>1, <1>11, OneCall DEF Cite!CitationDies, CallPlace, Cite!Idle
(* What nobody waits for. *)
<1>12. ASSUME UNCHANGED calls, parse' \in 1..MaxParses, member' \in BOOLEAN, moves' \in 0..MaxMoves,
              evidence' \in Memory,
              \A id \in Cite!Ids : evidence[id] \in CiteRow => evidence'[id] = evidence[id]
       PROVE  CiteInv'
  <2>1. Writer \in Cite!Callers
    BY DEF Cite!Callers
  <2>2. CallPlace(Writer)'
    <3>1. CallPlace(Writer)
      BY <1>1, <2>1
    <3>2. calls[Writer].pc \in {"persist", "integrity", "gates"} => Begun(calls[Writer])'
      <4> SUFFICES ASSUME calls[Writer].pc \in {"persist", "integrity", "gates"}
                   PROVE  Begun(calls[Writer])'
        OBVIOUS
      <4>1. Begun(calls[Writer]) /\ calls[Writer].began \subseteq Cite!Ids
        BY <1>2, <2>1, <3>1 DEF CallPlace, Draft, Verification
      <4>2. \A id \in calls[Writer].began :
              /\ evidence'[id] \in CiteRow /\ evidence'[id].status = "stale"
              /\ calls[Writer].held[id] = Cite!NoRow \/ calls[Writer].held[id].status = "stale"
        BY <1>12, <4>1 DEF Begun
      <4> QED
        BY <1>12, <4>2 DEF Begun, CiteRow, Cite!NoRow
    <3> QED
      BY <1>12, <3>1, <3>2 DEF CallPlace, Judged, CiteRow
  <2> QED
    BY <1>1, <1>12, <2>1, <2>2, OneCall
<1>13. CASE Cite!Reparse \/ Cite!MovePaper
  <2>1. parse' \in 1..MaxParses /\ member' \in BOOLEAN /\ moves' \in 0..MaxMoves
        /\ UNCHANGED <<evidence, calls>>
    <3>1. CASE Cite!Reparse
      BY <1>1, <3>1 DEF Cite!Reparse
    <3>2. CASE Cite!MovePaper
      BY <1>1, <3>2 DEF Cite!MovePaper
    <3> QED
      BY <1>13, <3>1, <3>2
  <2> QED
    BY <1>1, <1>12, <2>1
<1>14. ASSUME NEW chunk \in Chunks, NEW claim \in Claims, Cite!SaveEvidence(chunk, claim)
       PROVE  CiteInv'
  <2>1. <<"user", chunk>> \in Cite!Ids /\ Cite!NewRow(chunk, claim, parse) \in CiteRow
    BY <1>1 DEF Cite!Ids, Cite!NewRow, CiteRow
  <2>2. evidence' = [evidence EXCEPT ![<<"user", chunk>>] = Cite!NewRow(chunk, claim, parse)]
        /\ evidence[<<"user", chunk>>] = Cite!NoRow /\ UNCHANGED <<parse, member, calls, moves>>
    BY <1>14 DEF Cite!SaveEvidence
  <2> QED
    BY <1>1, <1>12, <2>1, <2>2, NoRowIsNone DEF Memory
<1>15. ASSUME NEW id \in Cite!Ids, Cite!DeleteEvidence(id) PROVE CiteInv'
  <2>1. evidence' = [evidence EXCEPT ![id] = Cite!NoRow] /\ UNCHANGED <<parse, member>>
        /\ moves' \in 0..MaxMoves
    BY <1>1, <1>15 DEF Cite!DeleteEvidence
  <2>2. ASSUME NEW c \in Cite!Callers
        PROVE  /\ calls'[c] \in {Cite!Idle} \union Draft \union Verification
               /\ CallPlace(c)'
    <3>1. CASE calls[c].pc = "idle"
      <4>1. calls'[c] = calls[c]
        BY <1>15, <3>1 DEF Cite!DeleteEvidence
      <4> QED
        BY <1>1, <3>1, <4>1 DEF CallPlace
    <3>2. CASE calls[c].pc # "idle"
      <4>1. calls'[c] = [calls[c] EXCEPT !.began = @ \ {id}]
        BY <1>15, <3>2 DEF Cite!DeleteEvidence
      <4>2. calls[c] \in Draft \union Verification
        BY <1>1, <3>2 DEF Cite!Idle
      <4>3. /\ calls'[c] \in Draft \union Verification /\ calls'[c].pc = calls[c].pc
            /\ calls'[c].held = calls[c].held /\ calls'[c].cites = calls[c].cites
            /\ calls'[c].began = calls[c].began \ {id} /\ calls[c].began \subseteq Cite!Ids
        BY <4>1, <4>2 DEF Draft, Verification
      <4>4. calls[c] \in Verification => /\ calls'[c].judged = calls[c].judged
                                         /\ calls'[c].results = calls[c].results
                                         /\ calls'[c].sound = calls[c].sound
        BY <4>1 DEF Verification
      <4>5. calls[c].pc \in {"semantic", "done"} => Judged(calls[c])'
        <5> SUFFICES ASSUME calls[c].pc \in {"semantic", "done"} PROVE Judged(calls[c])'
          OBVIOUS
        <5>1. calls[c] \in Verification
          BY <4>2 DEF Draft
        <5> QED
          BY <1>1, <4>3, <4>4, <5>1 DEF CallPlace, Judged, CiteRow
      <4>6. calls[c].pc \in {"persist", "integrity", "gates"} => Begun(calls[c])'
        <5> SUFFICES ASSUME calls[c].pc \in {"persist", "integrity", "gates"} PROVE Begun(calls[c])'
          OBVIOUS
        <5>1. Begun(calls[c])
          BY <1>1 DEF CallPlace
        <5>2. \A i \in calls'[c].began :
                /\ evidence'[i] \in CiteRow /\ evidence'[i].status = "stale"
                /\ calls'[c].held[i] = Cite!NoRow \/ calls'[c].held[i].status = "stale"
          BY <1>1, <2>1, <4>3, <5>1 DEF Begun, Memory
        <5> QED
          BY <5>2 DEF Begun, CiteRow, Cite!NoRow
      <4>7. calls[c].pc \in {"integrity", "gates"} => calls'[c].judged = {}
        BY <1>1, <1>2, <4>4 DEF CallPlace
      <4>8. calls[c].pc = "persist" => Len(calls'[c].cites) <= Len(calls'[c].draft)
        BY <1>1, <1>2, <4>1, <4>3 DEF CallPlace, Draft
      <4> QED
        BY <4>3, <4>5, <4>6, <4>7, <4>8 DEF CallPlace
    <3> QED
      BY <3>1, <3>2
  <2>3. calls' \in [Cite!Callers -> {Cite!Idle} \union Draft \union Verification]
    <3>1. calls' = [c \in Cite!Callers |-> calls'[c]]
      BY <1>15 DEF Cite!DeleteEvidence
    <3> QED
      BY <2>2, <3>1
  <2>4. evidence' \in Memory
    BY <1>1, <2>1 DEF Memory
  <2>5. CiteTypes'
    BY <1>1, <2>1, <2>3, <2>4 DEF CiteTypes, Memory, Cite!Ids, CiteRow, Cite!NoRow, Cite!Callers,
       Cite!Idle, Draft, Verification, Mapping
  <2> QED
    BY <2>2, <2>5 DEF CiteInv, Cite!Callers
<1> QED
  BY <1>3, <1>4, <1>6, <1>7, <1>8, <1>9, <1>10, <1>11, <1>13, <1>14, <1>15, <1>16
     DEF Cite!CitationNext

-----------------------------------------------------------------------------
(* ManuscriptWorkflow *)

Blueprint == [sections : SUBSET Sections, design : Nat]
Section   == [text : Nat, cites : SUBSET Papers, located : BOOLEAN, open : BOOLEAN,
              result : 0..MaxResults]
Report    == [version : 0..MaxFull, blocked : BOOLEAN,
              of : Paper!FullDraft \union {None}]
Locked    == [version : 1..MaxFull, cites : SUBSET Papers, open : BOOLEAN]

PaperTypes ==
  /\ library \in SUBSET Papers /\ carded \in SUBSET library /\ outputs \in SUBSET Outputs
  /\ designed \in 0..MaxDesigns
  /\ designs \in Seq([id : 1..designed, needs : BOOLEAN])
  /\ results \in [1..MaxResults -> 0..MaxDesigns]
  /\ blueprint \in Blueprint \union {None}
  /\ drafts \in [Sections -> Section \union {None}]
  /\ refs \in Paper!Reference \union {None}
  /\ full \in Paper!FullDraft \union {None}
  /\ report \in Report \union {None}
  /\ final \in Locked \union {None}
  /\ full # None => full.version \in 1..MaxFull

(* The last report of the audit tool is of an earlier version of the full   *)
(* draft or of the draft as it is: what writes it over is a new version.    *)
ReportIsOfDraft ==
  report # None =>
    /\ full # None
    /\ report.of # None =>
         /\ report.version <= full.version
         /\ report.version = full.version /\ full.whole => report.of = full

(* A full draft that was assembled and is whole says itself whether a part  *)
(* of it is open, and the list it was made with, if it is still the last    *)
(* one, has what it cites.                                                  *)
DraftKnowsItself ==
  full # None /\ full.whole /\ Paper!Assembled =>
    /\ ~full.open => \A s \in DOMAIN full.parts : ~full.parts[s].open
    /\ refs # None /\ full.listed <= refs.version
    /\ full.listed = refs.version => Paper!Cited(full.parts) \subseteq refs.entries

PaperInv == PaperTypes /\ ReportIsOfDraft /\ DraftKnowsItself

LEMMA PaperNumbers ==
  /\ MaxDesigns \in Nat /\ MaxResults \in Nat /\ MaxText \in Nat /\ MaxFull \in Nat
  /\ MaxRefs \in Nat /\ None \notin Paper!Reference /\ None \notin Paper!FullDraft
BY RequestsAssumption DEF Paper!ManuscriptAssumption

LEMMA PaperShows ==
  ASSUME PaperInv
  PROVE  Paper!ManuscriptTypeOK
<1> USE DEF PaperInv, PaperTypes
<1>1. Paper!DesignIds \subseteq 1..designed
  <2>1. \A i \in 1..Len(designs) : designs[i] \in [id : 1..designed, needs : BOOLEAN]
    BY ElementOfSeq
  <2> QED
    BY <2>1 DEF Paper!DesignIds
<1>2. blueprint # None => blueprint.sections \subseteq Sections
  BY DEF Blueprint
<1>3. \A s \in Paper!Drafted : drafts[s].cites \subseteq Papers
  BY DEF Paper!Drafted, Section
<1>4. refs # None => refs.entries \subseteq Papers
  BY DEF Paper!Reference
<1>5. final # None => final.version \in 1..MaxFull
  BY DEF Locked
<1>6. report # None => full # None /\ report.version \in 0..MaxFull
  BY DEF ReportIsOfDraft, Report
<1> QED
  BY <1>1, <1>2, <1>3, <1>4, <1>5, <1>6 DEF Paper!ManuscriptTypeOK

LEMMA PaperInit ==
  ASSUME Paper!ManuscriptInit
  PROVE  PaperInv
BY PaperNumbers DEF Paper!ManuscriptInit, PaperInv, PaperTypes, ReportIsOfDraft, DraftKnowsItself

(* What is locked is sound: the gate of the last step, and what a full      *)
(* draft knows of itself.                                                  *)
LEMMA PaperLocks ==
  ASSUME PaperInv, Paper!Finalize
  PROVE  /\ ~report.blocked /\ report.of \in {full, None}
         /\ Paper!Assembled => ~final'.open /\ final'.cites \subseteq refs.entries
<1>1. Paper!MayFinalize /\ final'.version = full.version
      /\ final'.cites = Paper!Cited(full.parts)
      /\ final'.open = \E s \in DOMAIN full.parts : full.parts[s].open
  BY DEF Paper!Finalize
<1> QED
  BY <1>1 DEF Paper!MayFinalize, PaperInv, DraftKnowsItself, ReportIsOfDraft

(* The sections of the full draft and what they cite.                       *)
LEMMA PaperCites ==
  ASSUME PaperInv, full # None
  PROVE  Paper!Cited(full.parts) \in SUBSET Papers
<1>1. full.parts \in UNION {[some -> Paper!Part] : some \in SUBSET Sections}
  BY DEF PaperInv, PaperTypes, Paper!FullDraft
<1>2. PICK some \in SUBSET Sections : full.parts \in [some -> Paper!Part]
  BY <1>1
<1>3. \A s \in some : full.parts[s].cites \subseteq Papers
  BY <1>2 DEF Paper!Part
<1> QED
  BY <1>2, <1>3 DEF Paper!Cited

LEMMA PaperStepInv ==
  ASSUME PaperInv, Paper!ManuscriptStep
  PROVE  PaperInv'
<1> USE PaperNumbers
<1>0. Paper!ManuscriptNext /\ (full' # None => full'.version <= MaxFull)
  BY DEF Paper!ManuscriptStep, Paper!Bounded
<1>1. PaperTypes /\ ReportIsOfDraft /\ DraftKnowsItself
  BY DEF PaperInv
<1>2. ASSUME UNCHANGED <<full, report, final, refs>>,
             library' \in SUBSET Papers /\ carded' \in SUBSET library' /\ outputs' \in SUBSET Outputs,
             designed' \in 0..MaxDesigns, designs' \in Seq([id : 1..designed', needs : BOOLEAN]),
             results' \in [1..MaxResults -> 0..MaxDesigns],
             blueprint' \in Blueprint \union {None}, drafts' \in [Sections -> Section \union {None}]
      PROVE  PaperInv'
  BY <1>1, <1>2 DEF PaperInv, PaperTypes, ReportIsOfDraft, DraftKnowsItself, Paper!Cited, Paper!Assembled, Report
<1>3. ASSUME NEW p \in Papers, Paper!AddPaper(p) \/ Paper!RemovePaper(p) \/ Paper!SavePaperCard(p)
      PROVE  PaperInv'
  <2>1. library' \in SUBSET Papers /\ carded' \in SUBSET library'
    BY <1>1, <1>3 DEF PaperTypes, Paper!AddPaper, Paper!RemovePaper, Paper!SavePaperCard
  <2> QED
    BY <1>1, <1>2, <1>3, <2>1 DEF PaperTypes, Paper!AddPaper, Paper!RemovePaper, Paper!SavePaperCard
<1>4. ASSUME NEW type \in Outputs, Paper!SaveOutput(type) PROVE PaperInv'
  BY <1>1, <1>2, <1>4 DEF PaperTypes, Paper!SaveOutput
<1>5. \A id : Paper!Others(id) \in Seq([id : 1..designed, needs : BOOLEAN])
  <2> DEFINE Design == [id : 1..designed, needs : BOOLEAN]
  <2> SUFFICES ASSUME NEW id PROVE Paper!Others(id) \in Seq(Design)
    OBVIOUS
  <2>1. designs \in Seq(Design)
    BY <1>1 DEF PaperTypes
  <2>2. CASE id \notin Paper!DesignIds
    BY <2>1, <2>2 DEF Paper!Others
  <2>3. CASE id \in Paper!DesignIds
    <3> DEFINE i == CHOOSE k \in 1..Len(designs) : designs[k].id = id
    <3>1. i \in 1..Len(designs)
      BY <2>3 DEF Paper!DesignIds
    <3> HIDE DEF i, Design
    <3>2. SubSeq(designs, 1, i - 1) \in Seq(Design) /\ SubSeq(designs, i + 1, Len(designs)) \in Seq(Design)
      BY <2>1, <3>1
    <3>3. Paper!Others(id) = SubSeq(designs, 1, i - 1) \o SubSeq(designs, i + 1, Len(designs))
      BY <2>3 DEF Paper!Others, i
    <3> QED
      BY <3>2, <3>3
  <2> QED
    BY <2>2, <2>3
<1>6. ASSUME NEW id \in 1..MaxDesigns, NEW needs \in BOOLEAN, Paper!SaveDesign(id, needs)
      PROVE  PaperInv'
  <2>1. designs' = Append(Paper!Others(id), [id |-> id, needs |-> needs])
        /\ designed' = (IF id > designed THEN id ELSE designed)
    BY <1>6 DEF Paper!SaveDesign
  <2>2. designed' \in 0..MaxDesigns /\ designed <= designed' /\ id <= designed'
        /\ designed \in Nat /\ designed' \in Nat
    BY <1>1, <2>1 DEF PaperTypes
  <2>3. [id : 1..designed, needs : BOOLEAN] \subseteq [id : 1..designed', needs : BOOLEAN]
    BY <2>2
  <2>4. Paper!Others(id) \in Seq([id : 1..designed', needs : BOOLEAN])
    BY <1>5, <2>3, SeqMonotonic
  <2>5. [id |-> id, needs |-> needs] \in [id : 1..designed', needs : BOOLEAN]
    BY <2>2
  <2>6. designs' \in Seq([id : 1..designed', needs : BOOLEAN])
    BY <2>1, <2>4, <2>5
  <2> QED
    BY <1>1, <1>2, <1>6, <2>2, <2>6 DEF PaperTypes, Paper!SaveDesign

<1>7. ASSUME NEW id \in 1..MaxDesigns, NEW r \in 1..MaxResults, Paper!SaveResults(r, id)
      PROVE  PaperInv'
  <2>1. results' \in [1..MaxResults -> 0..MaxDesigns]
    BY <1>1, <1>7 DEF PaperTypes, Paper!SaveResults
  <2> QED
    BY <1>1, <1>2, <1>7, <2>1 DEF PaperTypes, Paper!SaveResults
<1>8. ASSUME NEW planned \in Paper!Plans, Paper!SaveBlueprint(planned) PROVE PaperInv'
  <2>1. planned \in SUBSET Sections
    BY DEF Paper!Plans
  <2>2. designs # <<>> => designs[Len(designs)].id \in Nat
    <3> SUFFICES ASSUME designs # <<>> PROVE designs[Len(designs)].id \in Nat
      OBVIOUS
    <3>1. designs \in Seq([id : 1..designed, needs : BOOLEAN])
      BY <1>1 DEF PaperTypes
    <3>2. Len(designs) \in 1..Len(designs)
      BY <3>1, EmptySeq
    <3>3. designs[Len(designs)] \in [id : 1..designed, needs : BOOLEAN]
      BY <3>1, <3>2, ElementOfSeq
    <3> QED
      BY <3>3
  <2>3. blueprint' \in Blueprint
    BY <1>8, <2>1, <2>2 DEF Paper!SaveBlueprint, Blueprint
  <2> QED
    BY <1>1, <1>2, <1>8, <2>3 DEF PaperTypes, Paper!SaveBlueprint
<1>9. \A s \in Sections : drafts[s] # None => drafts[s] \in Section
  BY <1>1 DEF PaperTypes
<1>10. ASSUME NEW s \in Sections, NEW in \in Paper!SectionInputs, Paper!SaveSection(s, in)
       PROVE  PaperInv'
  <2> DEFINE new == Paper!Rewritten(in, IF drafts[s] = None THEN 1 ELSE drafts[s].text + 1)
  <2>1. in \in [cites : SUBSET Papers, located : BOOLEAN, open : BOOLEAN, result : 0..MaxResults]
    BY DEF Paper!SectionInputs
  <2>2. new \in Section
    BY <1>9, <2>1 DEF Section, Paper!Rewritten
  <2>3. drafts' = [drafts EXCEPT ![s] = new]
    BY <1>10 DEF Paper!SaveSection
  <2> HIDE DEF new
  <2>4. drafts' \in [Sections -> Section \union {None}]
    BY <1>1, <2>2, <2>3 DEF PaperTypes
  <2> QED
    BY <1>1, <1>2, <1>10, <2>4 DEF PaperTypes, Paper!SaveSection
<1>11. Paper!Cited(Paper!Current) \in SUBSET Papers
  BY <1>9 DEF Paper!Cited, Paper!Current, Paper!Drafted, Section
<1>12. ASSUME refs' \in Paper!Reference, refs # None => refs'.version = refs.version + 1,
              UNCHANGED <<library, carded, outputs, designs, designed, results, blueprint, drafts,
                          full, report, final>>
       PROVE  PaperInv'
  <2>1. full # None /\ full.whole /\ Paper!Assembled =>
          full.listed # refs'.version /\ full.listed <= refs'.version
    BY <1>1, <1>12 DEF DraftKnowsItself, PaperTypes, Paper!FullDraft, Paper!Reference
  <2>2. refs' # None
    BY <1>12
  <2>3. PaperTypes' /\ ReportIsOfDraft'
    BY <1>1, <1>12 DEF PaperTypes, ReportIsOfDraft, Report
  <2>4. DraftKnowsItself'
    BY <1>1, <1>12, <2>1, <2>2 DEF DraftKnowsItself, Paper!Assembled
  <2> QED
    BY <2>3, <2>4 DEF PaperInv
<1>13. CASE Paper!BuildReferences
  <2>1. refs # None => refs.version \in Nat
    BY <1>1 DEF PaperTypes, Paper!Reference
  <2>2. refs' \in Paper!Reference /\ (refs # None => refs'.version = refs.version + 1)
    BY <1>11, <1>13, <2>1 DEF Paper!BuildReferences, Paper!Reference
  <2> QED
    BY <1>12, <1>13, <2>2 DEF Paper!BuildReferences
(* A full draft that takes the place of the last one. *)
<1>14. ASSUME full' \in Paper!FullDraft, full'.version = Paper!NextVersion,
              full'.whole /\ DOMAIN full'.parts # {} =>
                /\ ~full'.open => \A s \in DOMAIN full'.parts : ~full'.parts[s].open
                /\ refs # None /\ full'.listed <= refs.version
                /\ full'.listed = refs.version => Paper!Cited(full'.parts) \subseteq refs.entries,
              UNCHANGED <<library, carded, outputs, designs, designed, results, blueprint, drafts,
                          refs, report, final>>
       PROVE  PaperInv'
  <2>1. full' # None
    BY <1>14
  <2>2. full # None => full.version \in 1..MaxFull
    BY <1>1 DEF PaperTypes
  <2>3. full'.version \in 1..MaxFull /\ (full # None => full.version < full'.version)
    BY <1>0, <1>14, <2>1, <2>2 DEF Paper!NextVersion
  <2>4. PaperTypes'
    BY <1>1, <1>14, <2>3 DEF PaperTypes, Report
  <2>5. report # None /\ report.of # None => report.version < full'.version
    BY <1>1, <2>2, <2>3 DEF ReportIsOfDraft, PaperTypes, Report
  <2>6. ReportIsOfDraft'
    <3>1. report # None => report.version \in Nat
      BY <1>1 DEF PaperTypes, Report
    <3> QED
      BY <1>14, <2>1, <2>3, <2>5, <3>1 DEF ReportIsOfDraft
  <2>7. DraftKnowsItself'
    BY <1>14 DEF DraftKnowsItself, Paper!Cited, Paper!Assembled
  <2> QED
    BY <2>4, <2>6, <2>7 DEF PaperInv
<1>15. Paper!NextVersion \in Nat
  BY <1>1 DEF Paper!NextVersion, PaperTypes
<1>16. ASSUME NEW tolerant \in BOOLEAN, Paper!Assemble(tolerant) PROVE PaperInv'
  <2> DEFINE parts == [s \in blueprint.sections |-> Paper!Text(s)]
             open  == \E s \in Paper!Drafted : drafts[s].open
  <2>1. /\ blueprint # None /\ blueprint.sections \subseteq Paper!Drafted /\ refs # None
        /\ Paper!Cited(parts) \subseteq refs.entries
        /\ full' = [version |-> Paper!NextVersion, parts |-> parts, open |-> open,
                    listed |-> refs.version, whole |-> TRUE]
        /\ UNCHANGED <<library, carded, outputs, designs, designed, results, blueprint, drafts,
                       refs, report, final>>
    BY <1>16 DEF Paper!Assemble
  <2>2. blueprint.sections \in SUBSET Sections
    BY <2>1 DEF Paper!Drafted
  <2>3. \A s \in blueprint.sections : Paper!Text(s) \in Paper!Part /\ (Paper!Text(s).open <=> drafts[s].open)
    BY <1>9, <2>1 DEF Paper!Drafted, Paper!Text, Paper!Part, Section
  <2>4. parts \in [blueprint.sections -> Paper!Part]
    BY <2>3
  <2>5. ~open => \A s \in blueprint.sections : ~parts[s].open
    BY <2>1, <2>3
  <2>6. refs.version \in Nat
    BY <1>1, <2>1 DEF PaperTypes, Paper!Reference
  <2> HIDE DEF parts
  <2>7. parts \in UNION {[some -> Paper!Part] : some \in SUBSET Sections}
    BY <2>2, <2>4
  <2>8. full' \in Paper!FullDraft
    BY <1>15, <2>1, <2>6, <2>7 DEF Paper!FullDraft
  <2>9. DOMAIN parts = blueprint.sections
    BY <2>4
  <2> HIDE DEF open
  <2>10. full'.parts = parts /\ full'.open = open /\ full'.listed = refs.version
         /\ full'.version = Paper!NextVersion
    BY <2>1
  <2> QED
    BY <1>14, <2>1, <2>5, <2>6, <2>8, <2>9, <2>10
<1>17. ASSUME NEW bad \in BOOLEAN, Paper!Audit(bad) PROVE PaperInv'
  <2>1. full # None /\ report' = [version |-> full.version, blocked |-> bad \/ Paper!Blocked,
                                  of |-> full]
    BY <1>17 DEF Paper!Audit
  <2>2. full.version \in 1..MaxFull /\ full \in Paper!FullDraft
    BY <1>1, <2>1 DEF PaperTypes
  <2>3. Paper!Blocked \in BOOLEAN
    BY DEF Paper!Blocked
  <2>4. report' \in Report /\ report'.version = full.version /\ report'.of = full
    BY <2>1, <2>2, <2>3 DEF Report
  <2>5. UNCHANGED <<library, carded, outputs, designs, designed, results, blueprint, drafts, refs,
                    full, final>>
    BY <1>17 DEF Paper!Audit
  <2>6. PaperTypes'
    BY <1>1, <2>4, <2>5 DEF PaperTypes, Report
  <2>7. ReportIsOfDraft'
    BY <2>1, <2>2, <2>4, <2>5 DEF ReportIsOfDraft
  <2>8. DraftKnowsItself'
    BY <1>1, <2>5 DEF DraftKnowsItself, Paper!Cited, Paper!Assembled
  <2> QED
    BY <2>6, <2>7, <2>8 DEF PaperInv
<1>18. CASE Paper!Finalize
  <2>1. full # None /\ final' = [version |-> full.version, cites |-> Paper!Cited(full.parts),
               open |-> \E s \in DOMAIN full.parts : full.parts[s].open]
    BY <1>18 DEF Paper!Finalize, Paper!MayFinalize
  <2>2. full.version \in 1..MaxFull
    BY <1>1, <2>1 DEF PaperTypes
  <2>3. Paper!Cited(full.parts) \in SUBSET Papers
    BY <2>1, PaperCites
  <2>4. final' \in Locked
    BY <2>1, <2>2, <2>3 DEF Locked
  <2> QED
    BY <1>1, <1>18, <2>4
       DEF PaperInv, PaperTypes, ReportIsOfDraft, DraftKnowsItself, Paper!Finalize, Paper!Cited,
           Paper!Assembled, Report
(* What somebody writes. *)
<1>19. \A number \in Nat, content \in Contents :
         /\ Paper!Written(number, content) \in Paper!FullDraft
         /\ Paper!Written(number, content).version = number
         /\ DOMAIN Paper!Written(number, content).parts = {}
  <2>1. <<>> \in [{} -> Paper!Part]
    OBVIOUS
  <2>2. <<>> \in UNION {[some -> Paper!Part] : some \in SUBSET Sections}
    BY <2>1
  <2>3. \A content \in Contents : content \in [open : BOOLEAN, listed : Nat, whole : BOOLEAN]
    BY RequestsAssumption DEF Paper!ManuscriptAssumption
  <2> QED
    BY <2>1, <2>2, <2>3 DEF Paper!FullDraft, Paper!Written
<1>20. Paper!WrittenBlueprints \subseteq Blueprint
  BY DEF Paper!WrittenBlueprints, Blueprint
<1>22. CASE Paper!SaveArtifact
  <2>1. CASE /\ \E content \in Contents : full' = Paper!Written(Paper!NextVersion, content)
             /\ UNCHANGED <<library, carded, outputs, designs, designed, results,
                            blueprint, drafts, refs, report, final>>
    <3>1. /\ full' \in Paper!FullDraft /\ full'.version = Paper!NextVersion
          /\ DOMAIN full'.parts = {}
      BY <1>15, <1>19, <2>1
    <3> QED
      BY <1>14, <2>1, <3>1
  <2>2. CASE /\ refs # None
             /\ \E entries \in SUBSET Papers :
                  refs' = [entries |-> entries, version |-> refs.version + 1]
             /\ UNCHANGED <<library, carded, outputs, designs, designed, results,
                            blueprint, drafts, full, report, final>>
    <3>1. refs.version \in Nat
      BY <1>1, <2>2 DEF PaperTypes, Paper!Reference
    <3>2. refs' \in Paper!Reference /\ refs'.version = refs.version + 1
      BY <2>2, <3>1 DEF Paper!Reference
    <3> QED
      BY <1>12, <2>2, <3>2
  <2>3. CASE /\ blueprint' \in Paper!WrittenBlueprints
             /\ UNCHANGED <<library, carded, outputs, designs, designed, results, drafts,
                            refs, full, report, final>>
    BY <1>1, <1>2, <1>20, <2>3 DEF PaperTypes
  <2>4. CASE /\ report # None
             /\ \E number \in 0..MaxFull, stopped \in BOOLEAN :
                  report' = [version |-> number, blocked |-> stopped, of |-> None]
             /\ UNCHANGED <<library, carded, outputs, designs, designed, results,
                            blueprint, drafts, refs, full, final>>
    <3>1. report' \in Report /\ report'.of = None
      BY <2>4 DEF Report
    <3>2. PaperTypes'
      BY <1>1, <2>4, <3>1 DEF PaperTypes, Report
    <3>3. ReportIsOfDraft'
      BY <1>1, <2>4, <3>1 DEF ReportIsOfDraft
    <3>4. DraftKnowsItself'
      BY <1>1, <2>4 DEF DraftKnowsItself, Paper!Cited, Paper!Assembled
    <3> QED
      BY <3>2, <3>3, <3>4 DEF PaperInv
  <2>5. CASE /\ \E type \in Outputs : outputs' = outputs \union {type}
             /\ UNCHANGED <<library, carded, designs, designed, results, blueprint,
                            drafts, refs, full, report, final>>
    BY <1>1, <1>2, <2>5 DEF PaperTypes
  <2> QED
    BY <1>22, <2>1, <2>2, <2>3, <2>4, <2>5 DEF Paper!SaveArtifact
<1>23. CASE Paper!CreateArtifact
  <2>1. /\ \E content \in Contents : full' = Paper!Written(1, content)
        /\ report' = None
        /\ UNCHANGED <<library, carded, outputs, designs, designed, results, blueprint,
                       drafts, refs, final>>
    BY <1>23 DEF Paper!CreateArtifact
  <2>2. full' \in Paper!FullDraft /\ full'.version = 1 /\ DOMAIN full'.parts = {}
    BY <1>19, <2>1
  <2>3. full'.version \in 1..MaxFull
    BY <1>0, <2>2
  <2>4. PaperTypes'
    BY <1>1, <2>1, <2>2, <2>3 DEF PaperTypes, Report
  <2> QED
    BY <2>1, <2>2, <2>4 DEF PaperInv, ReportIsOfDraft, DraftKnowsItself, Paper!Assembled
<1>24. CASE Paper!EditArtifact
  <2>1. CASE /\ full # None
             /\ \E content \in Contents : full' = Paper!Written(full.version + 1, content)
             /\ UNCHANGED <<library, carded, outputs, designs, designed, results,
                            blueprint, drafts, refs, report, final>>
    <3>1. /\ full' \in Paper!FullDraft /\ full'.version = Paper!NextVersion
          /\ DOMAIN full'.parts = {}
      BY <1>15, <1>19, <2>1 DEF Paper!NextVersion
    <3> QED
      BY <1>14, <2>1, <3>1
  <2>2. CASE /\ \E s \in Paper!Drafted, in \in Paper!SectionInputs :
                  \E new \in drafts[s].text..drafts[s].text + 1 :
                    drafts' = [drafts EXCEPT ![s] = Paper!Rewritten(in, new)]
             /\ UNCHANGED <<library, carded, outputs, designs, designed, results,
                            blueprint, refs, full, report, final>>
    <3>1. PICK s \in Paper!Drafted, in \in Paper!SectionInputs :
                 \E new \in drafts[s].text..drafts[s].text + 1 :
                   drafts' = [drafts EXCEPT ![s] = Paper!Rewritten(in, new)]
      BY <2>2
    <3>2. PICK new \in drafts[s].text..drafts[s].text + 1 :
                 drafts' = [drafts EXCEPT ![s] = Paper!Rewritten(in, new)]
      BY <3>1
    <3>3. s \in Sections /\ drafts[s].text \in Nat
      BY <1>9 DEF Paper!Drafted, Section
    <3>4. Paper!Rewritten(in, new) \in Section
      BY <3>2, <3>3 DEF Section, Paper!Rewritten, Paper!SectionInputs
    <3>5. drafts' \in [Sections -> Section \union {None}]
      BY <1>1, <3>2, <3>3, <3>4 DEF PaperTypes
    <3> QED
      BY <1>1, <1>2, <2>2, <3>5 DEF PaperTypes
  <2>3. CASE /\ \E id \in Paper!DesignIds, needs \in BOOLEAN :
                  designs' = Append(Paper!Others(id), [id |-> id, needs |-> needs])
             /\ UNCHANGED <<library, carded, outputs, designed, results, blueprint,
                            drafts, refs, full, report, final>>
    <3>1. PICK id \in Paper!DesignIds, needs \in BOOLEAN :
                 designs' = Append(Paper!Others(id), [id |-> id, needs |-> needs])
      BY <2>3
    <3>2. PICK k \in 1..Len(designs) : designs[k].id = id
      BY <3>1 DEF Paper!DesignIds
    <3>3. designs \in Seq([id : 1..designed, needs : BOOLEAN])
      BY <1>1 DEF PaperTypes
    <3>4. designs[k] \in [id : 1..designed, needs : BOOLEAN]
      BY <3>2, <3>3, ElementOfSeq
    <3>5. [id |-> id, needs |-> needs] \in [id : 1..designed, needs : BOOLEAN]
      BY <3>2, <3>4
    <3>6. designs' \in Seq([id : 1..designed, needs : BOOLEAN])
      <4>1. \A S, e : \A q \in Seq(S) : e \in S => Append(q, e) \in Seq(S)
        OBVIOUS
      <4> QED
        BY <1>5, <3>1, <3>5, <4>1
    <3> QED
      BY <1>1, <1>2, <2>3, <3>6 DEF PaperTypes
  <2>4. CASE /\ blueprint' \in Paper!WrittenBlueprints
             /\ UNCHANGED <<library, carded, outputs, designs, designed, results, drafts,
                            refs, full, report, final>>
    BY <1>1, <1>2, <1>20, <2>4 DEF PaperTypes
  <2> QED
    BY <1>24, <2>1, <2>2, <2>3, <2>4 DEF Paper!EditArtifact
<1>21. CASE Paper!DeleteArtifact
  <2>1. CASE /\ full' = None /\ report' = None
             /\ UNCHANGED <<library, carded, outputs, designs, designed, results,
                            blueprint, drafts, refs, final>>
    BY <1>1, <2>1 DEF PaperInv, PaperTypes, ReportIsOfDraft, DraftKnowsItself, Report
  <2>2. CASE /\ \E s \in Paper!Drafted : drafts' = [drafts EXCEPT ![s] = None]
             /\ UNCHANGED <<library, carded, outputs, designs, designed, results,
                            blueprint, refs, full, report, final>>
    <3>1. drafts' \in [Sections -> Section \union {None}]
      BY <1>1, <2>2 DEF PaperTypes
    <3> QED
      BY <1>1, <1>2, <2>2, <3>1 DEF PaperTypes
  <2>3. CASE /\ \E id \in Paper!DesignIds : designs' = Paper!Others(id)
             /\ UNCHANGED <<library, carded, outputs, designed, results, blueprint,
                            drafts, refs, full, report, final>>
    BY <1>1, <1>2, <1>5, <2>3 DEF PaperTypes
  <2>4. CASE /\ blueprint' = None /\ drafts' = [s \in Sections |-> None] /\ refs' = None
             /\ full' = (IF full = None THEN None ELSE [full EXCEPT !.whole = FALSE])
             /\ UNCHANGED <<library, carded, outputs, designs, designed, results,
                            report, final>>
    <3>1. full # None => full \in Paper!FullDraft
      BY <1>1 DEF PaperTypes
    <3>2. full # None => full' \in Paper!FullDraft /\ full'.version = full.version /\ ~full'.whole
      BY <2>4, <3>1 DEF Paper!FullDraft
    <3>3. PaperTypes'
      BY <1>1, <2>4, <3>2 DEF PaperTypes, Report
    <3>4. ReportIsOfDraft'
      BY <1>1, <2>4, <3>2 DEF ReportIsOfDraft
    <3>5. DraftKnowsItself'
      BY <2>4, <3>2 DEF DraftKnowsItself
    <3> QED
      BY <3>3, <3>4, <3>5 DEF PaperInv
  <2> QED
    BY <1>21, <2>1, <2>2, <2>3, <2>4 DEF Paper!DeleteArtifact
<1> QED
  BY <1>0, <1>3, <1>4, <1>6, <1>7, <1>8, <1>10, <1>13, <1>16, <1>17, <1>18, <1>21, <1>22, <1>23, <1>24
     DEF Paper!ManuscriptNext

(* Only the last step locks a text. *)
LEMMA OnlyFinalizeLocks ==
  ASSUME Paper!ManuscriptStep, final' # final
  PROVE  Paper!Finalize
BY DEF Paper!ManuscriptStep, Paper!ManuscriptNext, Paper!AddPaper, Paper!RemovePaper,
   Paper!SavePaperCard, Paper!SaveOutput, Paper!SaveDesign, Paper!SaveResults,
   Paper!SaveBlueprint, Paper!SaveSection, Paper!BuildReferences, Paper!Assemble, Paper!Audit,
   Paper!SaveArtifact, Paper!CreateArtifact, Paper!EditArtifact, Paper!DeleteArtifact

-----------------------------------------------------------------------------
(* WritingDesk *)

DeskText  == [Desk!Passages -> Nat]
Selection == [passage : Desk!Passages, padded : BOOLEAN]
Rewrite   == [document : Documents, base : Documents \X Nat, version : Nat,
              selection : Selection, of : DeskText, at : {"sent", "writing"}]
Proposal  == [base : Documents \X Nat, version : Nat, selection : Selection,
              of : DeskText, original : Nat \X {FALSE}]
DeskSave  == [document : Documents, text : DeskText, version : 0..MaxRevisions]

DeskTypes ==
  /\ revisions \in [Documents -> Seq(DeskText)]
  /\ \A d \in Documents : Len(revisions[d]) \in 1..MaxRevisions
  /\ document \in Documents /\ known \in Documents \X Nat
  /\ text \in DeskText /\ version \in Nat
  /\ changes \in 0..MaxChanges /\ asked \in 0..MaxProposals
  /\ selection = None \/ selection \in Selection
  /\ requests \in SUBSET Rewrite /\ saves \in SUBSET DeskSave
  /\ proposal = None \/ proposal \in Proposal

(* What was asked of the content the editor still has is of that content.   *)
RequestIsOfEditor(r) ==
  /\ r.version <= version
  /\ r.version = version => r.of = text /\ r.document = document
  /\ r.at = "writing" => r.base[1] = r.document

ProposalIsOfEditor ==
  proposal # None =>
    /\ proposal.version <= version
    /\ proposal.version = version => proposal.of = text /\ proposal.base[1] = document

DeskCore == DeskTypes /\ (\A r \in requests : RequestIsOfEditor(r)) /\ ProposalIsOfEditor

DeskInv == DeskCore /\ saving \in BOOLEAN

LEMMA DeskNumbers ==
  MaxChanges \in Nat /\ MaxRevisions \in Nat \ {0} /\ MaxVersion \in Nat /\ MaxProposals \in Nat
BY RequestsAssumption DEF Desk!DeskAssumption

LEMMA DeskShows ==
  ASSUME DeskInv
  PROVE  Desk!DeskTypeOK
BY DEF DeskInv, DeskCore, DeskTypes, Desk!DeskTypeOK, Selection, DeskSave

LEMMA DeskInit ==
  ASSUME Desk!DeskInit
  PROVE  DeskInv
<1>1. Desk!Empty \in DeskText
  BY DEF Desk!Empty, DeskText
<1>2. <<Desk!Empty>> \in Seq(DeskText) /\ Len(<<Desk!Empty>>) = 1
  BY <1>1
<1> HIDE DEF Desk!Empty
<1>3. document \in Documents /\ known = <<document, 1>>
  BY <1>2 DEF Desk!DeskInit, Desk!Current
<1>4. /\ revisions \in [Documents -> Seq(DeskText)]
      /\ \A d \in Documents : Len(revisions[d]) \in 1..MaxRevisions
  BY <1>2, DeskNumbers DEF Desk!DeskInit
<1>5. DeskTypes
  BY <1>1, <1>3, <1>4, DeskNumbers DEF Desk!DeskInit, DeskTypes
<1> QED
  BY <1>5 DEF Desk!DeskInit, DeskInv, DeskCore, ProposalIsOfEditor

LEMMA DeskStepInv ==
  ASSUME DeskInv, Desk!DeskNext
  PROVE  DeskInv' /\ \A d \in Documents : SubSeq(revisions'[d], 1, Len(revisions[d])) = revisions[d]
<1> USE DeskNumbers
<1>0. /\ DeskTypes /\ (\A r \in requests : RequestIsOfEditor(r)) /\ ProposalIsOfEditor
      /\ version \in Nat /\ text \in DeskText /\ requests \in SUBSET Rewrite
      /\ revisions \in [Documents -> Seq(DeskText)] /\ document \in Documents
      /\ saves \in SUBSET DeskSave /\ changes \in 0..MaxChanges
  BY DEF DeskInv, DeskCore, DeskTypes
<1> DEFINE Stay == \A d \in Documents : SubSeq(revisions'[d], 1, Len(revisions[d])) = revisions[d]
<1>1. ASSUME UNCHANGED revisions PROVE Stay
  BY <1>0, <1>1, SubSeqFull
<1>2. ASSUME NEW d \in Documents, NEW new \in DeskText, Len(revisions[d]) < MaxRevisions,
             revisions' = [revisions EXCEPT ![d] = Append(revisions[d], new)]
      PROVE  /\ Stay /\ revisions' \in [Documents -> Seq(DeskText)]
             /\ \A e \in Documents : Len(revisions'[e]) \in 1..MaxRevisions
  <2>1. /\ Append(revisions[d], new) \in Seq(DeskText)
        /\ Len(Append(revisions[d], new)) = Len(revisions[d]) + 1
        /\ \A i \in 1..Len(revisions[d]) : Append(revisions[d], new)[i] = revisions[d][i]
    BY <1>0
  <2>2. Len(revisions[d]) \in 1..MaxRevisions
    BY <1>0 DEF DeskTypes
  <2>3. SubSeq(Append(revisions[d], new), 1, Len(revisions[d])) = revisions[d]
    <3>1. revisions[d] \in Seq(DeskText)
      BY <1>0
    <3>2. SubSeq(revisions[d] \o <<new>>, 1, Len(revisions[d])) = SubSeq(revisions[d], 1, Len(revisions[d]))
      BY <2>2, <3>1, SubSeqOfConcat1
    <3>3. Append(revisions[d], new) = revisions[d] \o <<new>>
      BY <3>1
    <3> QED
      BY <3>1, <3>2, <3>3, SubSeqFull
  <2>4. ASSUME NEW e \in Documents
        PROVE  /\ SubSeq(revisions'[e], 1, Len(revisions[e])) = revisions[e]
               /\ Len(revisions'[e]) \in 1..MaxRevisions
    <3>1. CASE e = d
      BY <1>0, <1>2, <2>1, <2>2, <2>3, <3>1
    <3>2. CASE e # d
      BY <1>0, <1>2, <3>2, SubSeqFull DEF DeskTypes
    <3> QED
      BY <3>1, <3>2
  <2>5. revisions' \in [Documents -> Seq(DeskText)]
    BY <1>0, <1>2, <2>1
  <2> QED
    BY <2>4, <2>5
<1> HIDE DEF Stay
(* The content of the editor is a new one. *)
<1>3. ASSUME version' = version + 1, UNCHANGED <<revisions, requests, asked>>,
             document' \in Documents, known' \in Documents \X Nat, text' \in DeskText,
             changes' \in 0..MaxChanges, selection' \in {selection, None}, proposal' \in {proposal, None},
             saves' \in SUBSET DeskSave
      PROVE  DeskCore'
  <2>0. /\ selection' = None \/ selection' \in Selection
        /\ proposal' = None \/ proposal' \in Proposal
        /\ version' \in Nat /\ asked' \in 0..MaxProposals /\ requests' \in SUBSET Rewrite
        /\ \A d \in Documents : Len(revisions'[d]) \in 1..MaxRevisions
    BY <1>0, <1>3 DEF DeskTypes
  <2>1. DeskTypes'
    BY <1>0, <1>3, <2>0 DEF DeskTypes, DeskText, Rewrite, DeskSave, Proposal, Selection, Desk!Passages
  <2>2. ASSUME NEW r \in requests PROVE RequestIsOfEditor(r)'
    <3>1. r.version \in Nat /\ r.version <= version /\ (r.at = "writing" => r.base[1] = r.document)
      BY <1>0 DEF Rewrite, RequestIsOfEditor
    <3> QED
      BY <1>0, <1>3, <3>1 DEF RequestIsOfEditor
  <2>3. ProposalIsOfEditor'
    <3> SUFFICES ASSUME proposal' # None
                 PROVE  proposal'.version <= version' /\ proposal'.version # version'
      BY DEF ProposalIsOfEditor
    <3>1. proposal' = proposal /\ proposal \in Proposal /\ proposal.version <= version
      BY <1>0, <1>3 DEF ProposalIsOfEditor, DeskTypes
    <3>2. proposal.version \in Nat
      BY <3>1 DEF Proposal
    <3> QED
      BY <1>0, <1>3, <3>1, <3>2
  <2> QED
    BY <1>3, <2>1, <2>2, <2>3 DEF DeskCore
(* It is the same. *)
<1>4. ASSUME UNCHANGED <<version, text, document>>,
             revisions' \in [Documents -> Seq(DeskText)],
             \A d \in Documents : Len(revisions'[d]) \in 1..MaxRevisions,
             known' \in Documents \X Nat, changes' \in 0..MaxChanges, asked' \in 0..MaxProposals,
             selection' = None \/ selection' \in Selection,
             saves' \in SUBSET DeskSave, requests' \in SUBSET Rewrite,
             \A r \in requests' : RequestIsOfEditor(r),
             proposal' = None \/ (proposal' \in Proposal /\ proposal'.version <= version /\
               (proposal'.version = version => proposal'.of = text /\ proposal'.base[1] = document))
      PROVE  DeskCore'
  <2>1. DeskTypes'
    BY <1>0, <1>4 DEF DeskTypes, DeskText, Rewrite, DeskSave, Proposal, Selection, Desk!Passages
  <2>2. \A r \in requests' : RequestIsOfEditor(r)'
    BY <1>4 DEF RequestIsOfEditor
  <2>3. ProposalIsOfEditor'
    BY <1>4 DEF ProposalIsOfEditor
  <2> QED
    BY <2>1, <2>2, <2>3 DEF DeskCore
<1>5. proposal = None \/ (proposal \in Proposal /\ proposal.version <= version /\
               (proposal.version = version => proposal.of = text /\ proposal.base[1] = document))
  BY <1>0 DEF ProposalIsOfEditor, DeskTypes
(* Or only the requests, the saves and the revisions move on. *)
<1>6. ASSUME UNCHANGED <<changes, document, text, version, selection, known, asked, proposal, revisions>>,
             saves' \in SUBSET DeskSave, requests' \in SUBSET Rewrite,
             \A r \in requests' : RequestIsOfEditor(r)
      PROVE  DeskCore' /\ Stay
  <2>1. DeskCore'
    BY <1>0, <1>4, <1>5, <1>6 DEF DeskTypes
  <2> QED
    BY <1>1, <1>6, <2>1
<1>7. ASSUME NEW p \in Desk!Passages, Desk!Edit(p) PROVE DeskCore' /\ Stay
  <2>1. /\ changes < MaxChanges /\ changes' = changes + 1
        /\ text' = [text EXCEPT ![p] = changes + 1] /\ version' = version + 1
        /\ UNCHANGED <<revisions, document, known, selection, requests, asked, proposal, saves>>
    BY <1>7 DEF Desk!Edit
  <2>2. text' \in DeskText /\ changes' \in 0..MaxChanges
    BY <1>0, <2>1 DEF DeskText
  <2>3. DeskCore'
    BY <1>0, <1>3, <2>1, <2>2 DEF DeskTypes
  <2> QED
    BY <1>1, <2>1, <2>3
<1>8. ASSUME NEW p \in Desk!Passages, Desk!Select(p) PROVE DeskCore' /\ Stay
  <2>1. PICK padded \in BOOLEAN : selection' = [passage |-> p, padded |-> padded]
    BY <1>8 DEF Desk!Select
  <2>2. selection' \in Selection
    BY <2>1 DEF Selection
  <2>3. UNCHANGED <<revisions, changes, document, known, text, version, requests, asked, proposal, saves>>
    BY <1>8 DEF Desk!Select
  <2>4. DeskCore'
    BY <1>0, <1>4, <1>5, <2>2, <2>3 DEF DeskTypes
  <2> QED
    BY <1>1, <2>3, <2>4
<1>9. ASSUME NEW d \in Documents, Desk!OpenDocument(d) PROVE DeskCore' /\ Stay
  <2>1. /\ document' = d /\ known' = <<d, Len(revisions[d])>>
        /\ text' = revisions[d][Len(revisions[d])]
        /\ selection' = None /\ proposal' = None /\ version' = version + 1
        /\ UNCHANGED <<revisions, changes, requests, asked, saves>>
    BY <1>9 DEF Desk!OpenDocument, Desk!Open, Desk!Current
  <2>2. Len(revisions[d]) \in 1..MaxRevisions /\ revisions[d] \in Seq(DeskText)
    BY <1>0 DEF DeskTypes
  <2>3. text' \in DeskText /\ known' \in Documents \X Nat
    BY <2>1, <2>2, ElementOfSeq
  <2>4. DeskCore'
    BY <1>0, <1>3, <2>1, <2>3
  <2> QED
    BY <1>1, <2>1, <2>4
<1>10. ASSUME Desk!Save PROVE DeskCore' /\ Stay
  <2>1. PICK s : s = [document |-> document, text |-> text, version |-> 0]
    OBVIOUS
  <2>2. s \in DeskSave
    BY <1>0, <2>1 DEF DeskSave
  <2>3. saves' = saves \union {s}
    BY <1>10, <2>1 DEF Desk!Save, Desk!Send
  <2>4. UNCHANGED <<revisions, changes, document, text, version, selection, known, requests, asked, proposal>>
    BY <1>10 DEF Desk!Save, Desk!editor
  <2> QED
    BY <1>0, <1>6, <2>2, <2>3, <2>4
<1>11. ASSUME NEW s \in saves, Desk!Number(s) PROVE DeskCore' /\ Stay
  <2>1. PICK n : n = Len(revisions[s.document]) + 1
    OBVIOUS
  <2>2. PICK new : new = [s EXCEPT !.version = n]
    OBVIOUS
  <2>3. /\ Len(revisions[s.document]) < MaxRevisions /\ saves' = (saves \ {s}) \union {new}
        /\ UNCHANGED <<revisions, changes, document, text, version, selection, known, requests, asked, proposal>>
    BY <1>11, <2>1, <2>2 DEF Desk!Number, Desk!editor
  <2>4. s \in DeskSave /\ s.document \in Documents
    BY <1>0 DEF DeskSave
  <2>5. n \in 0..MaxRevisions
    BY <1>0, <2>1, <2>3, <2>4 DEF DeskTypes
  <2>6. new \in DeskSave
    BY <2>2, <2>4, <2>5 DEF DeskSave
  <2> QED
    BY <1>0, <1>6, <2>3, <2>6
<1>12. ASSUME NEW s \in saves, Desk!SaveReturns(s) PROVE DeskCore' /\ Stay
  <2>1. s \in DeskSave /\ s.document \in Documents /\ s.text \in DeskText /\ s.version \in 0..MaxRevisions
    BY <1>0 DEF DeskSave
  <2>2. /\ s.version = Len(revisions[s.document]) + 1
        /\ revisions' = [revisions EXCEPT ![s.document] = Append(revisions[s.document], s.text)]
        /\ known' = <<s.document, s.version>> /\ saves' = saves \ {s}
        /\ UNCHANGED <<changes, document, text, version, selection, requests, asked, proposal>>
    BY <1>12 DEF Desk!SaveReturns, Desk!Insert, Desk!editor
  <2>3. Len(revisions[s.document]) \in 1..MaxRevisions
    BY <1>0, <2>1 DEF DeskTypes
  <2>4. Len(revisions[s.document]) < MaxRevisions
    BY <2>1, <2>2, <2>3
  <2>5. /\ Stay /\ revisions' \in [Documents -> Seq(DeskText)]
        /\ \A e \in Documents : Len(revisions'[e]) \in 1..MaxRevisions
    BY <1>2, <2>1, <2>2, <2>4
  <2>6. known' \in Documents \X Nat
    BY <2>1, <2>2
  <2>7. DeskCore'
    BY <1>0, <1>4, <1>5, <2>2, <2>5, <2>6 DEF DeskTypes
  <2> QED
    BY <2>5, <2>7
<1>13. ASSUME NEW s \in saves, Desk!SaveFails(s) PROVE DeskCore' /\ Stay
  <2>1. /\ saves' = saves \ {s}
        /\ UNCHANGED <<revisions, changes, document, text, version, selection, known, requests, asked, proposal>>
    BY <1>13 DEF Desk!SaveFails, Desk!editor
  <2> QED
    BY <1>0, <1>6, <2>1
<1>14. ASSUME NEW d \in Documents, NEW p \in Desk!Passages, Desk!OtherSave(d, p) PROVE DeskCore' /\ Stay
  <2>1. PICK new : new = [revisions[d][Len(revisions[d])] EXCEPT ![p] = changes + 1]
    OBVIOUS
  <2>2. /\ changes < MaxChanges /\ changes' = changes + 1 /\ Len(revisions[d]) < MaxRevisions
        /\ revisions' = [revisions EXCEPT ![d] = Append(revisions[d], new)]
        /\ UNCHANGED <<document, text, version, selection, known, requests, asked, proposal, saves>>
    BY <1>0, <1>14, <2>1 DEF Desk!OtherSave, Desk!editor
  <2>3. Len(revisions[d]) \in 1..MaxRevisions /\ revisions[d] \in Seq(DeskText)
    BY <1>0 DEF DeskTypes
  <2>4. revisions[d][Len(revisions[d])] \in DeskText /\ changes' \in 0..MaxChanges
    BY <1>0, <2>2, <2>3, ElementOfSeq
  <2>5. new \in DeskText
    BY <1>0, <2>1, <2>4 DEF DeskText
  <2>6. /\ Stay /\ revisions' \in [Documents -> Seq(DeskText)]
        /\ \A e \in Documents : Len(revisions'[e]) \in 1..MaxRevisions
    BY <1>2, <2>2, <2>5
  <2>7. DeskCore'
    BY <1>0, <1>4, <1>5, <2>2, <2>4, <2>6 DEF DeskTypes
  <2> QED
    BY <2>6, <2>7
<1>15. ASSUME Desk!Ask PROVE DeskCore' /\ Stay
  <2>1. PICK r : r = [document |-> document, base |-> known, version |-> version,
                      selection |-> selection, of |-> text, at |-> "sent"]
    OBVIOUS
  <2>2. /\ selection # None /\ asked < MaxProposals /\ asked' = asked + 1
        /\ requests' = requests \union {r} /\ proposal' = None
        /\ UNCHANGED <<revisions, changes, document, text, version, selection, known, saves>>
    BY <1>15, <2>1 DEF Desk!Ask, Desk!editor
  <2>3. known \in Documents \X Nat /\ selection \in Selection /\ asked \in 0..MaxProposals
    BY <1>0, <2>2 DEF DeskTypes
  <2>4. r \in Rewrite
    BY <1>0, <2>1, <2>3 DEF Rewrite
  <2>5. RequestIsOfEditor(r)
    BY <1>0, <2>1 DEF RequestIsOfEditor
  <2>6. DeskCore'
    BY <1>0, <1>4, <2>2, <2>3, <2>4, <2>5 DEF DeskTypes
  <2>7. UNCHANGED revisions
    BY <2>2
  <2> QED
    BY <1>1, <2>6, <2>7
<1>16. ASSUME NEW r \in requests, Desk!CheckBase(r) PROVE DeskCore' /\ Stay
  <2>1. PICK new : new = [r EXCEPT !.at = "writing"]
    OBVIOUS
  <2>2. /\ requests' = (requests \ {r}) \union (IF r.base = <<r.document, Len(revisions[r.document])>> THEN {new} ELSE {})
        /\ UNCHANGED <<revisions, changes, document, text, version, selection, known, asked, proposal, saves>>
    BY <1>16, <2>1 DEF Desk!CheckBase, Desk!editor, Desk!Current
  <2>3. r \in Rewrite /\ RequestIsOfEditor(r)
    BY <1>0
  <2>4. /\ new \in Rewrite /\ new.base = r.base /\ new.document = r.document /\ new.of = r.of
        /\ new.version = r.version
    BY <2>1, <2>3 DEF Rewrite
  <2>5. r.base = <<r.document, Len(revisions[r.document])>> => RequestIsOfEditor(new)
    BY <2>3, <2>4 DEF RequestIsOfEditor
  <2>6. requests' \in SUBSET Rewrite /\ \A q \in requests' : RequestIsOfEditor(q)
    BY <1>0, <2>2, <2>4, <2>5
  <2> QED
    BY <1>0, <1>6, <2>2, <2>6
<1>17. ASSUME NEW r \in requests, Desk!Propose(r) PROVE DeskCore' /\ Stay
  <2>1. PICK new : new = [base |-> r.base, version |-> r.version, selection |-> r.selection, of |-> r.of,
                          original |-> <<r.of[r.selection.passage], FALSE>>]
    OBVIOUS
  <2>2. /\ r.at = "writing" /\ requests' = requests \ {r} /\ proposal' \in {new, proposal}
        /\ UNCHANGED <<revisions, changes, document, text, version, selection, known, asked, saves>>
    BY <1>17, <2>1 DEF Desk!Propose, Desk!editor
  <2>3. r \in Rewrite /\ RequestIsOfEditor(r)
    BY <1>0
  <2>4. r.of[r.selection.passage] \in Nat
    BY <2>3 DEF Rewrite, Selection, DeskText
  <2>5. /\ new \in Proposal /\ new.version <= version
        /\ new.version = version => new.of = text /\ new.base[1] = document
    BY <2>1, <2>2, <2>3, <2>4 DEF Rewrite, Proposal, RequestIsOfEditor
  <2>6. DeskCore'
    BY <1>0, <1>4, <1>5, <2>2, <2>5 DEF DeskTypes
  <2> QED
    BY <1>1, <2>2, <2>6
<1>18. ASSUME Desk!Replace PROVE DeskCore' /\ Stay
  <2>1. PICK new : new = [text EXCEPT ![proposal.selection.passage] = changes + 1]
    OBVIOUS
  <2>2. PICK s : s = [document |-> document, text |-> new, version |-> 0]
    OBVIOUS
  <2>3. /\ changes < MaxChanges /\ changes' = changes + 1 /\ text' = new
        /\ saves' = saves \union {s} /\ version' = version + 1
        /\ UNCHANGED <<revisions, document, known, selection, requests, asked, proposal>>
    BY <1>18, <2>1, <2>2 DEF Desk!Replace, Desk!Send
  <2>4. new \in DeskText
    <3>1. changes + 1 \in Nat
      BY <1>0
    <3> QED
      BY <1>0, <2>1, <3>1 DEF DeskText
  <2>5. s \in DeskSave /\ changes' \in 0..MaxChanges
    BY <1>0, <2>2, <2>3, <2>4 DEF DeskSave
  <2>6. DeskCore'
    BY <1>0, <1>3, <2>3, <2>4, <2>5 DEF DeskTypes
  <2>7. UNCHANGED revisions
    BY <2>3
  <2> QED
    BY <1>1, <2>6, <2>7
<1>19. DeskCore' /\ Stay
  BY <1>7, <1>8, <1>9, <1>10, <1>11, <1>12, <1>13, <1>14, <1>15, <1>16, <1>17, <1>18 DEF Desk!DeskNext
<1>20. saving' \in BOOLEAN
  BY DEF DeskInv, Desk!DeskNext, Desk!Edit, Desk!Select, Desk!OpenDocument, Desk!Save, Desk!Send,
     Desk!Number, Desk!SaveReturns, Desk!SaveFails, Desk!OtherSave, Desk!Ask, Desk!CheckBase,
     Desk!Propose, Desk!Replace
<1> QED
  BY <1>19, <1>20 DEF DeskInv, Stay

(* What is replaced was written for the very text and document. *)
LEMMA DeskStepFits ==
  ASSUME DeskInv, Desk!DeskNext, version' # version, saves' # saves
  PROVE  proposal.of = text /\ proposal.base[1] = document
<1>1. Desk!Replace
  BY DEF Desk!DeskNext, Desk!Edit, Desk!Select, Desk!OpenDocument, Desk!Save, Desk!Number, Desk!SaveReturns,
     Desk!SaveFails, Desk!OtherSave, Desk!Ask, Desk!CheckBase, Desk!Propose, Desk!editor
<1>2. proposal # None /\ version = proposal.version
  BY <1>1 DEF Desk!Replace, Desk!Replaceable
<1> QED
  BY <1>2 DEF DeskInv, DeskCore, ProposalIsOfEditor

-----------------------------------------------------------------------------
(* ProjectLibrary *)

LEMMA ShelfCardinality == \A S : Shelf!Cardinality(S) = Cardinality(S)
BY DEF Shelf!Cardinality, Cardinality, Shelf!IsFiniteSet, IsFiniteSet

ToAdd    == [kind : {"add"}, paper : Papers, found : BOOLEAN]
ToUpdate == [kind : {"update"}, paper : Papers, planned : BOOLEAN]
ToOpen   == [kind : {"open"}, session : Sessions, paper : Papers \union {None}, inProject : BOOLEAN]
ToSave   == [kind : {"save"}, session : Sessions, count : Nat]
ToErase  == [kind : {"erase"}, session : Sessions, turn : Shelf!Turns,
             others : SUBSET Shelf!Turns, place : [Shelf!Turns -> Nat]]

LibraryTypes ==
  /\ project \in {"none", "there", "gone"} /\ papers \in SUBSET Papers
  /\ links \in [Papers -> Shelf!Link \union {None}]
  /\ edits \in 0..MaxEdits /\ notes \in 0..MaxNotes
  /\ memory \in Seq(1..MaxNotes) /\ told \in SUBSET (1..MaxNotes)
  /\ \A n \in DOMAIN items : n \in 1..MaxNotes /\ items[n] \in {"user", "agent"}
  /\ sessions \in [Sessions -> Shelf!Session]
  /\ pending \in SUBSET (ToAdd \union ToUpdate \union ToOpen \union ToSave \union ToErase)
  /\ IsFiniteSet(pending) /\ Cardinality(pending) <= MaxPending

(* What belongs to a project is gone with it. *)
NothingIsLeft ==
  /\ \A p \in Papers : links[p] # None => project = "there" /\ p \in papers
  /\ project # "there" => memory = <<>> /\ DOMAIN items = {}

SessionBelongs(s) ==
  /\ sessions[s].state = "open" =>
       /\ sessions[s].paper # None \/ sessions[s].inProject
       /\ sessions[s].inProject => project = "there"
       /\ sessions[s].paper \in papers \union {None}
  /\ sessions[s].state # "open" => \A t \in Shelf!Turns : sessions[s].place[t] = 0

(* What requests have looked at is so still: a session that is opened is    *)
(* new and opened by one request, one answer is saved at a time.           *)
RequestsFit ==
  /\ \A r \in pending : r.kind = "open" =>
       /\ r.paper # None \/ r.inProject
       /\ sessions[r.session].state = "none"
       /\ \A q \in pending : q.kind = "open" /\ q.session = r.session => q = r
  /\ \A r \in pending : r.kind = "save" =>
       /\ sessions[r.session].saved < MaxTurns
       /\ \A q \in pending : q.kind = "save" => q = r

ShelfInv ==
  LibraryTypes /\ NothingIsLeft /\ (\A s \in Sessions : SessionBelongs(s)) /\ RequestsFit

LEMMA ShelfNumbers ==
  MaxTurns \in Nat /\ MaxNotes \in Nat /\ MaxEdits \in Nat /\ MaxPending \in Nat
BY RequestsAssumption DEF Shelf!LibraryAssumption

LEMMA ShelfShows ==
  ASSUME ShelfInv
  PROVE  Shelf!LibraryTypeOK /\ Shelf!LibraryIsWhole
<1>1. Shelf!LibraryTypeOK
  BY ShelfCardinality DEF ShelfInv, LibraryTypes, Shelf!LibraryTypeOK
<1>2. project # "there" => Shelf!ShownNotes = {} /\ Shelf!Recalled = {}
  <2> SUFFICES ASSUME project # "there" PROVE Shelf!ShownNotes = {} /\ Shelf!Recalled = {}
    OBVIOUS
  <2>1. memory = <<>> /\ DOMAIN items = {}
    BY DEF ShelfInv, NothingIsLeft
  <2>2. {memory[i] : i \in DOMAIN memory} = {}
    BY <2>1
  <2> QED
    BY <2>1, <2>2 DEF Shelf!ShownNotes, Shelf!Recalled
<1>3. \A s \in Sessions : sessions[s].state # "open" => Shelf!Saved(s) = {}
  BY DEF ShelfInv, SessionBelongs, Shelf!Saved
<1> QED
  BY <1>1, <1>2, <1>3 DEF ShelfInv, NothingIsLeft, SessionBelongs, Shelf!LibraryIsWhole

LEMMA NewSession ==
  /\ Shelf!NoSession \in Shelf!Session /\ Shelf!NoSession.state = "none"
  /\ \A t \in Shelf!Turns : Shelf!NoSession.place[t] = 0
  /\ [Shelf!NoSession EXCEPT !.state = "gone"] \in Shelf!Session
  /\ [Shelf!NoSession EXCEPT !.state = "gone"].state = "gone"
  /\ \A t \in Shelf!Turns : [Shelf!NoSession EXCEPT !.state = "gone"].place[t] = 0
  /\ [Shelf!NoSession EXCEPT !.state = "gone"].saved = 0
<1> DEFINE zero == [t \in Shelf!Turns |-> 0]
<1>1. zero \in [Shelf!Turns -> Nat] /\ 0 \in 0..MaxTurns /\ \A t \in Shelf!Turns : zero[t] = 0
  BY ShelfNumbers
<1>2. Shelf!NoSession = [state |-> "none", inProject |-> FALSE, paper |-> None,
                        place |-> zero, saved |-> 0, title |-> 0]
  BY DEF Shelf!NoSession
<1> HIDE DEF zero
<1>3. Shelf!NoSession \in Shelf!Session
  BY <1>1, <1>2 DEF Shelf!Session
<1>4. PICK gone : gone = [Shelf!NoSession EXCEPT !.state = "gone"]
  OBVIOUS
<1>5. Shelf!NoSession.state = "none" /\ Shelf!NoSession.place = zero /\ Shelf!NoSession.saved = 0
  BY <1>2
<1>6. gone \in Shelf!Session /\ gone.state = "gone" /\ gone.place = zero /\ gone.saved = 0
  BY <1>3, <1>4, <1>5 DEF Shelf!Session
<1> QED
  BY <1>1, <1>3, <1>4, <1>5, <1>6

LEMMA ShelfInit ==
  ASSUME Shelf!LibraryInit
  PROVE  ShelfInv
<1>1. edits \in 0..MaxEdits /\ notes \in 0..MaxNotes
  BY ShelfNumbers DEF Shelf!LibraryInit
<1>2. IsFiniteSet(pending) /\ Cardinality(pending) <= MaxPending
  BY ShelfNumbers, FS_EmptySet DEF Shelf!LibraryInit
<1>3. sessions \in [Sessions -> Shelf!Session] /\ \A s \in Sessions : sessions[s] = Shelf!NoSession
  BY NewSession DEF Shelf!LibraryInit
<1>4. LibraryTypes
  BY <1>1, <1>2, <1>3 DEF Shelf!LibraryInit, LibraryTypes
<1>5. NothingIsLeft /\ RequestsFit
  BY DEF Shelf!LibraryInit, NothingIsLeft, RequestsFit
<1>6. \A s \in Sessions : SessionBelongs(s)
  BY <1>3, NewSession DEF SessionBelongs
<1> QED
  BY <1>4, <1>5, <1>6 DEF ShelfInv

(* Of some turns one comes first, by its place and then by its number.      *)
LEMMA FirstTurn ==
  ASSUME NEW place \in [Shelf!Turns -> Nat], NEW S \in SUBSET Shelf!Turns, S # {}
  PROVE  \E t \in S : {u \in S : Shelf!Before(place, u, t)} = {}
<1>1. Shelf!Turns \subseteq Nat
  BY ShelfNumbers DEF Shelf!Turns
<1> DEFINE Places == {place[t] : t \in S}
           least  == CHOOSE i \in Places : \A j \in Places : i <= j
           Early  == {t \in S : place[t] = least}
           first  == CHOOSE i \in Early : \A j \in Early : i <= j
<1>2. Places \in SUBSET Nat /\ Places # {}
  OBVIOUS
<1>3. least \in Places /\ \A j \in Places : least <= j
  <2> HIDE DEF Places
  <2> QED
    BY <1>2, SmallestOf
<1>4. Early \in SUBSET Nat /\ Early # {}
  BY <1>1, <1>3
<1>5. first \in Early /\ \A j \in Early : first <= j
  <2> HIDE DEF Early
  <2> QED
    BY <1>4, SmallestOf
<1> HIDE DEF least, first
<1>6. first \in S /\ place[first] = least
  BY <1>5
<1>7. ASSUME NEW u \in S PROVE ~Shelf!Before(place, u, first)
  <2>1. place[u] \in Nat /\ place[first] \in Nat /\ least <= place[u] /\ u \in Nat /\ first \in Nat
    BY <1>1, <1>3, <1>6
  <2>2. place[u] = least => first <= u
    BY <1>5
  <2> QED
    BY <1>6, <2>1, <2>2 DEF Shelf!Before
<1> QED
  BY <1>6, <1>7

LEMMA ShelfStepInv ==
  ASSUME ShelfInv, Shelf!LibraryNext
  PROVE  ShelfInv'
<1> USE ShelfNumbers
<1>0. /\ LibraryTypes /\ NothingIsLeft /\ RequestsFit
      /\ \A s \in Sessions : SessionBelongs(s)
      /\ links \in [Papers -> Shelf!Link \union {None}] /\ sessions \in [Sessions -> Shelf!Session]
      /\ edits \in 0..MaxEdits /\ notes \in 0..MaxNotes
  BY DEF ShelfInv, LibraryTypes
<1> DEFINE Request == ToAdd \union ToUpdate \union ToOpen \union ToSave \union ToErase
<1>1. pending \in SUBSET Request /\ IsFiniteSet(pending) /\ Cardinality(pending) <= MaxPending
  BY <1>0 DEF LibraryTypes
(* Requests that come and that are answered. *)
<1>2. ASSUME NEW r \in Request, Shelf!Looks(r)
      PROVE  pending' \in SUBSET Request /\ IsFiniteSet(pending') /\ Cardinality(pending') <= MaxPending
  <2>1. pending' = pending \union {r} /\ r \notin pending /\ Cardinality(pending) < MaxPending
    BY <1>2, ShelfCardinality DEF Shelf!Looks
  <2>2. Cardinality(pending) \in Nat
    BY <1>1, FS_CardinalityType
  <2>3. Cardinality(pending') = Cardinality(pending) + 1 /\ IsFiniteSet(pending')
    BY <1>1, <2>1, FS_AddElement
  <2>4. pending' \in SUBSET Request
    BY <1>1, <2>1
  <2> QED
    BY <2>1, <2>2, <2>3, <2>4
<1>3. ASSUME NEW r, Shelf!Answers(r)
      PROVE  pending' \in SUBSET Request /\ IsFiniteSet(pending') /\ Cardinality(pending') <= MaxPending
  <2>1. pending' = pending \ {r}
    BY <1>3 DEF Shelf!Answers
  <2>2. IsFiniteSet(pending') /\ Cardinality(pending') <= Cardinality(pending)
    BY <1>1, <2>1, FS_Subset
  <2>3. Cardinality(pending) \in Nat /\ Cardinality(pending') \in Nat
    BY <1>1, <2>2, FS_CardinalityType
  <2> QED
    BY <1>1, <2>1, <2>2, <2>3
<1>4. ASSUME NEW r \in Request
      PROVE  /\ r.kind = "add" => r \in ToAdd
             /\ r.kind = "update" => r \in ToUpdate
             /\ r.kind = "open" => r \in ToOpen
             /\ r.kind = "save" => r \in ToSave
             /\ r.kind = "erase" => r \in ToErase
  BY DEF ToAdd, ToUpdate, ToOpen, ToSave, ToErase
<1> HIDE DEF Request
(* What is told of the sessions stays when they are closed. *)
<1>5. ASSUME NEW gone, Shelf!Close(gone)
      PROVE  /\ sessions' \in [Sessions -> Shelf!Session]
             /\ \A s \in Sessions :
                  \/ sessions'[s] = sessions[s] /\ ~ (sessions[s].state = "open" /\ gone[s])
                  \/ /\ sessions'[s].state = "gone" /\ sessions[s].state = "open" /\ gone[s]
                     /\ sessions'[s].saved = 0 /\ \A t \in Shelf!Turns : sessions'[s].place[t] = 0
  <2>1. sessions' = [s \in Sessions |->
                 IF sessions[s].state = "open" /\ gone[s]
                   THEN [Shelf!NoSession EXCEPT !.state = "gone"] ELSE sessions[s]]
    BY <1>5 DEF Shelf!Close
  <2> QED
    BY <1>0, <2>1, NewSession
<1>6. ASSUME NEW gone, Shelf!Close(gone), UNCHANGED pending
      PROVE  RequestsFit'
  <2>1. \A r \in pending : r.kind = "open" \/ r.kind = "save" => r.session \in Sessions
    BY <1>1, <1>4 DEF ToOpen, ToSave
  <2>2. ASSUME NEW r \in pending, r.kind = "open" PROVE sessions'[r.session].state = "none"
    BY <1>0, <1>5, <1>6, <2>1, <2>2 DEF RequestsFit
  <2>3. ASSUME NEW r \in pending, r.kind = "save" PROVE sessions'[r.session].saved < MaxTurns
    <3>1. r.session \in Sessions /\ sessions[r.session].saved < MaxTurns
      BY <1>0, <2>1, <2>3 DEF RequestsFit
    <3>2. sessions[r.session].saved \in 0..MaxTurns
      BY <1>0, <3>1 DEF Shelf!Session
    <3> QED
      BY <1>5, <1>6, <3>1, <3>2
  <2> QED
    BY <1>0, <1>6, <2>2, <2>3 DEF RequestsFit
(* Whatever leaves the sessions and the requests alone. *)
<1>7. ASSUME project' \in {"none", "there", "gone"}, UNCHANGED <<papers, sessions, pending>>,
             project = "there" => project' = "there",
             links' \in [Papers -> Shelf!Link \union {None}],
             edits' \in 0..MaxEdits, notes' \in 0..MaxNotes,
             memory' \in Seq(1..MaxNotes), told' \in SUBSET (1..MaxNotes),
             \A n \in DOMAIN items' : n \in 1..MaxNotes /\ items'[n] \in {"user", "agent"},
             NothingIsLeft'
      PROVE  ShelfInv'
  <2>1. LibraryTypes'
    BY <1>0, <1>7 DEF LibraryTypes, ToAdd, ToUpdate, ToOpen, ToSave, ToErase, Shelf!Session,
       Shelf!Link, Shelf!Turns
  <2>2. \A s \in Sessions : SessionBelongs(s)'
    BY <1>0, <1>7 DEF SessionBelongs, Shelf!Turns
  <2>3. RequestsFit'
    BY <1>0, <1>7 DEF RequestsFit
  <2> QED
    BY <1>7, <2>1, <2>2, <2>3 DEF ShelfInv
<1>8. CASE Shelf!CreateProject
  <2>1. NothingIsLeft'
    BY <1>0, <1>8 DEF Shelf!CreateProject, NothingIsLeft
  <2> QED
    BY <1>0, <1>7, <1>8, <2>1 DEF Shelf!CreateProject, LibraryTypes
<1>9. CASE Shelf!DeleteProject
  <2>1. /\ project' = "gone" /\ links' = [p \in Papers |-> None] /\ memory' = <<>> /\ told' = {}
        /\ items' = [n \in {} |-> ""] /\ Shelf!Close([s \in Sessions |-> sessions[s].inProject])
        /\ UNCHANGED <<papers, edits, notes, pending>>
    BY <1>9 DEF Shelf!DeleteProject
  <2>2. LibraryTypes'
    BY <1>0, <1>5, <2>1 DEF LibraryTypes, ToAdd, ToUpdate, ToOpen, ToSave, ToErase, Shelf!Session,
       Shelf!Link, Shelf!Turns
  <2>3. NothingIsLeft'
    BY <2>1 DEF NothingIsLeft
  <2>4. ASSUME NEW s \in Sessions PROVE SessionBelongs(s)'
    <3>1. SessionBelongs(s)
      BY <1>0
    <3>2. CASE sessions'[s] = sessions[s] /\ ~ (sessions[s].state = "open" /\ sessions[s].inProject)
      BY <2>1, <3>1, <3>2 DEF SessionBelongs, Shelf!Turns
    <3>3. CASE sessions'[s].state = "gone" /\ \A t \in Shelf!Turns : sessions'[s].place[t] = 0
      BY <3>3 DEF SessionBelongs, Shelf!Turns
    <3> DEFINE gone == [t \in Sessions |-> sessions[t].inProject]
    <3>4. Shelf!Close(gone) /\ (gone[s] <=> sessions[s].inProject)
      BY <2>1
    <3> HIDE DEF gone
    <3> QED
      BY <1>5, <3>2, <3>3, <3>4
  <2> QED
    BY <1>6, <2>1, <2>2, <2>3, <2>4 DEF ShelfInv
<1>10. ASSUME NEW p \in Papers, Shelf!DeletePaper(p) PROVE ShelfInv'
  <2>1. /\ papers' = papers \ {p} /\ links' = [links EXCEPT ![p] = None]
        /\ Shelf!Close([s \in Sessions |-> sessions[s].paper = p])
        /\ UNCHANGED <<project, edits, memory, told, items, notes, pending>>
    BY <1>10 DEF Shelf!DeletePaper
  <2>2. links' \in [Papers -> Shelf!Link \union {None}] /\ papers' \in SUBSET Papers
    BY <1>0, <2>1 DEF LibraryTypes
  <2>3. sessions' \in [Sessions -> Shelf!Session]
    BY <1>5, <2>1
  <2>4. LibraryTypes'
    BY <1>0, <2>1, <2>2, <2>3 DEF LibraryTypes, ToAdd, ToUpdate, ToOpen, ToSave, ToErase, Shelf!Session,
       Shelf!Link, Shelf!Turns
  <2>5. NothingIsLeft'
    BY <1>0, <2>1 DEF NothingIsLeft
  <2>6. ASSUME NEW s \in Sessions PROVE SessionBelongs(s)'
    <3>1. SessionBelongs(s)
      BY <1>0
    <3>2. CASE sessions'[s] = sessions[s] /\ ~ (sessions[s].state = "open" /\ sessions[s].paper = p)
      BY <2>1, <3>1, <3>2 DEF SessionBelongs, Shelf!Turns
    <3>3. CASE sessions'[s].state = "gone" /\ \A t \in Shelf!Turns : sessions'[s].place[t] = 0
      BY <3>3 DEF SessionBelongs, Shelf!Turns
    <3> DEFINE gone == [t \in Sessions |-> sessions[t].paper = p]
    <3>4. Shelf!Close(gone) /\ (gone[s] <=> sessions[s].paper = p)
      BY <2>1
    <3> HIDE DEF gone
    <3> QED
      BY <1>5, <3>2, <3>3, <3>4
  <2> QED
    BY <1>6, <2>1, <2>4, <2>5, <2>6 DEF ShelfInv

(* A request has looked. *)
<1>11. ASSUME NEW r \in Request, Shelf!Looks(r),
              UNCHANGED <<project, papers, links, edits, memory, told, items, notes, sessions>>,
              r.kind = "open" =>
                /\ r.paper # None \/ r.inProject
                /\ sessions[r.session].state = "none"
                /\ \A q \in pending : q.kind = "open" => q.session # r.session,
              r.kind = "save" =>
                sessions[r.session].saved < MaxTurns /\ \A q \in pending : q.kind # "save"
       PROVE  ShelfInv'
  <2>1. pending' \in SUBSET Request /\ IsFiniteSet(pending') /\ Cardinality(pending') <= MaxPending
    BY <1>2, <1>11
  <2>2. pending' = pending \union {r}
    BY <1>11 DEF Shelf!Looks
  <2>3. LibraryTypes'
    BY <1>0, <1>11, <2>1 DEF LibraryTypes, ToAdd, ToUpdate, ToOpen, ToSave, ToErase, Shelf!Session,
       Shelf!Link, Shelf!Turns, Request
  <2>4. NothingIsLeft' /\ \A s \in Sessions : SessionBelongs(s)'
    BY <1>0, <1>11 DEF NothingIsLeft, SessionBelongs, Shelf!Turns
  <2>5. RequestsFit'
    BY <1>0, <1>11, <2>2 DEF RequestsFit
  <2> QED
    BY <2>3, <2>4, <2>5 DEF ShelfInv
<1>12. ASSUME NEW p \in Papers, Shelf!LookToAdd(p) PROVE ShelfInv'
  <2> DEFINE r == [kind |-> "add", paper |-> p, found |-> links[p] # None]
  <2>1. r \in Request /\ r.kind = "add"
    BY DEF Request, ToAdd
  <2> QED
    BY <1>11, <1>12, <2>1 DEF Shelf!LookToAdd
<1>13. ASSUME NEW p \in Papers, Shelf!LookToUpdate(p) PROVE ShelfInv'
  <2>1. PICK planned \in BOOLEAN :
          Shelf!Looks([kind |-> "update", paper |-> p, planned |-> planned])
    BY <1>13 DEF Shelf!LookToUpdate
  <2> DEFINE r == [kind |-> "update", paper |-> p, planned |-> planned]
  <2>2. r \in Request /\ r.kind = "update"
    BY DEF Request, ToUpdate
  <2> QED
    BY <1>11, <1>13, <2>1, <2>2 DEF Shelf!LookToUpdate
<1>14. ASSUME NEW s \in Sessions, Shelf!LookToOpen(s) PROVE ShelfInv'
  <2>1. PICK paper \in papers \union {None}, inProject \in BOOLEAN :
          /\ paper # None \/ inProject
          /\ Shelf!Looks([kind |-> "open", session |-> s, paper |-> paper, inProject |-> inProject])
    BY <1>14 DEF Shelf!LookToOpen
  <2>2. PICK r : r = [kind |-> "open", session |-> s, paper |-> paper, inProject |-> inProject]
    OBVIOUS
  <2>3. paper \in Papers \union {None}
    BY <1>0 DEF LibraryTypes
  <2>4. r \in Request /\ r.kind = "open" /\ r.session = s /\ r.paper = paper /\ r.inProject = inProject
    BY <2>2, <2>3 DEF Request, ToOpen
  <2>5. /\ sessions[s].state = "none" /\ \A q \in pending : q.kind = "open" => q.session # s
        /\ UNCHANGED <<project, papers, links, edits, memory, told, items, notes, sessions>>
    BY <1>14 DEF Shelf!LookToOpen
  <2> QED
    BY <1>11, <2>1, <2>2, <2>4, <2>5
<1>15. ASSUME NEW s \in Sessions, Shelf!LookToSave(s) PROVE ShelfInv'
  <2>1. PICK r : r = [kind |-> "save", session |-> s, count |-> Shelf!Cardinality(Shelf!Saved(s))]
    OBVIOUS
  <2>2. Shelf!Cardinality(Shelf!Saved(s)) \in Nat
    <3>1. Shelf!Saved(s) \in SUBSET (1..MaxTurns) /\ IsFiniteSet(1..MaxTurns)
      BY FS_Interval DEF Shelf!Saved, Shelf!Turns
    <3> QED
      BY <3>1, FS_Subset, FS_CardinalityType, ShelfCardinality
  <2>3. r \in Request /\ r.kind = "save" /\ r.session = s
    BY <2>1, <2>2 DEF Request, ToSave
  <2>4. /\ sessions[s].saved < MaxTurns /\ (\A q \in pending : q.kind # "save") /\ Shelf!Looks(r)
        /\ UNCHANGED <<project, papers, links, edits, memory, told, items, notes, sessions>>
    BY <1>15, <2>1 DEF Shelf!LookToSave
  <2> QED
    BY <1>11, <2>3, <2>4
<1>16. ASSUME NEW s \in Sessions, NEW t \in Shelf!Turns, Shelf!LookToErase(s, t) PROVE ShelfInv'
  <2>1. PICK r : r = [kind |-> "erase", session |-> s, turn |-> t,
            others |-> Shelf!Saved(s) \ {t}, place |-> sessions[s].place]
    OBVIOUS
  <2>2. Shelf!Saved(s) \subseteq Shelf!Turns /\ sessions[s].place \in [Shelf!Turns -> Nat]
    BY <1>0 DEF Shelf!Saved, Shelf!Session
  <2>3. r \in Request /\ r.kind = "erase"
    BY <2>1, <2>2 DEF Request, ToErase
  <2>4. /\ Shelf!Looks(r)
        /\ UNCHANGED <<project, papers, links, edits, memory, told, items, notes, sessions>>
    BY <1>16, <2>1 DEF Shelf!LookToErase
  <2> QED
    BY <1>11, <2>3, <2>4
(* A request is answered. *)
<1>17. ASSUME NEW r \in pending, Shelf!Answers(r), UNCHANGED <<project, papers, memory, told, items, notes>>,
              links' \in [Papers -> Shelf!Link \union {None}], edits' \in 0..MaxEdits,
              sessions' \in [Sessions -> Shelf!Session], NothingIsLeft',
              \A s \in Sessions : SessionBelongs(s)',
              \A q \in pending \ {r} : q.kind = "open" => sessions'[q.session].state = sessions[q.session].state,
              \A q \in pending \ {r} : q.kind = "save" => sessions'[q.session].saved <= sessions[q.session].saved
       PROVE  ShelfInv'
  <2>1. pending' \in SUBSET Request /\ IsFiniteSet(pending') /\ Cardinality(pending') <= MaxPending
    BY <1>3, <1>17
  <2>2. pending' = pending \ {r}
    BY <1>17 DEF Shelf!Answers
  <2>3. LibraryTypes'
    BY <1>0, <1>17, <2>1 DEF LibraryTypes, ToAdd, ToUpdate, ToOpen, ToSave, ToErase, Shelf!Session,
       Shelf!Link, Shelf!Turns, Request
  <2>4. \A q \in pending : q.kind = "open" \/ q.kind = "save" => q.session \in Sessions
    BY <1>1, <1>4 DEF ToOpen, ToSave
  <2>5. \A q \in pending \ {r} : q.kind = "save" => sessions'[q.session].saved < MaxTurns
    <3> TAKE q \in pending \ {r}
    <3> HAVE q.kind = "save"
    <3>1. sessions[q.session].saved < MaxTurns
      BY <1>0 DEF RequestsFit
    <3>2. sessions[q.session].saved \in Nat /\ sessions'[q.session].saved \in Nat
      BY <1>0, <1>17, <2>4 DEF Shelf!Session
    <3> QED
      BY <1>17, <3>1, <3>2
  <2>6. RequestsFit'
    BY <1>0, <1>17, <2>2, <2>5 DEF RequestsFit
  <2> QED
    BY <1>17, <2>3, <2>6 DEF ShelfInv
<1>18. ASSUME NEW r \in pending, Shelf!Answers(r),
              UNCHANGED <<project, papers, memory, told, items, notes, sessions>>,
              links' \in [Papers -> Shelf!Link \union {None}], edits' \in 0..MaxEdits, NothingIsLeft'
       PROVE  ShelfInv'
  <2>1. \A s \in Sessions : SessionBelongs(s)'
    BY <1>0, <1>18 DEF SessionBelongs, Shelf!Turns
  <2>2. \A q \in pending : q.kind = "save" => sessions[q.session].saved <= sessions[q.session].saved
    BY <1>0, <1>1, <1>4 DEF ToOpen, ToSave, Shelf!Session
  <2> QED
    BY <1>0, <1>17, <1>18, <2>1, <2>2
<1>19. ASSUME NEW p \in Papers, NEW new, links' = [links EXCEPT ![p] = new], new \in Shelf!Link,
              project = "there" /\ p \in papers, UNCHANGED <<project, papers, memory, items>>
       PROVE  links' \in [Papers -> Shelf!Link \union {None}] /\ NothingIsLeft'
  BY <1>0, <1>19 DEF NothingIsLeft
<1>20. ASSUME NEW r \in pending, Shelf!Add(r) PROVE ShelfInv'
  <2> DEFINE p == r.paper
             fits == IF r.found THEN links[p] # None
                     ELSE links[p] = None /\ project = "there" /\ p \in papers
  <2>1. r \in ToAdd /\ Shelf!Answers(r) /\ UNCHANGED <<project, papers, memory, told, items, notes, sessions>>
    <3>1. r \in Request /\ r.kind = "add"
      BY <1>1, <1>20 DEF Shelf!Add
    <3>2. Shelf!Answers(r) /\ UNCHANGED <<project, papers, memory, told, items, notes, sessions>>
      BY <1>20 DEF Shelf!Add
    <3> QED
      BY <1>4, <3>1, <3>2
  <2>2. p \in Papers /\ r.found \in BOOLEAN
    BY <2>1 DEF ToAdd
  <2>3. CASE fits /\ edits < MaxEdits
             /\ links' = [links EXCEPT ![p] = [text |-> edits + 1, planned |-> r.found /\ links[p].planned]]
             /\ edits' = edits + 1
    <3>1. project = "there" /\ p \in papers
      BY <1>0, <2>2, <2>3 DEF NothingIsLeft
    <3>2. edits + 1 \in 0..MaxEdits
      BY <1>0, <2>3
    <3>3. (r.found /\ links[p].planned) \in BOOLEAN
      <4>1. CASE r.found
        <5>1. links[p] \in Shelf!Link
          BY <1>0, <2>2, <2>3, <4>1
        <5> QED
          BY <4>1, <5>1 DEF Shelf!Link
      <4>2. CASE ~r.found
        BY <4>2
      <4> QED
        BY <4>1, <4>2
    <3>4. [text |-> edits + 1, planned |-> r.found /\ links[p].planned] \in Shelf!Link
      BY <3>2, <3>3 DEF Shelf!Link
    <3> QED
      BY <1>18, <1>19, <2>1, <2>2, <2>3, <3>1, <3>2, <3>4
  <2>4. CASE UNCHANGED <<links, edits>>
    BY <1>0, <1>18, <2>1, <2>4 DEF NothingIsLeft
  <2> QED
    BY <1>20, <2>3, <2>4 DEF Shelf!Add, Shelf!Write
<1>21. ASSUME NEW r \in pending, Shelf!Update(r) PROVE ShelfInv'
  <2> DEFINE p == r.paper
  <2>1. r \in ToUpdate /\ Shelf!Answers(r) /\ UNCHANGED <<project, papers, memory, told, items, notes, sessions>>
    <3>1. r \in Request /\ r.kind = "update"
      BY <1>1, <1>21 DEF Shelf!Update
    <3>2. Shelf!Answers(r) /\ UNCHANGED <<project, papers, memory, told, items, notes, sessions>>
      BY <1>21 DEF Shelf!Update
    <3> QED
      BY <1>4, <3>1, <3>2
  <2>2. p \in Papers /\ r.planned \in BOOLEAN
    BY <2>1 DEF ToUpdate
  <2>3. CASE links[p] # None /\ edits < MaxEdits
             /\ links' = [links EXCEPT ![p] = [text |-> edits + 1, planned |-> links[p].planned \/ r.planned]]
             /\ edits' = edits + 1
    <3>1. project = "there" /\ p \in papers
      BY <1>0, <2>2, <2>3 DEF NothingIsLeft
    <3>2. edits + 1 \in 0..MaxEdits
      BY <1>0, <2>3
    <3>3. links[p] \in Shelf!Link
      BY <1>0, <2>2, <2>3
    <3>4. (links[p].planned \/ r.planned) \in BOOLEAN
      BY <2>2, <3>3 DEF Shelf!Link
    <3>5. [text |-> edits + 1, planned |-> links[p].planned \/ r.planned] \in Shelf!Link
      BY <3>2, <3>4 DEF Shelf!Link
    <3> QED
      BY <1>18, <1>19, <2>1, <2>2, <2>3, <3>1, <3>2, <3>5
  <2>4. CASE UNCHANGED <<links, edits>>
    BY <1>0, <1>18, <2>1, <2>4 DEF NothingIsLeft
  <2> QED
    BY <1>21, <2>3, <2>4 DEF Shelf!Update, Shelf!Write
<1>22. ASSUME NEW p \in Papers, Shelf!RemovePaper(p) PROVE ShelfInv'
  <2>1. links' = [links EXCEPT ![p] = None]
        /\ UNCHANGED <<project, papers, edits, memory, told, items, notes, sessions, pending>>
    BY <1>22 DEF Shelf!RemovePaper, Shelf!Write
  <2>2. NothingIsLeft'
    BY <1>0, <2>1 DEF NothingIsLeft
  <2> QED
    BY <1>0, <1>7, <2>1, <2>2 DEF LibraryTypes
(* Notes are written to a project that is there. *)
<1>23. ASSUME project = "there", notes < MaxNotes, notes' = notes + 1,
              memory' = memory, told' \subseteq told \union {notes + 1},
              \A n \in DOMAIN items' : n \in 1..MaxNotes /\ items'[n] \in {"user", "agent"},
              UNCHANGED <<project, papers, links, edits, sessions, pending>>
       PROVE  ShelfInv'
  <2>1. notes + 1 \in 1..MaxNotes
    BY <1>0, <1>23
  <2>2. told' \in SUBSET (1..MaxNotes)
    BY <1>0, <1>23, <2>1 DEF LibraryTypes
  <2>3. NothingIsLeft'
    BY <1>0, <1>23 DEF NothingIsLeft
  <2> QED
    BY <1>0, <1>7, <1>23, <2>1, <2>2, <2>3 DEF LibraryTypes
<1>24. CASE Shelf!AppendNote \/ Shelf!OverwriteMemory
  <2>1. /\ project = "there" /\ notes < MaxNotes /\ notes' = notes + 1
        /\ UNCHANGED <<project, papers, links, edits, items, sessions, pending>>
    BY <1>24 DEF Shelf!AppendNote, Shelf!OverwriteMemory
  <2>2. memory' = memory
    BY <1>24 DEF Shelf!AppendNote, Shelf!OverwriteMemory, Shelf!Assign
  <2>3. told' \subseteq told \union {notes + 1}
    BY <1>24 DEF Shelf!AppendNote, Shelf!OverwriteMemory
  <2> QED
    BY <1>0, <1>23, <2>1, <2>2, <2>3 DEF LibraryTypes
<1>25. CASE Shelf!CreateNote \/ Shelf!AgentNote
  <2>1. PICK by \in {"user", "agent"} :
          /\ project = "there" /\ notes < MaxNotes /\ notes' = notes + 1
          /\ items' = [n \in DOMAIN items \union {notes + 1} |->
                         IF n = notes + 1 THEN by ELSE items[n]]
          /\ UNCHANGED <<project, papers, links, edits, memory, told, sessions, pending>>
    BY <1>25 DEF Shelf!CreateNote, Shelf!AgentNote
  <2>2. \A n \in DOMAIN items' : n \in 1..MaxNotes /\ items'[n] \in {"user", "agent"}
    <3>1. DOMAIN items' = DOMAIN items \union {notes + 1} /\ notes + 1 \in 1..MaxNotes
      BY <1>0, <2>1
    <3> QED
      BY <1>0, <2>1, <3>1 DEF LibraryTypes
  <2> QED
    BY <1>23, <2>1, <2>2
<1>26. ASSUME NEW n \in DOMAIN items, Shelf!DeleteNote(n) PROVE ShelfInv'
  <2>1. items' = [k \in DOMAIN items \ {n} |-> items[k]]
        /\ UNCHANGED <<project, papers, links, edits, memory, told, notes, sessions, pending>>
    BY <1>26 DEF Shelf!DeleteNote
  <2>2. NothingIsLeft'
    BY <1>0, <2>1 DEF NothingIsLeft
  <2>3. \A k \in DOMAIN items' : k \in 1..MaxNotes /\ items'[k] \in {"user", "agent"}
    BY <1>0, <2>1 DEF LibraryTypes
  <2> QED
    BY <1>0, <1>7, <2>1, <2>2, <2>3 DEF LibraryTypes
<1>27. ASSUME NEW s \in Sessions, Shelf!DeleteSession(s) PROVE ShelfInv'
  <2>1. /\ Shelf!Close([t \in Sessions |-> t = s])
        /\ UNCHANGED <<project, papers, links, edits, memory, told, items, notes, pending>>
    BY <1>27 DEF Shelf!DeleteSession
  <2>2. sessions' \in [Sessions -> Shelf!Session]
    BY <1>5, <2>1
  <2>3. LibraryTypes'
    BY <1>0, <2>1, <2>2 DEF LibraryTypes, ToAdd, ToUpdate, ToOpen, ToSave, ToErase, Shelf!Session,
       Shelf!Link, Shelf!Turns
  <2>4. NothingIsLeft'
    BY <1>0, <2>1 DEF NothingIsLeft
  <2>5. ASSUME NEW t \in Sessions PROVE SessionBelongs(t)'
    <3>1. SessionBelongs(t)
      BY <1>0
    <3>2. CASE sessions'[t] = sessions[t]
      BY <2>1, <3>1, <3>2 DEF SessionBelongs, Shelf!Turns
    <3>3. CASE sessions'[t].state = "gone" /\ \A u \in Shelf!Turns : sessions'[t].place[u] = 0
      BY <3>3 DEF SessionBelongs, Shelf!Turns
    <3> QED
      BY <1>5, <2>1, <3>2, <3>3
  <2> QED
    BY <1>6, <2>1, <2>3, <2>4, <2>5 DEF ShelfInv

(* What a request says of a session that is not open does nothing. *)
<1>28. ASSUME NEW r \in pending, Shelf!OpenSession(r) PROVE ShelfInv'
  <2>1. r \in Request /\ r.kind = "open"
    BY <1>1, <1>28 DEF Shelf!OpenSession
  <2>2. /\ Shelf!Answers(r) /\ UNCHANGED <<project, papers, links, edits, memory, told, items, notes>>
    BY <1>28 DEF Shelf!OpenSession
  <2>3. /\ r.session \in Sessions /\ r.paper \in Papers \union {None} /\ r.inProject \in BOOLEAN
    BY <1>4, <2>1 DEF ToOpen
  <2>4. /\ r.paper # None \/ r.inProject
        /\ sessions[r.session].state = "none"
        /\ \A q \in pending : q.kind = "open" /\ q.session = r.session => q = r
    BY <1>0, <2>1 DEF RequestsFit
  <2>5. NothingIsLeft'
    BY <1>0, <2>2 DEF NothingIsLeft
  <2>6. CASE sessions' = sessions
    BY <1>0, <1>18, <2>2, <2>5, <2>6
  <2>7. CASE /\ r.inProject => project = "there"
             /\ r.paper \in papers \union {None}
             /\ sessions' = [sessions EXCEPT ![r.session] =
               [Shelf!NoSession EXCEPT !.state = "open", !.inProject = r.inProject, !.paper = r.paper]]
    <3>1. PICK new : new = [Shelf!NoSession EXCEPT !.state = "open", !.inProject = r.inProject, !.paper = r.paper]
      OBVIOUS
    <3>2. /\ new \in Shelf!Session /\ new.state = "open" /\ new.inProject = r.inProject
          /\ new.paper = r.paper /\ new.saved = 0
      <4>1. Shelf!NoSession \in Shelf!Session /\ Shelf!NoSession.saved = 0
        BY NewSession DEF Shelf!NoSession
      <4> QED
        BY <2>3, <3>1, <4>1 DEF Shelf!Session
    <3>3. sessions' = [sessions EXCEPT ![r.session] = new]
      BY <2>7, <3>1
    <3>4. sessions' \in [Sessions -> Shelf!Session]
      BY <1>0, <2>3, <3>2, <3>3
    <3>5. ASSUME NEW s \in Sessions PROVE SessionBelongs(s)'
      <4>1. CASE s = r.session
        BY <1>0, <2>2, <2>3, <2>4, <2>7, <3>2, <3>3, <4>1 DEF SessionBelongs, Shelf!Turns
      <4>2. CASE s # r.session
        BY <1>0, <2>2, <3>3, <4>2 DEF SessionBelongs, Shelf!Turns
      <4> QED
        BY <4>1, <4>2
    <3>6. ASSUME NEW q \in pending \ {r}, q.kind = "open"
          PROVE  sessions'[q.session].state = sessions[q.session].state
      <4>1. q.session \in Sessions /\ q.session # r.session
        BY <1>1, <1>4, <2>4, <3>6 DEF ToOpen
      <4> QED
        BY <1>0, <3>3, <4>1
    <3>7. ASSUME NEW q \in pending \ {r}, q.kind = "save"
          PROVE  sessions'[q.session].saved <= sessions[q.session].saved
      <4>1. q.session \in Sessions
        BY <1>1, <1>4, <3>7 DEF ToSave
      <4>2. sessions[q.session].saved \in 0..MaxTurns
        BY <1>0, <4>1 DEF Shelf!Session
      <4>3. sessions'[q.session].saved = 0 \/ sessions'[q.session] = sessions[q.session]
        BY <1>0, <3>2, <3>3, <4>1
      <4> QED
        BY <4>2, <4>3
    <3> QED
      BY <1>0, <1>17, <2>2, <2>5, <3>4, <3>5, <3>6, <3>7
  <2> QED
    BY <1>28, <2>6, <2>7 DEF Shelf!OpenSession
(* A session that stays open with what it belongs to. *)
<1>29. ASSUME NEW r \in pending, Shelf!Answers(r), NEW s \in Sessions, NEW new \in Shelf!Session,
              UNCHANGED <<project, papers, links, edits, memory, told, items, notes>>,
              sessions[s].state = "open", sessions' = [sessions EXCEPT ![s] = new],
              new.state = "open", new.inProject = sessions[s].inProject, new.paper = sessions[s].paper,
              \A q \in pending \ {r} : q.kind = "save" => new.saved <= sessions[s].saved
       PROVE  ShelfInv'
  <2>1. sessions' \in [Sessions -> Shelf!Session]
    BY <1>0, <1>29
  <2>2. NothingIsLeft'
    BY <1>0, <1>29 DEF NothingIsLeft
  <2>3. ASSUME NEW t \in Sessions PROVE SessionBelongs(t)'
    <3>1. SessionBelongs(t)
      BY <1>0
    <3>2. CASE t = s
      BY <1>0, <1>29, <3>1, <3>2 DEF SessionBelongs, Shelf!Turns
    <3>3. CASE t # s
      BY <1>0, <1>29, <3>1, <3>3 DEF SessionBelongs, Shelf!Turns
    <3> QED
      BY <3>2, <3>3
  <2>4. ASSUME NEW q \in pending \ {r}, q.kind = "open"
        PROVE  sessions'[q.session].state = sessions[q.session].state
    <3>1. q.session \in Sessions
      BY <1>1, <1>4, <2>4 DEF ToOpen
    <3> QED
      BY <1>0, <1>29, <3>1
  <2>5. ASSUME NEW q \in pending \ {r}, q.kind = "save"
        PROVE  sessions'[q.session].saved <= sessions[q.session].saved
    <3>1. q.session \in Sessions
      BY <1>1, <1>4, <2>5 DEF ToSave
    <3>2. sessions[q.session].saved \in 0..MaxTurns
      BY <1>0, <3>1 DEF Shelf!Session
    <3>3. CASE q.session = s
      BY <1>0, <1>29, <2>5, <3>3
    <3>4. CASE q.session # s
      BY <1>0, <1>29, <3>1, <3>2, <3>4
    <3> QED
      BY <3>3, <3>4
  <2> QED
    BY <1>0, <1>17, <1>29, <2>1, <2>2, <2>3, <2>4, <2>5
<1>30. ASSUME NEW r \in pending, Shelf!SaveTurn(r) PROVE ShelfInv'
  <2>1. r \in Request /\ r.kind = "save"
    BY <1>1, <1>30 DEF Shelf!SaveTurn
  <2>2. Shelf!Answers(r) /\ UNCHANGED <<project, papers, links, edits, memory, told, items, notes>>
    BY <1>30 DEF Shelf!SaveTurn
  <2>3. r.session \in Sessions /\ r.count \in Nat
    BY <1>4, <2>1 DEF ToSave
  <2>4. sessions[r.session].saved < MaxTurns /\ \A q \in pending : q.kind = "save" => q = r
    BY <1>0, <2>1 DEF RequestsFit
  <2>5. NothingIsLeft'
    BY <1>0, <2>2 DEF NothingIsLeft
  <2>6. CASE sessions' = sessions
    BY <1>0, <1>18, <2>2, <2>5, <2>6
  <2>7. CASE sessions[r.session].state = "open"
    <3>1. PICK s : s = r.session
      OBVIOUS
    <3>2. PICK t : t = sessions[s].saved + 1
      OBVIOUS
    <3>3. PICK title : title = IF r.count = 0 THEN t ELSE sessions[s].title
      OBVIOUS
    <3>4. sessions' = [sessions EXCEPT ![s].place[t] = r.count + 1, ![s].saved = t, ![s].title = title]
      BY <1>0, <1>30, <2>3, <2>7, <3>1, <3>2, <3>3 DEF Shelf!SaveTurn
    <3>5. PICK place : place = [sessions[s].place EXCEPT ![t] = r.count + 1]
      OBVIOUS
    <3>8. PICK new : new = [sessions[s] EXCEPT !.place = place, !.saved = t, !.title = title]
      OBVIOUS
    <3>9. sessions' = [sessions EXCEPT ![s] = new]
      BY <1>0, <2>3, <3>1, <3>4, <3>5, <3>8
    <3>6. sessions[s] \in Shelf!Session /\ t \in 1..MaxTurns
      <4>1. sessions[s] \in Shelf!Session
        BY <1>0, <2>3, <3>1
      <4>2. sessions[s].saved \in 0..MaxTurns
        BY <4>1 DEF Shelf!Session
      <4> QED
        BY <2>4, <3>1, <3>2, <4>1, <4>2
    <3>7. /\ new \in Shelf!Session /\ new.state = sessions[s].state
          /\ new.inProject = sessions[s].inProject /\ new.paper = sessions[s].paper
      <4>1. place \in [Shelf!Turns -> Nat]
        <5>1. sessions[s].place \in [Shelf!Turns -> Nat]
          BY <3>6 DEF Shelf!Session
        <5>2. r.count + 1 \in Nat
          BY <2>3
        <5> QED
          BY <3>5, <5>1, <5>2
      <4>2. title \in 0..MaxTurns /\ t \in 0..MaxTurns
        BY <3>3, <3>6 DEF Shelf!Session
      <4> QED
        BY <3>6, <3>8, <4>1, <4>2 DEF Shelf!Session
    <3> QED
      BY <1>29, <2>2, <2>3, <2>4, <2>7, <3>1, <3>7, <3>9
  <2> QED
    BY <1>30, <2>6, <2>7 DEF Shelf!SaveTurn
<1>31. ASSUME NEW r \in pending, Shelf!EraseTurn(r) PROVE ShelfInv'
  <2>1. r \in Request /\ r.kind = "erase"
    BY <1>1, <1>31 DEF Shelf!EraseTurn
  <2>2. Shelf!Answers(r) /\ UNCHANGED <<project, papers, links, edits, memory, told, items, notes>>
    BY <1>31 DEF Shelf!EraseTurn
  <2>3. /\ r.session \in Sessions /\ r.turn \in Shelf!Turns /\ r.others \in SUBSET Shelf!Turns
        /\ r.place \in [Shelf!Turns -> Nat]
    BY <1>4, <2>1 DEF ToErase
  <2>5. NothingIsLeft'
    BY <1>0, <2>2 DEF NothingIsLeft
  <2>6. CASE sessions' = sessions
    BY <1>0, <1>18, <2>2, <2>5, <2>6
  <2>7. CASE sessions[r.session].state = "open"
    <3> DEFINE Earlier(t) == {u \in r.others : Shelf!Before(r.place, u, t)}
    <3>1. PICK s : s = r.session
      OBVIOUS
    <3>2. PICK place : place = [t \in Shelf!Turns |->
                      IF t = r.turn THEN 0
                      ELSE IF t \in r.others THEN Shelf!Cardinality(Earlier(t)) + 1
                      ELSE sessions[s].place[t]]
      OBVIOUS
    <3>3. PICK title : title = IF r.others = {} THEN 0
                      ELSE CHOOSE t \in r.others : Earlier(t) = {}
      OBVIOUS
    <3>4. sessions[s] \in Shelf!Session /\ s \in Sessions
      BY <1>0, <2>3, <3>1
    <3>5. sessions' = [sessions EXCEPT ![s].place = place, ![s].title = title]
      BY <1>31, <2>7, <3>1, <3>2, <3>3 DEF Shelf!EraseTurn
    <3>6. PICK new : new = [sessions[s] EXCEPT !.place = place, !.title = title]
      OBVIOUS
    <3>7. sessions' = [sessions EXCEPT ![s] = new]
      BY <1>0, <3>4, <3>5, <3>6
    <3>8. ASSUME NEW t \in Shelf!Turns PROVE place[t] \in Nat
      <4>1. IsFiniteSet(Shelf!Turns)
        BY FS_Interval DEF Shelf!Turns
      <4>2. Earlier(t) \subseteq Shelf!Turns
        BY <2>3
      <4>3. Shelf!Cardinality(Earlier(t)) \in Nat
        BY <4>1, <4>2, FS_Subset, FS_CardinalityType, ShelfCardinality
      <4>4. sessions[s].place[t] \in Nat
        BY <3>4 DEF Shelf!Session
      <4> HIDE DEF Earlier
      <4> QED
        BY <3>2, <4>3, <4>4
    <3>9. place \in [Shelf!Turns -> Nat]
      BY <3>2, <3>8
    <3>10. title \in 0..MaxTurns
      <4>1. CASE r.others = {}
        BY <3>3, <4>1
      <4>2. CASE r.others # {}
        <5>1. \E t \in r.others : Earlier(t) = {}
          BY <2>3, <4>2, FirstTurn
        <5> HIDE DEF Earlier
        <5>2. title \in r.others
          BY <3>3, <4>2, <5>1
        <5> QED
          BY <2>3, <5>2 DEF Shelf!Turns
      <4> QED
        BY <4>1, <4>2
    <3>11. /\ new \in Shelf!Session /\ new.state = sessions[s].state /\ new.saved = sessions[s].saved
           /\ new.inProject = sessions[s].inProject /\ new.paper = sessions[s].paper
      BY <3>4, <3>6, <3>9, <3>10 DEF Shelf!Session
    <3>12. new.saved <= sessions[s].saved
      BY <3>4, <3>11 DEF Shelf!Session
    <3> QED
      BY <1>29, <2>2, <2>7, <3>1, <3>4, <3>7, <3>11, <3>12
  <2> QED
    BY <1>31, <2>6, <2>7 DEF Shelf!EraseTurn
<1> QED
  BY <1>8, <1>9, <1>10, <1>12, <1>13, <1>14, <1>15, <1>16, <1>20, <1>21, <1>22, <1>24, <1>25, <1>26, <1>27,
     <1>28, <1>30, <1>31 DEF Shelf!LibraryNext

(* A turn of a session loses its place only to the request that erases it.  *)
LEMMA ShelfStepErases ==
  ASSUME ShelfInv, Shelf!LibraryNext, NEW s \in Sessions,
         sessions[s].state = "open", sessions'[s].state = "open",
         NEW t \in Shelf!Saved(s), sessions'[s].place[t] = 0
  PROVE  \E r \in pending \ pending' : r.kind = "erase" /\ r.session = s /\ r.turn = t
<1>1. /\ sessions \in [Sessions -> Shelf!Session] /\ t \in Shelf!Turns /\ sessions[s].place[t] > 0
      /\ sessions[s] \in Shelf!Session /\ sessions[s].place \in [Shelf!Turns -> Nat]
  BY DEF ShelfInv, LibraryTypes, Shelf!Saved, Shelf!Session
<1>2. sessions'[s].place[t] # sessions[s].place[t] /\ sessions'[s] # sessions[s] /\ sessions' # sessions
  BY <1>1
<1>3. ASSUME NEW gone, Shelf!Close(gone) PROVE FALSE
  <2>1. sessions'[s] = IF sessions[s].state = "open" /\ gone[s]
                       THEN [Shelf!NoSession EXCEPT !.state = "gone"] ELSE sessions[s]
    BY <1>3 DEF Shelf!Close
  <2> QED
    BY <1>2, <2>1, NewSession
<1>4. PICK r \in pending : Shelf!OpenSession(r) \/ Shelf!SaveTurn(r) \/ Shelf!EraseTurn(r)
  <2>1. ~Shelf!DeleteProject /\ (\A p \in Papers : ~Shelf!DeletePaper(p))
        /\ \A u \in Sessions : ~Shelf!DeleteSession(u)
    BY <1>3 DEF Shelf!DeleteProject, Shelf!DeletePaper, Shelf!DeleteSession
  <2>2. /\ ~Shelf!CreateProject
        /\ \A p \in Papers : ~Shelf!LookToAdd(p) /\ ~Shelf!LookToUpdate(p) /\ ~Shelf!RemovePaper(p)
        /\ ~Shelf!AppendNote /\ ~Shelf!OverwriteMemory /\ ~Shelf!CreateNote /\ ~Shelf!AgentNote
        /\ \A n \in DOMAIN items : ~Shelf!DeleteNote(n)
    BY <1>2 DEF Shelf!CreateProject, Shelf!LookToAdd, Shelf!LookToUpdate, Shelf!RemovePaper,
       Shelf!AppendNote, Shelf!OverwriteMemory, Shelf!CreateNote, Shelf!AgentNote, Shelf!DeleteNote
  <2>3. /\ \A u \in Sessions : /\ ~Shelf!LookToOpen(u) /\ ~Shelf!LookToSave(u)
                               /\ \A v \in Shelf!Turns : ~Shelf!LookToErase(u, v)
        /\ \A r \in pending : ~Shelf!Add(r) /\ ~Shelf!Update(r)
    BY <1>2 DEF Shelf!LookToOpen, Shelf!LookToSave, Shelf!LookToErase, Shelf!Add, Shelf!Update
  <2> QED
    BY <2>1, <2>2, <2>3 DEF Shelf!LibraryNext
<1>5. r \in ToAdd \union ToUpdate \union ToOpen \union ToSave \union ToErase
  BY DEF ShelfInv, LibraryTypes
<1>6. ~Shelf!OpenSession(r)
  <2> SUFFICES ASSUME Shelf!OpenSession(r) PROVE FALSE
    OBVIOUS
  <2>1. r.kind = "open"
    BY DEF Shelf!OpenSession
  <2>2. r.session # s
    BY <2>1 DEF ShelfInv, RequestsFit
  <2>3. PICK new : new = [Shelf!NoSession EXCEPT !.state = "open", !.inProject = r.inProject, !.paper = r.paper]
    OBVIOUS
  <2>4. sessions' = [sessions EXCEPT ![r.session] = new] \/ sessions' = sessions
    BY <2>3 DEF Shelf!OpenSession
  <2> QED
    BY <1>1, <1>2, <2>2, <2>4
<1>7. ~Shelf!SaveTurn(r)
  <2> SUFFICES ASSUME Shelf!SaveTurn(r) PROVE FALSE
    OBVIOUS
  <2>1. r.kind = "save"
    BY DEF Shelf!SaveTurn
  <2>2. r.count \in Nat /\ r.session \in Sessions
    BY <1>5, <2>1 DEF ToAdd, ToUpdate, ToOpen, ToSave, ToErase
  <2>3. PICK u : u = sessions[r.session].saved + 1
    OBVIOUS
  <2>4. PICK title : title = IF r.count = 0 THEN u ELSE sessions[r.session].title
    OBVIOUS
  <2>5. sessions' = [sessions EXCEPT ![r.session].place[u] = r.count + 1, ![r.session].saved = u,
                                     ![r.session].title = title]
    BY <1>1, <1>2, <2>2, <2>3, <2>4 DEF Shelf!SaveTurn
  <2>6. r.session = s
    BY <1>1, <1>2, <2>5
  <2>7. sessions'[s].place = [sessions[s].place EXCEPT ![u] = r.count + 1]
    BY <1>1, <2>2, <2>5, <2>6 DEF Shelf!Session
  <2>8. sessions'[s].place[t] = r.count + 1 \/ sessions'[s].place[t] = sessions[s].place[t]
    BY <1>1, <2>7
  <2> QED
    BY <1>2, <2>2, <2>8
<1>8. Shelf!EraseTurn(r)
  BY <1>4, <1>6, <1>7
<1>9. r.kind = "erase" /\ pending' = pending \ {r}
  BY <1>8 DEF Shelf!EraseTurn, Shelf!Answers
<1>10. /\ r.session \in Sessions /\ r.turn \in Shelf!Turns /\ r.others \in SUBSET Shelf!Turns
  BY <1>5, <1>9 DEF ToAdd, ToUpdate, ToOpen, ToSave, ToErase
<1> DEFINE Earlier(u) == {v \in r.others : Shelf!Before(r.place, v, u)}
<1>11. PICK place : place = [u \in Shelf!Turns |->
                      IF u = r.turn THEN 0
                      ELSE IF u \in r.others THEN Shelf!Cardinality(Earlier(u)) + 1
                      ELSE sessions[r.session].place[u]]
  OBVIOUS
<1>12. PICK title : title = IF r.others = {} THEN 0
                      ELSE CHOOSE u \in r.others : Earlier(u) = {}
  OBVIOUS
<1>13. sessions' = [sessions EXCEPT ![r.session].place = place, ![r.session].title = title]
  BY <1>2, <1>8, <1>11, <1>12 DEF Shelf!EraseTurn
<1>14. r.session = s
  BY <1>1, <1>2, <1>13
<1>15. sessions'[s].place = place
  BY <1>1, <1>13, <1>14 DEF Shelf!Session
<1>16. Shelf!Cardinality(Earlier(t)) \in Nat
  <2>1. IsFiniteSet(Shelf!Turns)
    BY ShelfNumbers, FS_Interval DEF Shelf!Turns
  <2>2. Earlier(t) \subseteq Shelf!Turns
    BY <1>10
  <2> QED
    BY <2>1, <2>2, FS_Subset, FS_CardinalityType, ShelfCardinality
<1> HIDE DEF Earlier
<1>17. r.turn = t
  BY <1>1, <1>2, <1>11, <1>14, <1>15, <1>16
<1> QED
  BY <1>9, <1>14, <1>17

-----------------------------------------------------------------------------
(* ReadingCaches *)

Reading == [kind : Cache!Kinds, from : 0..MaxReparses + 1,
            made : [Cache!Parts -> Cache!Part \union {None}],
            phase : {"make", "store"}, found : BOOLEAN]

CacheTypes ==
  /\ parsed \in 0..MaxReparses + 1
  /\ row \in [Cache!Kinds -> [Cache!Parts -> Cache!Part] \union {None}]
  /\ reading \in [Readers -> Reading \union {None}]
  /\ replies \in [Readers -> {None, 200, 400, 500}]

(* What a request has made so far is of the parse it read when it began, or *)
(* of a later one where the agent reads on, and no part of an              *)
(* interpretation has failed.                                              *)
MadeIsOf(r) ==
  reading[r] # None =>
    IF reading[r].kind = "summary"
    THEN /\ reading[r].from \in 1..parsed
         /\ \A p \in Cache!Parts : reading[r].made[p] # None =>
              reading[r].made[p] \in {Cache!From(reading[r].from), Cache!Failed}
    ELSE \A p \in Cache!Parts : reading[r].made[p] # None => reading[r].made[p] # Cache!Failed

CacheInv == CacheTypes /\ Cache!RowIsOfOneParse /\ \A r \in Readers : MadeIsOf(r)

LEMMA CacheNumbers == MaxReparses \in Nat /\ "summary" \notin Interpretations
BY RequestsAssumption DEF Cache!CacheAssumption

LEMMA CacheShows ==
  ASSUME CacheInv
  PROVE  Cache!CacheTypeOK
BY DEF CacheInv, CacheTypes, Cache!CacheTypeOK

LEMMA CacheInit ==
  ASSUME Cache!CacheInit
  PROVE  CacheInv
<1>1. parsed \in 0..MaxReparses + 1
  BY CacheNumbers DEF Cache!CacheInit
<1> QED
  BY <1>1 DEF Cache!CacheInit, CacheInv, CacheTypes, Cache!RowIsOfOneParse, MadeIsOf

LEMMA CacheStepInv ==
  ASSUME CacheInv, Cache!CacheNext
  PROVE  CacheInv'
<1> USE CacheNumbers
<1>0. /\ CacheTypes /\ Cache!RowIsOfOneParse /\ \A r \in Readers : MadeIsOf(r)
      /\ parsed \in 0..MaxReparses + 1
      /\ reading \in [Readers -> Reading \union {None}]
      /\ replies \in [Readers -> {None, 200, 400, 500}]
  BY DEF CacheInv, CacheTypes
<1>1. CASE Cache!Reparse
  <2>1. parsed' = parsed + 1 /\ parsed \in 1..MaxReparses /\ UNCHANGED <<row, reading, replies>>
    BY <1>1 DEF Cache!Reparse
  <2>2. CacheTypes'
    BY <1>0, <2>1 DEF CacheTypes
  <2>3. 1..parsed \subseteq 1..parsed'
    BY <1>0, <2>1
  <2>4. Cache!RowIsOfOneParse'
    BY <1>0, <2>1, <2>3 DEF Cache!RowIsOfOneParse
  <2>5. \A r \in Readers : MadeIsOf(r)'
    BY <1>0, <2>1, <2>3 DEF MadeIsOf
  <2> QED
    BY <2>2, <2>4, <2>5 DEF CacheInv
(* A request alone goes on. *)
<1>2. ASSUME NEW r \in Readers, UNCHANGED <<parsed, row>>,
             \/ UNCHANGED reading
             \/ reading' = [reading EXCEPT ![r] = None]
             \/ /\ reading' \in [Readers -> Reading \union {None}] /\ MadeIsOf(r)'
                /\ \A q \in Readers \ {r} : reading'[q] = reading[q],
             replies' \in [Readers -> {None, 200, 400, 500}]
      PROVE  CacheInv'
  <2>1. reading' \in [Readers -> Reading \union {None}]
    BY <1>0, <1>2
  <2>2. CacheTypes' /\ Cache!RowIsOfOneParse'
    BY <1>0, <1>2, <2>1 DEF CacheTypes, Cache!RowIsOfOneParse
  <2>3. ASSUME NEW q \in Readers PROVE MadeIsOf(q)'
    <3>1. CASE q # r
      BY <1>0, <1>2, <3>1 DEF MadeIsOf
    <3>2. CASE q = r
      BY <1>0, <1>2, <3>2 DEF MadeIsOf
    <3> QED
      BY <3>1, <3>2
  <2> QED
    BY <2>2, <2>3 DEF CacheInv
<1>3. ASSUME NEW r \in Readers, NEW k \in Cache!Kinds, Cache!Ask(r, k) PROVE CacheInv'
  <2>1. CASE k = "summary" /\ parsed = 0
    BY <1>0, <1>2, <1>3, <2>1 DEF Cache!Ask
  <2>2. CASE ~ (k = "summary" /\ parsed = 0)
    <3> DEFINE new == [kind |-> k, from |-> parsed, made |-> Cache!Nothing, phase |-> "make",
                       found |-> FALSE]
    <3>1. reading' = [reading EXCEPT ![r] = new] /\ UNCHANGED <<parsed, row, replies>>
      BY <1>3, <2>2 DEF Cache!Ask
    <3>2. new \in Reading
      BY <1>0 DEF Reading, Cache!Nothing
    <3>3. k = "summary" => parsed \in 1..parsed
      BY <1>0, <2>2
    <3>4. new.kind = k /\ new.from = parsed /\ \A p \in Cache!Parts : new.made[p] = None
      BY DEF Cache!Nothing
    <3> HIDE DEF new
    <3>5. reading'[r] = new
      BY <1>0, <3>1
    <3>6. MadeIsOf(r)'
      BY <3>1, <3>3, <3>4, <3>5 DEF MadeIsOf
    <3>7. reading' \in [Readers -> Reading \union {None}]
          /\ \A q \in Readers \ {r} : reading'[q] = reading[q]
      BY <1>0, <3>1, <3>2
    <3> QED
      BY <1>0, <1>2, <3>1, <3>6, <3>7
  <2> QED
    BY <2>1, <2>2
<1>4. ASSUME NEW r \in Readers, Cache!Extract(r) PROVE CacheInv'
  <2>1. reading[r] \in Reading /\ reading[r] # None /\ reading[r].kind = "summary"
    BY <1>0, <1>4 DEF Cache!Extract
  <2>2. PICK part : part = Cache!NextPart(reading[r].made)
    OBVIOUS
  <2>3. PICK result \in {Cache!From(reading[r].from), Cache!Failed} :
          reading' = [reading EXCEPT ![r].made[part] = result]
    BY <1>4, <2>2 DEF Cache!Extract
  <2>4. UNCHANGED <<parsed, row, replies>>
    BY <1>4 DEF Cache!Extract
  <2>5. result \in Cache!Part
    BY <2>1 DEF Reading, Cache!Part
  <2>6. reading'[r] = [reading[r] EXCEPT !.made[part] = result]
    BY <1>0, <2>3
  <2>7. /\ reading'[r] \in Reading /\ reading'[r].kind = "summary"
        /\ reading'[r].from = reading[r].from
        /\ \A p \in Cache!Parts : reading'[r].made[p] \in {reading[r].made[p], result}
    BY <2>1, <2>5, <2>6 DEF Reading
  <2>8. MadeIsOf(r)'
    BY <1>0, <2>1, <2>3, <2>4, <2>7 DEF MadeIsOf
  <2>9. reading' \in [Readers -> Reading \union {None}]
        /\ \A q \in Readers \ {r} : reading'[q] = reading[q]
    BY <1>0, <2>3, <2>7
  <2> QED
    BY <1>0, <1>2, <2>4, <2>8, <2>9
<1>5. ASSUME NEW r \in Readers, Cache!Interpret(r) PROVE CacheInv'
  <2>1. reading[r] \in Reading /\ reading[r] # None /\ reading[r].kind # "summary"
    BY <1>0, <1>5 DEF Cache!Interpret
  <2>2. CASE replies' = [replies EXCEPT ![r] = 500] /\ reading' = [reading EXCEPT ![r] = None]
    BY <1>0, <1>2, <1>5, <2>2 DEF Cache!Interpret
  <2>3. ASSUME NEW seen \in [Cache!Parts -> reading[r].from..parsed],
               reading' = [reading EXCEPT ![r].made = [p \in Cache!Parts |-> Cache!From(seen[p])]],
               UNCHANGED replies
        PROVE  CacheInv'
    <3>1. \A p \in Cache!Parts : seen[p] \in 0..MaxReparses + 1
      BY <1>0, <2>1, <2>3 DEF Reading
    <3>2. \A p \in Cache!Parts : Cache!From(seen[p]) \in Cache!Part /\ Cache!From(seen[p]) # Cache!Failed
      BY <3>1 DEF Cache!Part, Cache!From, Cache!Failed
    <3> DEFINE made == [p \in Cache!Parts |-> Cache!From(seen[p])]
    <3>3. made \in [Cache!Parts -> Cache!Part \union {None}] /\ \A p \in Cache!Parts : made[p] # Cache!Failed
      BY <3>2
    <3> HIDE DEF made
    <3>4. reading'[r] = [reading[r] EXCEPT !.made = made]
      BY <1>0, <2>3 DEF made
    <3>5. reading'[r] \in Reading /\ reading'[r].kind # "summary" /\ reading'[r].made = made
      BY <2>1, <3>3, <3>4 DEF Reading
    <3>6. MadeIsOf(r)'
      BY <3>3, <3>5 DEF MadeIsOf
    <3>7. reading' \in [Readers -> Reading \union {None}]
          /\ \A q \in Readers \ {r} : reading'[q] = reading[q]
      BY <1>0, <2>3, <3>5
    <3>8. UNCHANGED <<parsed, row>>
      BY <1>5 DEF Cache!Interpret
    <3> QED
      BY <1>0, <1>2, <2>3, <3>6, <3>7, <3>8
  <2> QED
    BY <1>5, <2>2, <2>3 DEF Cache!Interpret
<1>6. ASSUME NEW r \in Readers, Cache!LookUp(r) PROVE CacheInv'
  <2>1. reading[r] \in Reading /\ reading[r] # None
    BY <1>0, <1>6 DEF Cache!LookUp, Cache!Made
  <2>2. reading'[r] = [reading[r] EXCEPT !.phase = "store", !.found = row[reading[r].kind] # None]
    BY <1>0, <1>6 DEF Cache!LookUp
  <2>3. /\ reading'[r] \in Reading /\ reading'[r].kind = reading[r].kind
        /\ reading'[r].from = reading[r].from /\ reading'[r].made = reading[r].made
    BY <2>1, <2>2 DEF Reading
  <2>4. UNCHANGED <<parsed, row, replies>>
    BY <1>6 DEF Cache!LookUp
  <2>5. MadeIsOf(r)'
    BY <1>0, <2>1, <2>3, <2>4 DEF MadeIsOf
  <2>6. reading' \in [Readers -> Reading \union {None}]
        /\ \A q \in Readers \ {r} : reading'[q] = reading[q]
    BY <1>0, <1>6, <2>3 DEF Cache!LookUp
  <2> QED
    BY <1>0, <1>2, <2>4, <2>5, <2>6
<1>7. ASSUME NEW r \in Readers, Cache!Store(r) PROVE CacheInv'
  <2>1. reading[r] \in Reading /\ reading[r] # None /\ \A p \in Cache!Parts : reading[r].made[p] # None
    BY <1>0, <1>7 DEF Cache!Store, Cache!Made
  <2>2. reading[r].made \in [Cache!Parts -> Cache!Part] /\ reading[r].kind \in Cache!Kinds
    BY <2>1 DEF Reading
  <2>3. /\ row' = row \/ row' = [row EXCEPT ![reading[r].kind] = reading[r].made]
        /\ replies' \in [Readers -> {None, 200, 400, 500}]
        /\ reading' = [reading EXCEPT ![r] = None] /\ UNCHANGED parsed
    BY <1>0, <1>7 DEF Cache!Store
  <2>4. CacheTypes'
    BY <1>0, <2>2, <2>3 DEF CacheTypes
  <2>5. \A q \in Readers : MadeIsOf(q)'
    BY <1>0, <2>3 DEF MadeIsOf
  <2>6. ASSUME NEW k \in Cache!Kinds, row'[k] # None
        PROVE  IF k = "summary"
               THEN \E n \in 1..parsed : \A p \in Cache!Parts : row'[k][p] \in {Cache!From(n), Cache!Failed}
               ELSE \A p \in Cache!Parts : row'[k][p] # Cache!Failed
    <3>1. CASE row'[k] = row[k]
      BY <1>0, <2>6, <3>1 DEF Cache!RowIsOfOneParse
    <3>2. CASE row'[k] # row[k]
      <4>1. k = reading[r].kind /\ row'[k] = reading[r].made
        BY <1>0, <2>2, <2>3, <3>2 DEF CacheTypes
      <4> QED
        BY <1>0, <2>1, <4>1 DEF MadeIsOf
    <3> QED
      BY <3>1, <3>2
  <2>7. Cache!RowIsOfOneParse'
    BY <2>3, <2>6 DEF Cache!RowIsOfOneParse
  <2> QED
    BY <2>4, <2>5, <2>7 DEF CacheInv
<1> QED
  BY <1>1, <1>3, <1>4, <1>5, <1>6, <1>7 DEF Cache!CacheNext

LEMMA CacheStepTold ==
  ASSUME CacheInv, Cache!CacheNext, NEW k \in Cache!Kinds, row'[k] # row[k]
  PROVE  \E r \in Readers : reading[r] # None /\ reading[r].kind = k /\ replies'[r] = 200
<1>1. PICK r \in Readers : Cache!Store(r)
  BY DEF Cache!CacheNext, Cache!Reparse, Cache!Ask, Cache!Extract, Cache!Interpret, Cache!LookUp
<1>2. reading[r] # None /\ row \in [Cache!Kinds -> [Cache!Parts -> Cache!Part] \union {None}]
      /\ replies \in [Readers -> {None, 200, 400, 500}]
  BY <1>1 DEF Cache!Store, Cache!Made, CacheInv, CacheTypes
<1>3. reading[r].kind = k /\ replies'[r] = 200
  BY <1>1, <1>2 DEF Cache!Store
<1> QED
  BY <1>2, <1>3

-----------------------------------------------------------------------------
(* TaskRecords *)

RecordUse == [at : {"idle", "open", "replace", "publish", "forget"},
               record : Store!Record, update : 0..MaxUpdates]

RecordTypes ==
  /\ onDisk \in {None} \union Store!File
  /\ temporary \in {None} \union Processes /\ inRedis \in {None} \union Store!Record
  /\ redisUp \in BOOLEAN /\ resting \subseteq Processes /\ overlapped \in BOOLEAN
  /\ user \in [Processes -> RecordUse]
  /\ \A p \in Processes : user[p].at = "idle" => user[p] = Store!Idle
  /\ updates \in 0..MaxUpdates + 1 /\ applied \in {None} \union Store!Record
  /\ outages \in 0..MaxOutages

(* As long as the processes take turns, one of them is at the record, and   *)
(* the temporary file is its own.                                          *)
TurnsAreTaken ==
  /\ \A p, q \in Processes : user[p].at # "idle" /\ user[q].at # "idle" => p = q
  /\ \A p \in Processes : user[p].at = "replace" => temporary = p
  /\ onDisk # None => onDisk.whole

(* What the record of an update has: what was applied and the update.       *)
AndApplied(update) == (IF applied = None THEN {} ELSE applied) \union {update}

(* With Redis there all the time, the file has what was applied, except     *)
(* between the two halves of a write or a removal, and Redis has the same  *)
(* or nothing.                                                             *)
FileIsCurrent ==
  /\ redisUp /\ resting = {}
  /\ updates = 0 => applied = None /\ \A p \in Processes : user[p].at = "idle"
  /\ \A p \in Processes :
       /\ user[p].at \in {"open", "replace", "publish"} =>
            user[p].record = AndApplied(user[p].update)
       /\ user[p].at = "publish" => onDisk # None /\ onDisk.of = user[p].record
       /\ user[p].at = "forget" => onDisk = None
  /\ (\A p \in Processes : user[p].at \notin {"publish", "forget"}) =>
       IF applied = None THEN onDisk = None /\ inRedis = None
       ELSE onDisk # None /\ onDisk.of = applied /\ inRedis \in {None, applied}

RecordInv ==
  /\ RecordTypes
  /\ ~overlapped => TurnsAreTaken /\ (outages = 0 => FileIsCurrent)

LEMMA RecordNumbers ==
  /\ MaxUpdates \in Nat /\ MaxOutages \in Nat
  /\ None \notin Processes /\ None \notin Store!Record /\ None \notin Store!File
BY RequestsAssumption DEF Store!RecordsAssumption

LEMMA RecordShows ==
  ASSUME RecordInv
  PROVE  Store!RecordsTypeOK /\ Store!RecordsAreKept
<1>1. Store!RecordsTypeOK
  BY DEF RecordInv, RecordTypes, RecordUse, Store!RecordsTypeOK
<1>2. ASSUME ~overlapped PROVE onDisk # None => onDisk.whole
  BY <1>2 DEF RecordInv, TurnsAreTaken
<1>3. ASSUME ~overlapped, outages = 0, Store!Quiet, NEW p \in Processes
      PROVE  Store!Found(p) = applied
  <2>1. FileIsCurrent /\ (onDisk # None => onDisk.whole)
    BY <1>3 DEF RecordInv, TurnsAreTaken
  <2>2. \A q \in Processes : user[q].at \notin {"publish", "forget"}
    BY <1>3 DEF Store!Quiet, Store!Idle
  <2> QED
    BY <2>1, <2>2 DEF FileIsCurrent, Store!Found, Store!Reaches
<1> QED
  BY <1>1, <1>2, <1>3 DEF Store!RecordsAreKept

LEMMA RecordInit ==
  ASSUME Store!RecordsInit
  PROVE  RecordInv
<1>1. Store!Idle \in RecordUse /\ Store!Idle.at = "idle"
  BY RecordNumbers DEF Store!Idle, RecordUse, Store!Record
<1>2. user = [p \in Processes |-> Store!Idle] /\ \A p \in Processes : user[p] = Store!Idle
  BY DEF Store!RecordsInit
<1>3. user \in [Processes -> RecordUse]
  BY <1>1, <1>2
<1>4. updates \in 0..MaxUpdates + 1 /\ outages \in 0..MaxOutages
  BY RecordNumbers DEF Store!RecordsInit
<1>5. RecordTypes
  BY <1>2, <1>3, <1>4 DEF Store!RecordsInit, RecordTypes
<1>6. TurnsAreTaken /\ FileIsCurrent
  BY <1>1, <1>2 DEF Store!RecordsInit, TurnsAreTaken, FileIsCurrent
<1> QED
  BY <1>5, <1>6 DEF RecordInv

LEMMA RecordStepInv ==
  ASSUME RecordInv, Store!RecordsNext
  PROVE  RecordInv'
<1> USE RecordNumbers
<1>0. Store!Idle \in RecordUse /\ Store!Idle.at = "idle"
  BY DEF Store!Idle, RecordUse, Store!Record
<1>1. RecordTypes /\ \A p \in Processes : user[p] \in RecordUse
  BY DEF RecordInv, RecordTypes
<1>2. ~overlapped => TurnsAreTaken
  BY DEF RecordInv
<1>3. ~overlapped /\ outages = 0 => FileIsCurrent
  BY DEF RecordInv
(* Who begins with nobody else at it finds everybody idle. *)
<1>4. ASSUME NEW p \in Processes, NEW step \in RecordUse, step.at \in {"open", "forget"},
             Store!Enter(p, step)
      PROVE  /\ user' = [user EXCEPT ![p] = step] /\ user' \in [Processes -> RecordUse]
             /\ overlapped' \in BOOLEAN
             /\ \A q \in Processes : user'[q].at = "idle" => user'[q] = Store!Idle
             /\ ~overlapped' => ~overlapped /\ \A q \in Processes : user[q] = Store!Idle
  <2>1. user[p] = Store!Idle /\ user' = [user EXCEPT ![p] = step]
        /\ overlapped' = (overlapped \/ Store!Others(p) # {})
    BY <1>4 DEF Store!Enter
  <2>2. user' \in [Processes -> RecordUse] /\ overlapped' \in BOOLEAN
    BY <1>1, <2>1 DEF RecordTypes
  <2>3. \A q \in Processes : user'[q].at = "idle" => user'[q] = Store!Idle
    BY <1>1, <1>4, <2>1 DEF RecordTypes
  <2>4. ~overlapped' => ~overlapped /\ \A q \in Processes : user[q] = Store!Idle
    BY <2>1 DEF Store!Others
  <2> QED
    BY <2>1, <2>2, <2>3, <2>4
<1>5. ASSUME NEW p \in Processes, Store!Create(p) PROVE RecordInv'
  <2> DEFINE step == [at |-> "open", record |-> {0}, update |-> 0]
  <2>1. step \in RecordUse
    BY DEF RecordUse, Store!Record
  <2>2. /\ Store!Enter(p, step) /\ updates = 0 /\ updates' = 1
        /\ UNCHANGED <<onDisk, temporary, inRedis, redisUp, resting, applied, outages>>
    BY <1>5 DEF Store!Create
  <2>3. /\ user' = [user EXCEPT ![p] = step] /\ user' \in [Processes -> RecordUse]
        /\ overlapped' \in BOOLEAN
        /\ \A q \in Processes : user'[q].at = "idle" => user'[q] = Store!Idle
        /\ ~overlapped' => ~overlapped /\ \A q \in Processes : user[q] = Store!Idle
    BY <1>4, <2>1, <2>2
  <2>4. RecordTypes'
    BY <1>1, <2>2, <2>3 DEF RecordTypes, RecordUse, Store!Record, Store!File, Store!Idle
  <2>5. ~overlapped' => \A q \in Processes : IF q = p THEN user'[q] = step ELSE user'[q] = Store!Idle
    BY <1>1, <2>3 DEF RecordTypes
  <2>6. ~overlapped' => TurnsAreTaken'
    BY <1>0, <1>2, <2>2, <2>3, <2>5 DEF TurnsAreTaken
  <2>7. ~overlapped' /\ outages' = 0 => FileIsCurrent'
    BY <1>0, <1>3, <2>2, <2>3, <2>5 DEF FileIsCurrent, AndApplied
  <2> QED
    BY <2>4, <2>6, <2>7 DEF RecordInv

<1>6. ASSUME NEW p \in Processes, Store!Update(p) PROVE RecordInv'
  <2> DEFINE step == [at |-> "open", record |-> Store!Found(p) \union {updates}, update |-> updates]
  <2>1. /\ Store!Enter(p, step) /\ updates \in 1..MaxUpdates /\ updates' = updates + 1
        /\ Store!Found(p) # None
        /\ resting' = IF redisUp THEN resting ELSE resting \union {p}
        /\ UNCHANGED <<onDisk, temporary, inRedis, redisUp, applied, outages>>
    BY <1>6 DEF Store!Update, Store!Noticed
  <2>2. Store!Found(p) \in Store!Record
    BY <1>1, <2>1 DEF RecordTypes, Store!Found, Store!File
  <2>3. step \in RecordUse
    BY <2>1, <2>2 DEF RecordUse, Store!Record
  <2>4. /\ user' = [user EXCEPT ![p] = step] /\ user' \in [Processes -> RecordUse]
        /\ overlapped' \in BOOLEAN
        /\ \A q \in Processes : user'[q].at = "idle" => user'[q] = Store!Idle
        /\ ~overlapped' => ~overlapped /\ \A q \in Processes : user[q] = Store!Idle
    BY <1>4, <2>1, <2>3
  <2>5. RecordTypes'
    BY <1>1, <2>1, <2>4 DEF RecordTypes, RecordUse, Store!Record, Store!File, Store!Idle
  <2>6. ~overlapped' => \A q \in Processes : IF q = p THEN user'[q] = step ELSE user'[q] = Store!Idle
    BY <1>1, <2>4 DEF RecordTypes
  <2>7. step.at = "open" /\ step.record = Store!Found(p) \union {updates} /\ step.update = updates
    OBVIOUS
  <2> HIDE DEF step
  <2>8. ~overlapped' => TurnsAreTaken'
    BY <1>0, <1>2, <2>1, <2>4, <2>6, <2>7 DEF TurnsAreTaken
  <2>9. ASSUME ~overlapped', outages' = 0 PROVE FileIsCurrent'
    <3>1. FileIsCurrent /\ TurnsAreTaken
      BY <1>2, <1>3, <2>1, <2>4, <2>9
    <3>2. \A q \in Processes : user[q].at = "idle"
      BY <1>0, <2>4, <2>9
    <3>3. IF applied = None THEN onDisk = None /\ inRedis = None
          ELSE onDisk # None /\ onDisk.of = applied /\ inRedis \in {None, applied}
      BY <3>1, <3>2 DEF FileIsCurrent
    <3>4. Store!Found(p) = applied
      BY <3>1, <3>3 DEF FileIsCurrent, TurnsAreTaken, Store!Found, Store!Reaches
    <3>5. applied # None
      BY <2>1, <3>4
    <3>6. redisUp' /\ resting' = {} /\ updates' # 0
      BY <2>1, <3>1 DEF FileIsCurrent
    <3>7. \A q \in Processes :
            /\ user'[q].at \in {"open", "replace", "publish"} =>
                 user'[q].record = AndApplied(user[q].update)'
            /\ user'[q].at \notin {"publish", "forget"}
      BY <1>0, <2>1, <2>6, <2>7, <2>9, <3>4, <3>5 DEF AndApplied
    <3> QED
      BY <2>1, <3>3, <3>6, <3>7 DEF FileIsCurrent
  <2> QED
    BY <2>5, <2>8, <2>9 DEF RecordInv
(* A process goes on with what it is at, alone or not. *)
<1>7. ASSUME NEW p \in Processes, NEW at \in {"replace", "publish"}, user[p].at # "idle",
             user' = [user EXCEPT ![p].at = at] \/ user' = [user EXCEPT ![p] = Store!Idle],
             UNCHANGED overlapped
      PROVE  /\ user' \in [Processes -> RecordUse]
             /\ \A q \in Processes : user'[q].at = "idle" => user'[q] = Store!Idle
             /\ \A q \in Processes \ {p} : user'[q] = user[q]
             /\ ~overlapped' => ~overlapped /\ TurnsAreTaken
                                /\ \A q \in Processes \ {p} : user[q].at = "idle"
             /\ user' = [user EXCEPT ![p].at = at] =>
                  /\ user'[p].at = at /\ user'[p].record = user[p].record
                  /\ user'[p].update = user[p].update
             /\ user' = [user EXCEPT ![p] = Store!Idle] => user'[p] = Store!Idle
  <2>1. user[p] \in RecordUse /\ [user[p] EXCEPT !.at = at] \in RecordUse
        /\ [user[p] EXCEPT !.at = at].at = at
        /\ [user[p] EXCEPT !.at = at].record = user[p].record
        /\ [user[p] EXCEPT !.at = at].update = user[p].update
    BY <1>1 DEF RecordUse
  <2>2. \A q \in Processes \ {p} : user'[q] = user[q]
    BY <1>1, <1>7 DEF RecordTypes
  <2>3. user'[p] = [user[p] EXCEPT !.at = at] \/ user'[p] = Store!Idle
    BY <1>1, <1>7 DEF RecordTypes
  <2>4. user' \in [Processes -> RecordUse]
    BY <1>0, <1>1, <1>7, <2>1 DEF RecordTypes
  <2>5. \A q \in Processes : user'[q].at = "idle" => user'[q] = Store!Idle
    BY <1>1, <2>1, <2>2, <2>3 DEF RecordTypes
  <2>6. ~overlapped' => ~overlapped /\ TurnsAreTaken /\ \A q \in Processes \ {p} : user[q].at = "idle"
    BY <1>2, <1>7 DEF TurnsAreTaken
  <2>7. user' = [user EXCEPT ![p].at = at] => user'[p] = [user[p] EXCEPT !.at = at]
    BY <1>1 DEF RecordTypes
  <2>8. user' = [user EXCEPT ![p] = Store!Idle] => user'[p] = Store!Idle
    BY <1>1 DEF RecordTypes
  <2> QED
    BY <2>1, <2>2, <2>4, <2>5, <2>6, <2>7, <2>8
<1>8. ASSUME NEW p \in Processes, Store!Open(p) PROVE RecordInv'
  <2>1. /\ user[p].at = "open" /\ temporary' = p /\ user' = [user EXCEPT ![p].at = "replace"]
        /\ UNCHANGED <<onDisk, inRedis, redisUp, resting, updates, applied, outages, overlapped>>
    BY <1>8 DEF Store!Open
  <2>2. /\ user' \in [Processes -> RecordUse]
        /\ \A q \in Processes : user'[q].at = "idle" => user'[q] = Store!Idle
        /\ \A q \in Processes \ {p} : user'[q] = user[q]
        /\ ~overlapped' => ~overlapped /\ TurnsAreTaken
                           /\ \A q \in Processes \ {p} : user[q].at = "idle"
        /\ user'[p].at = "replace" /\ user'[p].record = user[p].record
        /\ user'[p].update = user[p].update
    BY <1>7, <2>1
  <2>3. RecordTypes'
    BY <1>1, <2>1, <2>2 DEF RecordTypes, RecordUse, Store!Record, Store!File, Store!Idle
  <2>4. ~overlapped' => TurnsAreTaken'
    BY <2>1, <2>2 DEF TurnsAreTaken
  <2>5. ~overlapped' /\ outages' = 0 => FileIsCurrent'
    BY <1>3, <2>1, <2>2 DEF FileIsCurrent, AndApplied
  <2> QED
    BY <2>3, <2>4, <2>5 DEF RecordInv
<1>9. ASSUME NEW p \in Processes, Store!Replace(p) PROVE RecordInv'
  <2>1. /\ user[p].at = "replace"
        /\ UNCHANGED <<inRedis, redisUp, resting, updates, applied, outages, overlapped>>
    BY <1>9 DEF Store!Replace
  <2>2. CASE temporary = None
    <3>1. user' = [user EXCEPT ![p] = Store!Idle] /\ UNCHANGED <<onDisk, temporary>>
      BY <1>9, <2>2 DEF Store!Replace
    <3>2. overlapped
      BY <1>2, <2>1, <2>2 DEF TurnsAreTaken
    <3>3. /\ user' \in [Processes -> RecordUse]
          /\ \A q \in Processes : user'[q].at = "idle" => user'[q] = Store!Idle
      BY <1>7, <2>1, <3>1
    <3>4. RecordTypes'
      BY <1>1, <2>1, <3>1, <3>3 DEF RecordTypes, RecordUse, Store!Record, Store!File, Store!Idle
    <3> QED
      BY <2>1, <3>2, <3>4 DEF RecordInv
  <2>3. CASE temporary # None
    <3>1. PICK of \in IF temporary = p THEN {user[p].record} ELSE Store!Opened,
               whole \in IF temporary = p THEN {TRUE} ELSE BOOLEAN :
            onDisk' = [of |-> of, whole |-> whole]
      BY <1>9, <2>3 DEF Store!Replace
    <3>2. temporary' = None /\ user' = [user EXCEPT ![p].at = "publish"]
      BY <1>9, <2>3 DEF Store!Replace
    <3>3. /\ user' \in [Processes -> RecordUse]
          /\ \A q \in Processes : user'[q].at = "idle" => user'[q] = Store!Idle
          /\ \A q \in Processes \ {p} : user'[q] = user[q]
          /\ ~overlapped' => ~overlapped /\ TurnsAreTaken
                             /\ \A q \in Processes \ {p} : user[q].at = "idle"
          /\ user'[p].at = "publish" /\ user'[p].record = user[p].record
          /\ user'[p].update = user[p].update
      BY <1>7, <2>1, <3>2
    <3>4. of \in Store!Record /\ whole \in BOOLEAN
      BY <1>1, <3>1 DEF Store!Opened, RecordUse
    <3>5. onDisk' \in Store!File
      BY <3>1, <3>4 DEF Store!File
    <3>6. RecordTypes'
      BY <1>1, <2>1, <3>2, <3>3, <3>5 DEF RecordTypes, RecordUse, Store!Record, Store!File, Store!Idle
    <3>7. ~overlapped' => temporary = p /\ onDisk'.whole /\ onDisk'.of = user[p].record
      BY <2>1, <3>1, <3>3 DEF TurnsAreTaken
    <3>8. ~overlapped' => TurnsAreTaken'
      BY <2>1, <3>3, <3>7 DEF TurnsAreTaken
    <3>9. ~overlapped' /\ outages' = 0 => FileIsCurrent'
      BY <1>3, <2>1, <3>3, <3>5, <3>7 DEF FileIsCurrent, AndApplied
    <3> QED
      BY <3>6, <3>8, <3>9 DEF RecordInv
  <2> QED
    BY <2>2, <2>3
<1>10. ASSUME NEW p \in Processes, Store!Publish(p) PROVE RecordInv'
  <2>1. /\ user[p].at = "publish" /\ user' = [user EXCEPT ![p] = Store!Idle]
        /\ inRedis' = (IF redisUp /\ p \notin resting THEN user[p].record ELSE inRedis)
        /\ applied' = AndApplied(user[p].update)
        /\ resting' = (IF redisUp THEN resting ELSE resting \union {p})
        /\ UNCHANGED <<onDisk, temporary, redisUp, updates, outages, overlapped>>
    BY <1>10 DEF Store!Publish, Store!Reaches, Store!Noticed, AndApplied
  <2>2. /\ user' \in [Processes -> RecordUse]
        /\ \A q \in Processes : user'[q].at = "idle" => user'[q] = Store!Idle
        /\ \A q \in Processes \ {p} : user'[q] = user[q]
        /\ ~overlapped' => ~overlapped /\ TurnsAreTaken
                           /\ \A q \in Processes \ {p} : user[q].at = "idle"
        /\ user'[p] = Store!Idle
    BY <1>7, <2>1
  <2>3. user[p].record \in Store!Record /\ AndApplied(user[p].update) \in Store!Record
    BY <1>1 DEF RecordTypes, RecordUse, Store!Record, AndApplied
  <2>4. RecordTypes'
    BY <1>1, <2>1, <2>2, <2>3 DEF RecordTypes, RecordUse, Store!Record, Store!File, Store!Idle
  <2>5. ~overlapped' => \A q \in Processes : user'[q].at = "idle"
    BY <1>0, <2>2
  <2>6. ~overlapped' => TurnsAreTaken'
    BY <2>1, <2>2, <2>5 DEF TurnsAreTaken
  <2>7. ASSUME ~overlapped', outages' = 0 PROVE FileIsCurrent'
    <3>1. FileIsCurrent
      BY <1>3, <2>1, <2>7
    <3>2. user[p].record = AndApplied(user[p].update) /\ onDisk # None /\ onDisk.of = user[p].record
          /\ redisUp /\ resting = {}
      BY <2>1, <3>1 DEF FileIsCurrent
    <3>3. updates' # 0
      BY <2>1, <3>1 DEF FileIsCurrent
    <3> QED
      BY <2>1, <2>3, <2>5, <2>7, <3>2, <3>3 DEF FileIsCurrent
  <2> QED
    BY <2>4, <2>6, <2>7 DEF RecordInv

<1>11. ASSUME NEW p \in Processes, Store!Remove(p) PROVE RecordInv'
  <2> DEFINE step == [Store!Idle EXCEPT !.at = "forget"]
  <2>1. /\ Store!Enter(p, step) /\ updates > 0 /\ onDisk' = None
        /\ UNCHANGED <<temporary, inRedis, redisUp, resting, updates, applied, outages>>
    BY <1>11 DEF Store!Remove
  <2>2. step \in RecordUse /\ step.at = "forget"
    BY DEF RecordUse, Store!Record, Store!Idle
  <2> HIDE DEF step
  <2>3. /\ user' = [user EXCEPT ![p] = step] /\ user' \in [Processes -> RecordUse]
        /\ overlapped' \in BOOLEAN
        /\ \A q \in Processes : user'[q].at = "idle" => user'[q] = Store!Idle
        /\ ~overlapped' => ~overlapped /\ \A q \in Processes : user[q] = Store!Idle
    BY <1>4, <2>1, <2>2
  <2>4. RecordTypes'
    BY <1>1, <2>1, <2>3 DEF RecordTypes, RecordUse, Store!Record, Store!File, Store!Idle
  <2>5. ~overlapped' => \A q \in Processes : IF q = p THEN user'[q] = step ELSE user'[q] = Store!Idle
    BY <1>1, <2>3 DEF RecordTypes
  <2>6. ~overlapped' => TurnsAreTaken'
    BY <1>0, <1>2, <2>1, <2>2, <2>3, <2>5 DEF TurnsAreTaken
  <2>7. ~overlapped' /\ outages' = 0 => FileIsCurrent'
    BY <1>0, <1>3, <2>1, <2>2, <2>3, <2>5 DEF FileIsCurrent, AndApplied
  <2> QED
    BY <2>4, <2>6, <2>7 DEF RecordInv
<1>12. ASSUME NEW p \in Processes, Store!Forget(p) PROVE RecordInv'
  <2>1. /\ user[p].at = "forget" /\ user' = [user EXCEPT ![p] = Store!Idle]
        /\ inRedis' = (IF redisUp THEN None ELSE inRedis) /\ applied' = None
        /\ UNCHANGED <<onDisk, temporary, redisUp, resting, updates, outages, overlapped>>
    BY <1>12 DEF Store!Forget
  <2>2. /\ user' \in [Processes -> RecordUse]
        /\ \A q \in Processes : user'[q].at = "idle" => user'[q] = Store!Idle
        /\ \A q \in Processes \ {p} : user'[q] = user[q]
        /\ ~overlapped' => ~overlapped /\ TurnsAreTaken
                           /\ \A q \in Processes \ {p} : user[q].at = "idle"
        /\ user'[p] = Store!Idle
    BY <1>7, <2>1
  <2>3. RecordTypes'
    BY <1>1, <2>1, <2>2 DEF RecordTypes, RecordUse, Store!Record, Store!File, Store!Idle
  <2>4. ~overlapped' => \A q \in Processes : user'[q].at = "idle"
    BY <1>0, <2>2
  <2>5. ~overlapped' => TurnsAreTaken'
    BY <2>1, <2>2, <2>4 DEF TurnsAreTaken
  <2>6. ~overlapped' /\ outages' = 0 => FileIsCurrent'
    BY <1>3, <2>1, <2>2, <2>4 DEF FileIsCurrent
  <2> QED
    BY <2>3, <2>5, <2>6 DEF RecordInv
<1>13. CASE Store!Outage
  <2>1. outages' = outages + 1 /\ outages < MaxOutages /\ redisUp' = FALSE
        /\ UNCHANGED <<onDisk, temporary, inRedis, user, resting, updates, applied, overlapped>>
    BY <1>13 DEF Store!Outage
  <2>2. outages' \in 0..MaxOutages /\ outages' # 0
    BY <1>1, <2>1 DEF RecordTypes
  <2>3. RecordTypes'
    BY <1>1, <2>1, <2>2 DEF RecordTypes, RecordUse, Store!Record, Store!File, Store!Idle
  <2> QED
    BY <1>2, <2>1, <2>2, <2>3 DEF RecordInv, TurnsAreTaken
<1>14. CASE Store!Recovery
  <2>1. ~redisUp /\ redisUp' = TRUE
        /\ UNCHANGED <<onDisk, temporary, inRedis, user, resting, updates, applied, outages, overlapped>>
    BY <1>14 DEF Store!Recovery
  <2>2. RecordTypes'
    BY <1>1, <2>1 DEF RecordTypes, RecordUse, Store!Record, Store!File, Store!Idle
  <2> QED
    BY <1>2, <1>3, <2>1, <2>2 DEF RecordInv, TurnsAreTaken, FileIsCurrent
<1>15. CASE Store!Expire
  <2>1. inRedis' = None
        /\ UNCHANGED <<onDisk, temporary, redisUp, user, resting, updates, applied, outages, overlapped>>
    BY <1>15 DEF Store!Expire
  <2>2. RecordTypes'
    BY <1>1, <2>1 DEF RecordTypes, RecordUse, Store!Record, Store!File, Store!Idle
  <2>3. ~overlapped' => TurnsAreTaken'
    BY <1>2, <2>1 DEF TurnsAreTaken
  <2>4. ~overlapped' /\ outages' = 0 => FileIsCurrent'
    BY <1>3, <2>1 DEF FileIsCurrent, AndApplied
  <2> QED
    BY <2>2, <2>3, <2>4 DEF RecordInv
<1>16. ASSUME NEW p \in Processes, Store!AskAgain(p) PROVE RecordInv'
  <2>1. resting' = resting \ {p}
        /\ UNCHANGED <<onDisk, temporary, inRedis, redisUp, user, updates, applied, outages, overlapped>>
    BY <1>16 DEF Store!AskAgain
  <2>2. RecordTypes'
    BY <1>1, <2>1 DEF RecordTypes, RecordUse, Store!Record, Store!File, Store!Idle
  <2>3. ~overlapped' => TurnsAreTaken'
    BY <1>2, <2>1 DEF TurnsAreTaken
  <2>4. ~overlapped' /\ outages' = 0 => FileIsCurrent'
    BY <1>3, <2>1 DEF FileIsCurrent, AndApplied
  <2> QED
    BY <2>2, <2>3, <2>4 DEF RecordInv
<1>17. ASSUME NEW p \in Processes, Store!Killed(p) PROVE RecordInv'
  <2>1. user' = [user EXCEPT ![p] = Store!Idle] /\ overlapped' = TRUE /\ resting' = resting \ {p}
        /\ UNCHANGED <<onDisk, temporary, inRedis, redisUp, updates, applied, outages>>
    BY <1>17 DEF Store!Killed
  <2>2. user' \in [Processes -> RecordUse]
        /\ \A q \in Processes : user'[q].at = "idle" => user'[q] = Store!Idle
    BY <1>0, <1>1, <2>1 DEF RecordTypes
  <2>3. RecordTypes'
    BY <1>1, <2>1, <2>2 DEF RecordTypes, RecordUse, Store!Record, Store!File, Store!Idle
  <2> QED
    BY <2>1, <2>3 DEF RecordInv
<1> QED
  BY <1>5, <1>6, <1>8, <1>9, <1>10, <1>11, <1>12, <1>13, <1>14, <1>15, <1>16, <1>17
     DEF Store!RecordsNext

-----------------------------------------------------------------------------
(* PaperFiles: a part was read before it was announced, and who compares a *)
(* validator has got it with an earlier answer.                            *)
FilesInv ==
  /\ \E S : served \in Seq(S)
  /\ Files!PartIsAsAnnounced
  /\ serving # None /\ serving.fetch = None =>
       serving.known = None \/ \E j \in 1..Len(served) : served[j].etag = serving.known

LEMMA FilesInit ==
  ASSUME Files!FilesInit
  PROVE  FilesInv
BY DEF Files!FilesInit, FilesInv, Files!PartIsAsAnnounced

LEMMA ServedStays ==
  ASSUME FilesInv, NEW a, served' = Append(served, a), serving' = None,
         a.status = 206 => a.sent = a.announced,
         a.status = 304 => \E j \in 1..Len(served) : served[j].etag = a.etag
  PROVE  FilesInv'
<1>1. PICK S : served \in Seq(S)
  BY DEF FilesInv
<1>2. served \in Seq(S \union {a})
  BY <1>1
<1>3. /\ served' \in Seq(S \union {a}) /\ Len(served') = Len(served) + 1 /\ Len(served) \in Nat
      /\ \A i \in 1..Len(served) : served'[i] = served[i]
      /\ served'[Len(served) + 1] = a
  BY <1>2
<1>4. Files!PartIsAsAnnounced'
  <2>1. SUFFICES ASSUME NEW i \in 1..Len(served) + 1
        PROVE  /\ served'[i].status = 206 => served'[i].sent = served'[i].announced
               /\ served'[i].status = 304 => \E j \in 1..i - 1 : served'[j].etag = served'[i].etag
    BY <1>3 DEF Files!PartIsAsAnnounced
  <2>2. CASE i \in 1..Len(served)
    <3>1. /\ served[i].status = 206 => served[i].sent = served[i].announced
          /\ served[i].status = 304 => \E j \in 1..i - 1 : served[j].etag = served[i].etag
      BY <2>2 DEF FilesInv, Files!PartIsAsAnnounced
    <3>2. \A j \in 1..i - 1 : j \in 1..Len(served)
      BY <1>3, <2>2
    <3> QED
      BY <1>3, <2>2, <3>1, <3>2
  <2>3. CASE i = Len(served) + 1
    BY <1>3, <2>3
  <2> QED
    BY <1>3, <2>2, <2>3
<1> QED
  BY <1>3, <1>4 DEF FilesInv

LEMMA FilesStepInv ==
  ASSUME FilesInv, Files!FilesNext
  PROVE  FilesInv'
<1>1. CASE Files!Rewrite \/ Files!Fill
  BY <1>1 DEF Files!Rewrite, Files!Fill, FilesInv, Files!PartIsAsAnnounced
<1>2. ASSUME NEW f \in Fetches \union {None},
             NEW k \in {None} \union {served[i].etag : i \in 1..Len(served)}, Files!Fetch(f, k)
      PROVE  FilesInv'
  BY <1>2 DEF Files!Fetch, FilesInv, Files!PartIsAsAnnounced
<1>3. CASE Files!BuildHeaders
  <2>1. serving' = [serving EXCEPT !.etag = Files!Etag] /\ UNCHANGED served
    BY <1>3 DEF Files!BuildHeaders
  <2>2. serving # None
    BY <1>3 DEF Files!BuildHeaders
  <2>3. serving'.fetch = serving.fetch /\ serving'.known = serving.known
    BY <2>1
  <2> QED
    BY <2>1, <2>2, <2>3 DEF FilesInv, Files!PartIsAsAnnounced
<1>4. CASE Files!NotModified
  BY <1>4, ServedStays DEF Files!NotModified, Files!Answer, Files!Ready, FilesInv
<1>5. CASE Files!ServePart
  BY <1>5, ServedStays DEF Files!ServePart, Files!Answer, Files!Read
<1>6. CASE Files!ServeWhole
  BY <1>6, ServedStays DEF Files!ServeWhole, Files!Answer
<1> QED
  BY <1>1, <1>2, <1>3, <1>4, <1>5, <1>6 DEF Files!FilesNext

-----------------------------------------------------------------------------
(* ExecutionEvents: the numbers of the events are their places, a writer   *)
(* that has one has the row and the next; and a stream has the first ones. *)
Pending == [due : BOOLEAN, seq : Nat]
Stream  == [got : Seq(Nat), cursor : Nat, rows : Seq(Nat), any : BOOLEAN,
            phase : {"rows", "status", "send", "closed"},
            status : {None, "running", "paused", "completed"}]

Numbered(list, from) == \A i \in 1..Len(list) : list[i] = from + i

NumberIsNext(w) ==
  writers[w].seq > 0 => holder = w /\ writers[w].seq = Len(events) + 1

Follows(c) ==
  /\ Numbered(streams[c].got, 0) /\ streams[c].cursor = Len(streams[c].got)
  /\ Numbered(streams[c].rows, streams[c].cursor)
  /\ streams[c].cursor + Len(streams[c].rows) <= Len(events)

EventsInv ==
  /\ events \in Seq(Nat) /\ writers \in [Writers -> Pending]
  /\ streams \in [Clients -> Stream]
  /\ status \in {"running", "paused", "completed"}
  /\ Numbered(events, 0)
  /\ \A w \in Writers : NumberIsNext(w)
  /\ \A c \in Clients : Follows(c)

LEMMA EventNumbers == ReadLimit \in Nat \ {0} /\ None \notin Writers
BY RequestsAssumption DEF Trail!EventsAssumption

LEMMA EventsShow ==
  ASSUME EventsInv
  PROVE  Trail!StreamIsWhole /\ Trail!SeqIsTakenOnce
<1>1. Trail!StreamIsWhole
  BY DEF EventsInv, Follows, Numbered, Stream, Trail!StreamIsWhole
<1>2. Trail!SeqIsTakenOnce
  BY DEF EventsInv, NumberIsNext, Pending, Trail!SeqIsTakenOnce
<1> QED
  BY <1>1, <1>2

LEMMA OpenedFollows ==
  ASSUME NEW got \in Seq(Nat), Numbered(got, 0)
  PROVE  LET opened == Trail!Opened(got)
         IN  opened \in Stream /\ opened.got = got /\ opened.cursor = Len(got) /\ opened.rows = <<>>
<1>1. CASE got = <<>>
  BY <1>1 DEF Trail!Opened, Stream
<1>2. CASE got # <<>>
  <2>1. Len(got) \in 1..Len(got) /\ got[Len(got)] = Len(got)
    BY <1>2 DEF Numbered
  <2> QED
    BY <1>2, <2>1 DEF Trail!Opened, Stream, Trail!Last
<1> QED
  BY <1>1, <1>2

LEMMA EventsInit ==
  ASSUME Trail!EventsInit
  PROVE  EventsInv
<1>1. Numbered(<<>>, 0) /\ <<>> \in Seq(Nat)
  BY DEF Numbered
<1>2. \A c \in Clients : streams[c] = Trail!Opened(<<>>)
  BY DEF Trail!EventsInit
<1>3. streams \in [Clients -> Stream]
  BY <1>1, <1>2, OpenedFollows DEF Trail!EventsInit
<1>4. \A c \in Clients : Follows(c)
  <2>1. events = <<>>
    BY DEF Trail!EventsInit
  <2>2. SUFFICES ASSUME NEW c \in Clients PROVE Follows(c)
    OBVIOUS
  <2>3. streams[c].got = <<>> /\ streams[c].cursor = 0 /\ streams[c].rows = <<>>
    BY <1>1, <1>2, OpenedFollows
  <2> QED
    BY <2>1, <2>3 DEF Follows, Numbered
<1> QED
  BY <1>1, <1>3, <1>4 DEF Trail!EventsInit, EventsInv, NumberIsNext, Pending, Numbered, Trail!NoWriter

LEMMA EventsCardinality == \A S : Trail!Cardinality(S) = Cardinality(S)
BY DEF Trail!Cardinality, Cardinality, Trail!IsFiniteSet, IsFiniteSet

(* The events after a number are those from the next one on. *)
LEMMA LaterAreNext ==
  ASSUME EventsInv, NEW after \in 0..Len(events)
  PROVE  /\ Trail!Later(after) \in Seq(Nat)
         /\ Len(Trail!Later(after)) = Len(events) - after
         /\ Numbered(Trail!Later(after), after)
<1> DEFINE last == Len(events)
           many == last - after
           rows == {s \in Trail!ToSet(events) : s > after}
           Sorted(list) == \A i, j \in DOMAIN list : i < j => list[i] < list[j]
           next == [i \in 1..many |-> after + i]
           list == Trail!Later(after)
<1>1. last \in Nat /\ many \in Nat /\ DOMAIN events = 1..last /\ \A i \in 1..last : events[i] = i
  BY DEF EventsInv, Numbered
<1>2. rows = (after + 1)..last
  BY <1>1 DEF Trail!ToSet
<1>3. Trail!Cardinality(rows) = many
  <2>0. last \in Nat /\ after \in 0..last
    BY <1>1
  <2>1. last \in Int /\ after + 1 \in Int /\ (after + 1 > last => many = 0) /\ last - (after + 1) + 1 = many
    <3> HIDE DEF last
    <3> QED
      BY <2>0
  <2>2. Cardinality((after + 1)..last) = many
    BY <2>1, FS_Interval
  <2> QED
    BY <1>2, <2>2, EventsCardinality
<1>4. next \in [1..many -> rows] /\ Sorted(next)
  BY <1>1, <1>2
<1>5. list = CHOOSE f \in [1..many -> rows] : Sorted(f)
  BY <1>3 DEF Trail!Later
<1>6. list \in [1..many -> rows] /\ Sorted(list)
  <2> HIDE DEF next, list, Sorted
  <2> QED
    BY <1>4, <1>5
<1>7. \A i \in 1..many : list[i] \in (after + 1)..last
  BY <1>2, <1>6
<1>8. \A i, j \in 1..many : i < j => list[i] < list[j]
  BY <1>6
<1>0. /\ after \in Nat /\ many \in Nat /\ last \in Nat /\ many = last - after
      /\ \A i \in 1..many : list[i] \in Nat
  BY <1>1, <1>7
<1> HIDE DEF list, next, rows, Sorted, many, last
<1>9. \A i \in 1..many : list[i] >= after + i
  <2> DEFINE low == {i \in 1..many : list[i] < after + i}
  <2>1. CASE low = {}
    BY <1>0, <1>7, <2>1
  <2>2. CASE low # {}
    <3>1. low \in SUBSET Nat
      BY <1>0
    <3>2. PICK t \in low : \A u \in low : t <= u
      <4> HIDE DEF low
      <4> QED
        BY <2>2, <3>1, SmallestOf
    <3>3. t \in 1..many /\ list[t] < after + t /\ list[t] \in (after + 1)..last
      BY <1>7
    <3>4. t > 1 /\ t - 1 \in 1..many
      BY <1>0, <3>3
    <3>5. list[t - 1] < list[t] /\ list[t - 1] \in (after + 1)..last
      BY <1>7, <1>8, <3>3, <3>4
    <3>6. t - 1 \in low
      BY <3>3, <3>4, <3>5
    <3> QED
      BY <3>2, <3>3, <3>6
  <2> QED
    BY <2>1, <2>2
<1>10. \A i \in 1..many : list[i] <= after + i
  <2> DEFINE high == {i \in 1..many : list[i] > after + i}
  <2>1. CASE high = {}
    BY <1>0, <1>7, <2>1
  <2>2. CASE high # {}
    <3>1. many \in Nat /\ high \in SUBSET (1..many)
      BY <1>0
    <3>2. PICK t \in high : \A u \in high : u <= t
      <4> HIDE DEF high
      <4> QED
        BY <2>2, <3>1, LargestOf
    <3>3. t \in 1..many /\ list[t] > after + t /\ list[t] \in (after + 1)..last
      BY <1>7
    <3>4. t < many /\ t + 1 \in 1..many
      BY <1>0, <3>3
    <3>5. list[t + 1] > list[t] /\ list[t + 1] \in (after + 1)..last
      BY <1>7, <1>8, <3>3, <3>4
    <3>6. t + 1 \in high
      BY <3>3, <3>4, <3>5
    <3> QED
      BY <3>2, <3>3, <3>6
  <2> QED
    BY <2>1, <2>2
<1>11. \A i \in 1..many : list[i] = after + i
  <2> SUFFICES ASSUME NEW i \in 1..many PROVE list[i] = after + i
    OBVIOUS
  <2>1. list[i] \in Nat /\ i \in Nat
    BY <1>0
  <2>2. list[i] >= after + i /\ list[i] <= after + i
    BY <1>9, <1>10
  <2> QED
    BY <1>0, <2>1, <2>2
<1>12. list \in Seq(Nat) /\ Len(list) = many
  <2>1. list = [i \in 1..many |-> list[i]]
    BY <1>6
  <2> QED
    BY <1>0, <2>1
<1> QED
  BY <1>0, <1>11, <1>12 DEF Numbered, list, many, last

LEMMA LastIsLength ==
  ASSUME EventsInv
  PROVE  Trail!Max({0} \union Trail!ToSet(events)) = Len(events)
<1> DEFINE last == Len(events)
           S == {0} \union Trail!ToSet(events)
<1>1. last \in Nat /\ DOMAIN events = 1..last /\ \A i \in 1..last : events[i] = i
  BY DEF EventsInv, Numbered
<1>2. S = 0..last
  BY <1>1 DEF Trail!ToSet
<1> HIDE DEF last, S
<1>3. \A x \in S : (\A y \in S : x >= y) => x = last
  BY <1>1, <1>2
<1>4. last \in S /\ \A y \in S : last >= y
  BY <1>1, <1>2
<1> QED
  BY <1>3, <1>4 DEF Trail!Max, last, S

(* The writers' steps. *)
LEMMA WriterInv ==
  ASSUME EventsInv, NEW w \in Writers, UNCHANGED streams,
         status' \in {"running", "paused", "completed"},
         \/ Trail!ChangeStatus(w) \/ Trail!LockRow(w) \/ Trail!ReadLast(w)
         \/ Trail!CommitEvent(w) \/ Trail!WriterDies(w)
  PROVE  EventsInv'
<1> USE EventNumbers DEF EventsInv
<1>1. /\ Len(events) \in Nat /\ \A v \in Writers : writers[v] \in Pending /\ writers[v].seq \in Nat
      /\ Trail!NoWriter \in Pending /\ Trail!NoWriter.seq = 0
  BY DEF Pending, Trail!NoWriter
<1>2. ASSUME UNCHANGED events PROVE Numbered(events, 0)' /\ \A c \in Clients : Follows(c)'
  BY <1>2 DEF Follows, Numbered
<1>3. CASE Trail!ChangeStatus(w)
  <2>1. writers' \in [Writers -> Pending] /\ \A v \in Writers : writers'[v].seq = writers[v].seq
    BY <1>1, <1>3 DEF Trail!ChangeStatus, Pending
  <2> QED
    BY <1>2, <1>3, <2>1 DEF Trail!ChangeStatus, NumberIsNext
<1>4. CASE Trail!LockRow(w)
  BY <1>1, <1>2, <1>4 DEF Trail!LockRow, Trail!Unlocked, NumberIsNext
<1>5. CASE Trail!ReadLast(w)
  <2>1. writers' = [writers EXCEPT ![w].seq = Len(events) + 1] /\ holder = w /\ UNCHANGED <<events, holder>>
    BY <1>5, LastIsLength DEF Trail!ReadLast
  <2>2. writers' \in [Writers -> Pending] /\ writers'[w].seq = Len(events) + 1
        /\ \A v \in Writers \ {w} : writers'[v] = writers[v]
    <3> DEFINE next == [writers[w] EXCEPT !.seq = Len(events) + 1]
    <3>1. writers' = [writers EXCEPT ![w] = next] /\ writers \in [Writers -> Pending]
      BY <2>1
    <3>2. next \in Pending /\ next.seq = Len(events) + 1
      BY <1>1 DEF Pending
    <3> HIDE DEF next
    <3> QED
      BY <3>1, <3>2
  <2> QED
    BY <1>2, <2>1, <2>2 DEF NumberIsNext
<1>6. CASE Trail!CommitEvent(w)
  <2>1. holder = w /\ writers[w].seq = Len(events) + 1
    BY <1>6 DEF Trail!CommitEvent, NumberIsNext
  <2>2. writers[w].seq \notin Trail!ToSet(events)
    BY <1>1, <2>1 DEF Trail!ToSet, Numbered
  <2>3. events' = Append(events, Len(events) + 1)
    BY <1>6, <2>1, <2>2 DEF Trail!CommitEvent
  <2>4. /\ events' \in Seq(Nat) /\ Len(events') = Len(events) + 1
        /\ \A i \in 1..Len(events) + 1 : events'[i] = i
    BY <1>1, <2>3 DEF Numbered
  <2>5. writers' \in [Writers -> Pending] /\ writers'[w].seq = 0
        /\ \A v \in Writers \ {w} : writers'[v] = writers[v] /\ writers[v].seq = 0
    BY <1>1, <1>6, <2>1 DEF Trail!CommitEvent, NumberIsNext
  <2>6. \A v \in Writers : NumberIsNext(v)'
    BY <2>5 DEF NumberIsNext
  <2>7. \A c \in Clients : Follows(c)'
    BY <1>1, <2>4 DEF Follows, Stream
  <2>8. Numbered(events, 0)'
    BY <2>4 DEF Numbered
  <2> QED
    BY <2>4, <2>5, <2>6, <2>7, <2>8
<1>7. CASE Trail!WriterDies(w)
  <2>1. writers' \in [Writers -> Pending] /\ writers'[w].seq = 0
        /\ \A v \in Writers \ {w} : writers'[v] = writers[v]
    BY <1>1, <1>7 DEF Trail!WriterDies
  <2>2. \A v \in Writers : NumberIsNext(v)'
    BY <1>7, <2>1 DEF NumberIsNext, Trail!WriterDies
  <2> QED
    BY <1>2, <1>7, <2>1, <2>2 DEF Trail!WriterDies
<1> QED
  BY <1>3, <1>4, <1>5, <1>6, <1>7

(* A client's stream goes on. *)
StreamFollows(s) ==
  /\ Numbered(s.got, 0) /\ s.cursor = Len(s.got)
  /\ Numbered(s.rows, s.cursor)
  /\ s.cursor + Len(s.rows) <= Len(events)

LEMMA StreamGoesOn ==
  ASSUME EventsInv, NEW c \in Clients, NEW s \in Stream, streams' = [streams EXCEPT ![c] = s],
         StreamFollows(s), UNCHANGED <<status, events, holder, writers>>
  PROVE  EventsInv'
<1>1. streams' \in [Clients -> Stream] /\ streams'[c] = s
      /\ \A d \in Clients \ {c} : streams'[d] = streams[d]
  BY DEF EventsInv
<1>2. \A d \in Clients : Follows(d)'
  BY <1>1 DEF EventsInv, Follows, StreamFollows, Numbered
<1> QED
  BY <1>1, <1>2 DEF EventsInv, NumberIsNext, Numbered

LEMMA ReaderInv ==
  ASSUME EventsInv, NEW c \in Clients,
         \/ Trail!ReadRows(c) \/ Trail!ReadStatus(c) \/ Trail!Send(c) \/ Trail!Pause(c)
         \/ Trail!Reopen(c)
  PROVE  EventsInv'
<1> DEFINE s == streams[c]
<1>1. /\ s \in Stream /\ StreamFollows(s) /\ Len(events) \in Nat
      /\ s.got \in Seq(Nat) /\ s.rows \in Seq(Nat) /\ s.cursor \in 0..Len(events)
      /\ streams \in [Clients -> Stream]
  BY DEF EventsInv, Follows, StreamFollows, Stream
<1>2. CASE Trail!ReadRows(c)
  <2> DEFINE rows == Trail!Later(s.cursor)
             many == Trail!Min({ReadLimit, Len(rows)})
             read == SubSeq(rows, 1, many)
             next == [s EXCEPT !.rows = read, !.any = read # <<>>, !.phase = "status"]
  <2>1. rows \in Seq(Nat) /\ Len(rows) = Len(events) - s.cursor /\ Numbered(rows, s.cursor)
    BY <1>1, LaterAreNext
  <2>2. streams' = [streams EXCEPT ![c] = next] /\ UNCHANGED <<status, events, holder, writers>>
    BY <1>1, <1>2 DEF Trail!ReadRows
  <2> HIDE DEF rows
  <2>3. many \in 0..Len(rows)
    <3>1. Len(rows) \in Nat /\ ReadLimit \in Nat
      BY <2>1, EventNumbers
    <3>2. \E x \in {ReadLimit, Len(rows)} : \A y \in {ReadLimit, Len(rows)} : x <= y
      BY <3>1
    <3>3. many \in {ReadLimit, Len(rows)} /\ many <= Len(rows)
      BY <3>2 DEF Trail!Min
    <3> QED
      BY <3>1, <3>3
  <2> HIDE DEF many
  <2>4. read \in Seq(Nat) /\ Len(read) = many /\ \A i \in 1..many : read[i] = rows[i]
    BY <2>1, <2>3
  <2>5. Numbered(read, s.cursor) /\ s.cursor + Len(read) <= Len(events)
    BY <1>1, <2>1, <2>3, <2>4 DEF Numbered
  <2> HIDE DEF read
  <2>6. next \in Stream /\ next.rows = read /\ next.got = s.got /\ next.cursor = s.cursor
    BY <1>1, <2>4 DEF Stream
  <2>7. StreamFollows(next)
    BY <1>1, <2>5, <2>6 DEF StreamFollows
  <2> HIDE DEF next, s
  <2> QED
    BY <2>2, <2>6, <2>7, StreamGoesOn
<1>3. CASE Trail!ReadStatus(c)
  <2> DEFINE next == [s EXCEPT !.status = status, !.phase = "send"]
  <2>1. streams' = [streams EXCEPT ![c] = next] /\ UNCHANGED <<status, events, holder, writers>>
    BY <1>1, <1>3 DEF Trail!ReadStatus
  <2>2. next \in Stream /\ next.rows = s.rows /\ next.got = s.got /\ next.cursor = s.cursor
    BY <1>1 DEF Stream, EventsInv
  <2>3. StreamFollows(next)
    BY <1>1, <2>2 DEF StreamFollows
  <2> HIDE DEF next, s
  <2> QED
    BY <2>1, <2>2, <2>3, StreamGoesOn
<1>4. CASE Trail!Send(c)
  <2> DEFINE sent == Head(s.rows)
             next == [s EXCEPT !.got = Append(@, sent), !.cursor = sent, !.rows = Tail(@)]
  <2>1. /\ streams' = [streams EXCEPT ![c] = next] /\ UNCHANGED <<status, events, holder, writers>>
        /\ s.rows # <<>>
    BY <1>1, <1>4 DEF Trail!Send
  <2>2. /\ sent = s.cursor + 1 /\ sent \in Nat /\ Tail(s.rows) \in Seq(Nat)
        /\ Len(Tail(s.rows)) = Len(s.rows) - 1
        /\ \A i \in 1..Len(s.rows) - 1 : Tail(s.rows)[i] = s.rows[i + 1]
    <3>1. s.rows \in Seq(Nat) /\ s.rows # <<>> /\ Len(s.rows) \in Nat /\ 1 \in 1..Len(s.rows)
      BY <1>1, <2>1
    <3>2. s.rows[1] = s.cursor + 1
      BY <1>1, <3>1 DEF StreamFollows, Numbered
    <3> HIDE DEF s
    <3> QED
      BY <1>1, <3>1, <3>2
  <2>3. /\ Append(s.got, sent) \in Seq(Nat) /\ Len(Append(s.got, sent)) = sent
        /\ \A i \in 1..sent : Append(s.got, sent)[i] = i
    BY <1>1, <2>2 DEF StreamFollows, Numbered
  <2>4. next \in Stream /\ next.rows = Tail(s.rows) /\ next.got = Append(s.got, sent) /\ next.cursor = sent
    BY <1>1, <2>2, <2>3 DEF Stream
  <2>5. StreamFollows(next)
    <3>1. Numbered(Append(s.got, sent), 0)
      BY <2>2, <2>3 DEF Numbered
    <3>2. Numbered(Tail(s.rows), sent)
      <4>1. \A i \in 1..Len(s.rows) - 1 : i + 1 \in 1..Len(s.rows)
        BY <1>1
      <4>2. \A i \in 1..Len(s.rows) : s.rows[i] = s.cursor + i
        BY <1>1 DEF StreamFollows, Numbered
      <4>3. s.cursor \in Nat /\ Len(s.rows) \in Nat
        <5> HIDE DEF s
        <5> QED
          BY <1>1
      <4>4. ASSUME NEW i \in 1..Len(Tail(s.rows)) PROVE Tail(s.rows)[i] = sent + i
        <5>1. i \in 1..Len(s.rows) - 1 /\ Tail(s.rows)[i] = s.rows[i + 1]
          BY <2>2
        <5>2. s.rows[i + 1] = s.cursor + (i + 1)
          BY <4>1, <4>2, <5>1
        <5>3. i \in Nat /\ sent = s.cursor + 1
          BY <2>2, <4>3, <5>1
        <5>4. s.cursor + (i + 1) = sent + i
          <6> HIDE DEF s, sent
          <6> QED
            BY <4>3, <5>3
        <5> QED
          BY <5>1, <5>2, <5>4
      <4> QED
        BY <4>4 DEF Numbered
    <3>3. sent + Len(Tail(s.rows)) <= Len(events)
      <4>1. s.cursor + Len(s.rows) <= Len(events)
        BY <1>1 DEF StreamFollows
      <4>2. Len(s.rows) \in Nat /\ s.cursor \in Nat
        <5> HIDE DEF s
        <5> QED
          BY <1>1
      <4> HIDE DEF s, sent
      <4> QED
        BY <1>1, <2>2, <4>1, <4>2
    <3> HIDE DEF next, s, sent
    <3> QED
      BY <2>3, <2>4, <3>1, <3>2, <3>3 DEF StreamFollows
  <2> HIDE DEF next, s
  <2> QED
    BY <2>1, <2>4, <2>5, StreamGoesOn
<1>5. CASE Trail!Pause(c)
  <2> DEFINE next == [s EXCEPT !.phase = IF s.status \in Trail!StreamStop /\ ~s.any THEN "closed" ELSE "rows"]
  <2>1. streams' = [streams EXCEPT ![c] = next] /\ UNCHANGED <<status, events, holder, writers>>
    BY <1>1, <1>5 DEF Trail!Pause
  <2>2. next \in Stream /\ next.rows = s.rows /\ next.got = s.got /\ next.cursor = s.cursor
    BY <1>1 DEF Stream
  <2>3. StreamFollows(next)
    BY <1>1, <2>2 DEF StreamFollows
  <2> HIDE DEF next, s
  <2> QED
    BY <2>1, <2>2, <2>3, StreamGoesOn
<1>6. CASE Trail!Reopen(c)
  <2> DEFINE next == Trail!Opened(s.got)
  <2>1. streams' = [streams EXCEPT ![c] = next] /\ UNCHANGED <<status, events, holder, writers>>
    BY <1>1, <1>6 DEF Trail!Reopen
  <2>2. next \in Stream /\ next.rows = <<>> /\ next.got = s.got /\ next.cursor = Len(s.got)
    BY <1>1, OpenedFollows DEF StreamFollows
  <2>3. StreamFollows(next)
    BY <1>1, <2>2 DEF StreamFollows, Numbered
  <2> HIDE DEF next, s
  <2> QED
    BY <2>1, <2>2, <2>3, StreamGoesOn
<1> QED
  BY <1>2, <1>3, <1>4, <1>5, <1>6

LEMMA EventsStepInv ==
  ASSUME EventsInv, Trail!EventsNext
  PROVE  EventsInv'
<1>1. ASSUME NEW w \in Writers,
             \/ Trail!ChangeStatus(w) \/ Trail!LockRow(w) \/ Trail!ReadLast(w)
             \/ Trail!CommitEvent(w) \/ Trail!WriterDies(w)
      PROVE  EventsInv'
  <2>1. UNCHANGED streams /\ status' \in {"running", "paused", "completed"}
    BY <1>1 DEF EventsInv, Trail!ChangeStatus, Trail!LockRow, Trail!ReadLast, Trail!CommitEvent,
       Trail!WriterDies, Trail!Moves
  <2> QED
    BY <1>1, <2>1, WriterInv
<1> QED
  BY <1>1, ReaderInv DEF Trail!EventsNext

-----------------------------------------------------------------------------
(* DiscoverPage *)
Place      == Projects \union {None}
PageResult == [project : Place, intent : Nat, favorite : BOOLEAN]
PageStore  == [project : Place, visit : Nat,
               status : {"idle", "clarifying", "ready", "searching", "completed", "failed"},
               intent : Nat, searched : Nat, shown : PageResult \union {None}, known : Place,
               pending : BOOLEAN, later : BOOLEAN, token : Nat,
               import : {"idle", "importing", "imported", "failed"}]
PageFlight == [id : Nat, kind : Page!Kinds, project : Place, visit : Nat, intent : Nat, of : Place,
               reply : {"none", "yes", "no", "refused", "imported", "task"}, task : Nat]
PageWatcher == [visit : Nat, project : Place, task : Nat, token : Nat, attempt : Nat, asked : BOOLEAN]
PageJob    == [project : Place, state : {"processing", "completed", "failed"}, listed : BOOLEAN]

PageTypes ==
  /\ page \in [route : Projects, visit : Nat, open : BOOLEAN]
  /\ store \in PageStore /\ flights \in SUBSET PageFlight /\ watchers \in SUBSET PageWatcher
  /\ jobs \in Seq(PageJob) /\ acts \in Nat
  /\ late \in BOOLEAN /\ crossed \in BOOLEAN /\ lost \in BOOLEAN

(* The request for the project of a visit is the only one of that visit    *)
(* until it is answered.                                                   *)
VisitsFit ==
  /\ \A f \in flights : f.visit <= page.visit
  /\ \A f \in flights : f.kind = "load" /\ f.visit = page.visit =>
       f.project = page.route /\ ~page.open
  /\ \A f, g \in flights : f.kind = "load" /\ g.visit = f.visit => g = f

(* What the server said of an import is so, and the tasks that are watched *)
(* are there.                                                              *)
ReplyFits(f) ==
  /\ f.kind = "import" => f.reply \notin {"yes", "no"}
  /\ f.kind # "import" => f.reply \notin {"imported", "task"}
  /\ f.kind \in {"save", "load"} => f.reply \in {"none", "yes"}
  /\ f.kind = "search" => f.reply # "refused"
  /\ f.kind = "list" => f.reply # "refused"
  /\ f.kind = "remove" => f.reply # "no"
  /\ f.reply = "task" => f.task \in DOMAIN jobs /\ jobs[f.task].project = f.project
  /\ f.reply = "imported" => f.project \in attached

TasksFit ==
  /\ \A f \in flights : ReplyFits(f)
  /\ \A w \in watchers : w.task \in DOMAIN jobs /\ w.attempt < MaxPolls
  /\ store.pending => \E f \in flights : Page!Favors(f)

(* As long as no answer came late, the requests of the visit that is shown *)
(* are of its project, and so is what became of the import.                *)
Finished(p) ==
  p \in attached \/ \E j \in DOMAIN jobs : jobs[j].project = p /\ jobs[j].state = "completed"

VisitIsShown ==
  /\ page.open => store.visit = page.visit /\ store.project = page.route
  /\ \A f \in flights : f.kind # "load" /\ f.visit = store.visit => f.project = store.project
  /\ store.known # None => store.known = store.project

ImportIsShown ==
  /\ \A w \in watchers : jobs[w.task].project = w.project
  /\ store.import = "imported" => Finished(store.project)
  /\ store.import = "importing" =>
       \/ store.later \/ \E w \in watchers : Page!IsCurrent(w)
       \/ \E f \in flights : f.kind = "import"

(* As long as no search crossed another request either, a search is alone, *)
(* and so is the change of a favorite.                                     *)
OneByOne ==
  /\ \A f \in flights : f.kind = "search" /\ f.visit = store.visit => f.intent = store.searched
  /\ store.shown # None => /\ store.shown.project = store.project
                           /\ store.shown.intent = store.searched
  /\ \A f, g \in flights : f.kind = "search" /\ (g.kind = "search" \/ Page!Favors(g)) => f = g
  /\ \A f \in flights : f.kind = "search" => store.shown = None
  /\ \A f, g \in flights : Page!Favors(f) /\ Page!Favors(g) => f = g
  /\ \A f \in flights : Page!Favors(f) /\ store.shown # None => store.pending

(* And as long as no answer was lost, the page knows the favorite, but for *)
(* what it is changing.                                                    *)
Changing(f) ==
  /\ store.shown # None
  /\ store.shown.favorite <=> f.kind # "save"
  /\ f.kind = "save"   => store.known = None /\ (f.reply = "yes" <=> store.project \in favorites)
  /\ f.kind = "list"   => store.known = None /\ store.project \in favorites /\ f.reply # "no"
  /\ f.kind = "remove" => /\ store.known = store.project /\ f.of = store.project
                          /\ f.reply # "refused"
                          /\ f.reply = "yes" <=> store.project \notin favorites

FavoriteIsShown ==
  /\ (\A f \in flights : ~Page!Favors(f)) =>
       /\ store.shown # None => (store.shown.favorite <=> store.project \in favorites)
       /\ store.known # None => store.known \in favorites
  /\ \A f \in flights : f.kind = "search" /\ f.reply # "none" =>
       (f.reply = "yes" <=> f.project \in favorites)
  /\ \A f \in flights : Page!Favors(f) /\ f.visit = store.visit => Changing(f)

PageInv ==
  /\ PageTypes /\ VisitsFit /\ TasksFit
  /\ ~late => VisitIsShown /\ ImportIsShown
  /\ ~late /\ ~crossed => OneByOne
  /\ ~late /\ ~crossed /\ ~lost => FavoriteIsShown

LEMMA PageNumbers == MaxPolls \in Nat \ {0} /\ Projects # {} /\ None \notin Projects
BY RequestsAssumption DEF Page!PageAssumption

LEMMA NoneIsApart == None \notin PageResult
BY RequestsAssumption DEF Page!PageAssumption, PageResult, Place

LEMMA PageShows ==
  ASSUME PageInv
  PROVE  Page!PageTellsTruth /\ Page!ButtonsAreReleased
<1>1. Page!PageTellsTruth
  BY DEF PageInv, VisitIsShown, ImportIsShown, OneByOne, FavoriteIsShown, Finished, Page!PageTellsTruth,
     Page!HasResult
<1>2. Page!ButtonsAreReleased
  BY DEF PageInv, ImportIsShown, TasksFit, Page!ButtonsAreReleased
<1> QED
  BY <1>1, <1>2

LEMMA ResetIsTyped ==
  ASSUME NEW p \in Place, NEW v \in Nat
  PROVE  /\ Page!Reset(p, v) \in PageStore /\ Page!Reset(p, v).project = p /\ Page!Reset(p, v).visit = v
         /\ Page!Reset(p, v).shown = None /\ Page!Reset(p, v).known = None
         /\ Page!Reset(p, v).import = "idle" /\ Page!Reset(p, v).pending = FALSE
BY DEF Page!Reset, PageStore, Place

LEMMA PageInit ==
  ASSUME Page!PageInit
  PROVE  PageInv
<1>1. PageTypes
  <2>1. store \in PageStore
    BY ResetIsTyped DEF Page!PageInit, Place
  <2>2. (CHOOSE p \in Projects : TRUE) \in Projects
    BY PageNumbers
  <2> QED
    <3>1. page \in [route : Projects, visit : Nat, open : BOOLEAN]
      BY <2>2 DEF Page!PageInit
    <3>2. jobs = <<>> /\ jobs \in Seq(PageJob) /\ acts = 0 /\ flights = {} /\ watchers = {}
          /\ late = FALSE /\ crossed = FALSE /\ lost = FALSE
      BY DEF Page!PageInit
    <3> QED
      BY <2>1, <3>1, <3>2 DEF PageTypes
<1> QED
  BY <1>1, ResetIsTyped DEF Page!PageInit, PageInv, VisitsFit, TasksFit, VisitIsShown, ImportIsShown,
     OneByOne, FavoriteIsShown, Place

(* What is asked for. *)
LEMMA AskedIsTyped ==
  ASSUME PageTypes, NEW kind \in Page!Kinds, NEW p \in Place, NEW of \in Place
  PROVE  LET f == Page!Asking(acts + 1, kind, p, of)
         IN  /\ f \in PageFlight /\ f.kind = kind /\ f.project = p /\ f.of = of
             /\ f.visit = page.visit /\ f.intent = store.intent /\ f.reply = "none"
BY DEF Page!Asking, PageFlight, PageTypes, PageStore, Place

LEMMA OpenInv ==
  ASSUME PageInv, NEW p \in Projects, Page!Open(p)
  PROVE  PageInv'
<1> DEFINE f == [Page!Asking(acts + 1, "load", p, None) EXCEPT !.visit = page.visit + 1]
<1>1. f \in PageFlight /\ f.kind = "load" /\ f.project = p /\ f.visit = page.visit + 1 /\ f.reply = "none"
  BY DEF Page!Asking, PageFlight, PageInv, PageTypes, PageStore, Place, Page!Kinds
<1>2. /\ page' = [route |-> p, visit |-> page.visit + 1, open |-> FALSE]
      /\ flights' = flights \union {f} /\ acts' = acts + 1
      /\ UNCHANGED <<store, watchers, favorites, jobs, attached, late, crossed, lost>>
  BY DEF Page!Open, Page!server
<1> HIDE DEF f
<1>3. PageTypes'
  BY <1>1, <1>2 DEF PageInv, PageTypes
<1>4. VisitsFit'
  <2>1. page.visit \in Nat /\ \A g \in flights : g.visit \in Nat /\ g.visit <= page.visit
    BY DEF PageInv, PageTypes, PageFlight, VisitsFit
  <2> QED
    BY <1>1, <1>2, <2>1 DEF PageInv, VisitsFit
<1>5. TasksFit'
  BY <1>1, <1>2 DEF PageInv, TasksFit, ReplyFits
<1>6. ~late => VisitIsShown' /\ ImportIsShown'
  BY <1>1, <1>2 DEF PageInv, VisitIsShown, ImportIsShown, Finished, Page!IsCurrent
<1>7. ~late /\ ~crossed => OneByOne'
  BY <1>1, <1>2 DEF PageInv, OneByOne, Page!Favors
<1>8. ~late /\ ~crossed /\ ~lost => FavoriteIsShown'
  BY <1>1, <1>2 DEF PageInv, FavoriteIsShown, Page!Favors, Changing
<1> QED
  BY <1>2, <1>3, <1>4, <1>5, <1>6, <1>7, <1>8 DEF PageInv

(* Steps that change the store only. *)
LEMMA StoreInv ==
  ASSUME PageInv, store' \in PageStore,
         UNCHANGED <<page, flights, watchers, favorites, jobs, attached, acts, late, crossed, lost>>,
         store'.project = store.project, store'.visit = store.visit,
         store'.searched = store.searched, store'.shown = store.shown,
         store'.known = store.known, store'.pending = store.pending,
         store'.later = store.later, store'.token = store.token, store'.import = store.import
  PROVE  PageInv'
<1>1. PageTypes' /\ VisitsFit' /\ TasksFit'
  BY DEF PageInv, PageTypes, VisitsFit, TasksFit, ReplyFits, Page!Favors
<1>2. ~late => VisitIsShown' /\ ImportIsShown'
  BY DEF PageInv, VisitIsShown, ImportIsShown, Finished, Page!IsCurrent
<1>3. ~late /\ ~crossed => OneByOne'
  BY DEF PageInv, OneByOne, Page!Favors
<1>4. ~late /\ ~crossed /\ ~lost => FavoriteIsShown'
  BY DEF PageInv, FavoriteIsShown, Page!Favors, Changing
<1> QED
  BY <1>1, <1>2, <1>3, <1>4 DEF PageInv

LEMMA DescribeInv ==
  ASSUME PageInv, Page!Describe \/ Page!MarkClarifying
  PROVE  PageInv'
<1>1. CASE Page!Describe
  <2>1. store' = [store EXCEPT !.intent = @ + 1, !.status = "ready"] /\ store \in PageStore
    BY <1>1 DEF Page!Describe, PageInv, PageTypes
  <2> QED
    <3>1. UNCHANGED <<page, flights, watchers, favorites, jobs, attached, acts, late, crossed, lost>>
      BY <1>1 DEF Page!Describe, Page!server
    <3>2. /\ store' \in PageStore /\ store'.project = store.project /\ store'.visit = store.visit
          /\ store'.searched = store.searched /\ store'.shown = store.shown
          /\ store'.known = store.known /\ store'.pending = store.pending
          /\ store'.later = store.later /\ store'.token = store.token
          /\ store'.import = store.import
      <4> DEFINE n == store.intent + 1
      <4>1. n \in Nat /\ store' = [store EXCEPT !.intent = n, !.status = "ready"]
        BY <2>1 DEF PageStore
      <4> HIDE DEF n
      <4> QED
        BY <2>1, <4>1 DEF PageStore
    <3> QED
      BY <3>1, <3>2, StoreInv
<1>2. CASE Page!MarkClarifying
  <2>1. store' = [store EXCEPT !.status = "clarifying"] /\ store \in PageStore
    BY <1>2 DEF Page!MarkClarifying, PageInv, PageTypes
  <2> QED
    BY <1>2, <2>1, StoreInv DEF Page!MarkClarifying, PageStore, Page!server
<1> QED
  BY <1>1, <1>2

LEMMA SubmitInv ==
  ASSUME PageInv, Page!SubmitSearch
  PROVE  PageInv'
<1> DEFINE f == Page!Asking(acts + 1, "search", page.route, None)
<1>1. f \in PageFlight /\ f.kind = "search" /\ f.project = page.route /\ f.visit = page.visit
      /\ f.intent = store.intent /\ f.reply = "none"
  <2>1. page.route \in Place /\ None \in Place /\ "search" \in Page!Kinds
    BY DEF PageInv, PageTypes, Place, Page!Kinds
  <2> QED
    BY <2>1, AskedIsTyped DEF PageInv
<1>2. /\ flights' = flights \union {f} /\ acts' = acts + 1 /\ page.open
      /\ UNCHANGED <<page, watchers, favorites, jobs, attached, late, lost>>
      /\ crossed' = (crossed \/ \E g \in flights : g.kind = "search" \/ Page!Favors(g))
  BY DEF Page!SubmitSearch, Page!Ask, Page!server
<1>3. /\ store \in PageStore /\ page.route \in Place
      /\ store' = [store EXCEPT !.project = page.route, !.status = "searching",
                                !.shown = None, !.searched = store.intent]
  BY DEF Page!SubmitSearch, PageInv, PageTypes, Place
<1>4. /\ store' \in PageStore /\ store'.project = page.route /\ store'.shown = None
      /\ store'.searched = store.intent
      /\ store'.visit = store.visit /\ store'.known = store.known
      /\ store'.pending = store.pending /\ store'.later = store.later
      /\ store'.token = store.token /\ store'.import = store.import
  BY <1>3 DEF PageStore
<1> HIDE DEF f
<1>5. PageTypes'
  BY <1>1, <1>2, <1>4 DEF PageInv, PageTypes
<1>6. VisitsFit' /\ TasksFit'
  <2>1. VisitsFit'
    BY <1>1, <1>2 DEF PageInv, VisitsFit, PageTypes
  <2>2. \A g \in flights' : ReplyFits(g)'
    BY <1>1, <1>2 DEF PageInv, TasksFit, ReplyFits
  <2>3. TasksFit'
    BY <1>2, <1>4, <2>2 DEF PageInv, TasksFit, Page!Favors
  <2> QED
    BY <2>1, <2>3
<1>7. ~late => VisitIsShown' /\ ImportIsShown'
  <2> SUFFICES ASSUME ~late PROVE VisitIsShown' /\ ImportIsShown'
    OBVIOUS
  <2>1. store.project = page.route /\ store.visit = page.visit
    BY <1>2 DEF PageInv, VisitIsShown
  <2> QED
    BY <1>1, <1>2, <1>4, <2>1 DEF PageInv, VisitIsShown, ImportIsShown, Finished, Page!IsCurrent
<1>8. ~late /\ ~crossed' => OneByOne'
  BY <1>1, <1>2, <1>4 DEF PageInv, OneByOne, Page!Favors
<1>9. ~late /\ ~crossed' /\ ~lost => FavoriteIsShown'
  BY <1>1, <1>2, <1>4 DEF PageInv, FavoriteIsShown, Page!Favors
<1> QED
  BY <1>2, <1>5, <1>6, <1>7, <1>8, <1>9 DEF PageInv

(* The change of a favorite is asked for. *)
LEMMA ToggleInv ==
  ASSUME PageInv, Page!ToggleFavorite
  PROVE  PageInv'
<1> DEFINE f == IF ~store.shown.favorite
                THEN Page!Asking(acts + 1, "save", store.project, None)
                ELSE IF store.known = None
                THEN Page!Asking(acts + 1, "list", store.project, None)
                ELSE Page!Asking(acts + 1, "remove", store.project, store.known)
<1>1. /\ f \in PageFlight /\ f.project = store.project /\ f.visit = page.visit /\ f.reply = "none"
      /\ f.kind \in {"save", "list", "remove"}
      /\ f.kind = "save" <=> ~store.shown.favorite
      /\ f.kind = "list" => store.known = None
      /\ f.kind = "remove" => store.known # None /\ f.of = store.known
  <2>1. /\ store.project \in Place /\ None \in Place /\ store.known \in Place
        /\ {"save", "list", "remove"} \subseteq Page!Kinds
    BY DEF PageInv, PageTypes, PageStore, Place, Page!Kinds
  <2> QED
    BY <2>1, AskedIsTyped DEF PageInv
<1>2. /\ flights' = flights \union {f} /\ acts' = acts + 1
      /\ page.open /\ store.shown # None /\ ~store.pending
      /\ UNCHANGED <<page, watchers, favorites, jobs, attached, late, crossed, lost>>
  BY DEF Page!ToggleFavorite, Page!HasResult, Page!Ask, Page!server
<1>3. /\ store \in PageStore /\ store' = [store EXCEPT !.pending = TRUE]
  BY DEF Page!ToggleFavorite, PageInv, PageTypes
<1>4. /\ store' \in PageStore /\ store'.pending
      /\ store'.project = store.project /\ store'.shown = store.shown
      /\ store'.searched = store.searched
      /\ store'.visit = store.visit /\ store'.known = store.known
      /\ store'.later = store.later
      /\ store'.token = store.token /\ store'.import = store.import
  BY <1>3 DEF PageStore
<1>5. Page!Favors(f)
  BY <1>1 DEF Page!Favors
<1> HIDE DEF f
<1>6. PageTypes'
  BY <1>1, <1>2, <1>4 DEF PageInv, PageTypes
<1>7. VisitsFit'
  BY <1>1, <1>2 DEF PageInv, VisitsFit, PageTypes
<1>8. TasksFit'
  <2>1. \A g \in flights' : ReplyFits(g)'
    BY <1>1, <1>2 DEF PageInv, TasksFit, ReplyFits
  <2> QED
    BY <1>2, <1>4, <1>5, <2>1 DEF PageInv, TasksFit, Page!Favors
<1>9. ~late => VisitIsShown' /\ ImportIsShown'
  BY <1>1, <1>2, <1>4 DEF PageInv, VisitIsShown, ImportIsShown, Finished, Page!IsCurrent
<1>10. ~late /\ ~crossed => /\ OneByOne' /\ \A g \in flights : ~Page!Favors(g)
  BY <1>1, <1>2, <1>4 DEF PageInv, OneByOne, Page!Favors
<1>11. ~late /\ ~crossed /\ ~lost => FavoriteIsShown'
  <2> SUFFICES ASSUME ~late, ~crossed, ~lost PROVE FavoriteIsShown'
    OBVIOUS
  <2>1. /\ store.shown.favorite <=> store.project \in favorites
        /\ store.known # None => store.known \in favorites /\ store.known = store.project
    BY <1>2, <1>10 DEF PageInv, FavoriteIsShown, VisitIsShown
  <2>2. ASSUME NEW g, g = f PROVE Changing(g)'
    BY <1>1, <1>2, <1>4, <2>1, <2>2 DEF Changing
  <2>3. \A g \in flights' : Page!Favors(g) => Changing(g)'
    BY <1>2, <1>10, <2>2 DEF Page!Favors
  <2>4. ~\A g \in flights' : ~Page!Favors(g)
    BY <1>2, <1>5 DEF Page!Favors
  <2>5. \A g \in flights' : g.kind = "search" => g \in flights
    BY <1>1, <1>2
  <2> QED
    BY <1>2, <2>3, <2>4, <2>5 DEF PageInv, FavoriteIsShown, Page!Favors
<1> QED
  BY <1>2, <1>6, <1>7, <1>8, <1>9, <1>10, <1>11 DEF PageInv

LEMMA ImportInv ==
  ASSUME PageInv, Page!ImportPaper
  PROVE  PageInv'
<1> DEFINE f == Page!Asking(acts + 1, "import", store.project, None)
<1>1. f \in PageFlight /\ f.project = store.project /\ f.visit = page.visit /\ f.reply = "none"
      /\ f.kind = "import"
  <2>1. store.project \in Place /\ None \in Place /\ "import" \in Page!Kinds
    BY DEF PageInv, PageTypes, PageStore, Place, Page!Kinds
  <2> QED
    BY <2>1, AskedIsTyped DEF PageInv
<1>2. /\ flights' = flights \union {f} /\ acts' = acts + 1 /\ page.open
      /\ UNCHANGED <<page, watchers, favorites, jobs, attached, late, crossed, lost>>
  BY DEF Page!ImportPaper, Page!HasResult, Page!Ask, Page!server
<1>3. /\ store \in PageStore /\ store' = [store EXCEPT !.import = "importing", !.later = FALSE]
  BY DEF Page!ImportPaper, PageInv, PageTypes
<1>4. /\ store' \in PageStore /\ store'.pending = store.pending
      /\ store'.project = store.project /\ store'.shown = store.shown
      /\ store'.searched = store.searched
      /\ store'.visit = store.visit /\ store'.known = store.known
      /\ store'.import = "importing"
  BY <1>3 DEF PageStore
<1> HIDE DEF f
<1>5. PageTypes'
  BY <1>1, <1>2, <1>4 DEF PageInv, PageTypes
<1>6. VisitsFit'
  BY <1>1, <1>2 DEF PageInv, VisitsFit, PageTypes
<1>7. TasksFit'
  <2>1. \A g \in flights' : ReplyFits(g)'
    BY <1>1, <1>2 DEF PageInv, TasksFit, ReplyFits
  <2> QED
    BY <1>2, <1>4, <2>1 DEF PageInv, TasksFit, Page!Favors
<1>8. ~late => VisitIsShown' /\ ImportIsShown'
  BY <1>1, <1>2, <1>4 DEF PageInv, VisitIsShown, ImportIsShown
<1>9. ~late /\ ~crossed => OneByOne'
  BY <1>1, <1>2, <1>4 DEF PageInv, OneByOne, Page!Favors
<1>10. ~late /\ ~crossed /\ ~lost => FavoriteIsShown'
  BY <1>1, <1>2, <1>4 DEF PageInv, FavoriteIsShown, Page!Favors, Changing
<1> QED
  BY <1>2, <1>5, <1>6, <1>7, <1>8, <1>9, <1>10 DEF PageInv

(* The server works on a request. *)
LEMMA RepliedInv ==
  ASSUME PageInv, NEW f \in flights, NEW g \in PageFlight,
         flights' = (flights \ {f}) \union {g},
         g.kind = f.kind, g.project = f.project, g.visit = f.visit, g.intent = f.intent, g.of = f.of,
         ReplyFits(g)', jobs' \in Seq(PageJob),
         \A j \in DOMAIN jobs : /\ j \in DOMAIN jobs' /\ jobs'[j].project = jobs[j].project
                                /\ jobs[j].state = "completed" => jobs'[j].state = "completed",
         attached \subseteq attached',
         UNCHANGED <<page, store, watchers, acts, late, crossed, lost>>
  PROVE  /\ PageTypes' /\ VisitsFit' /\ TasksFit'
         /\ ~late => VisitIsShown' /\ ImportIsShown'
         /\ ~late /\ ~crossed => OneByOne'
<1>1. PageTypes'
  BY DEF PageInv, PageTypes
<1>2. VisitsFit'
  BY DEF PageInv, VisitsFit
<1>3. TasksFit'
  <2>1. \A h \in flights : h # f => ReplyFits(h)'
    BY DEF PageInv, TasksFit, ReplyFits
  <2> QED
    BY <2>1 DEF PageInv, TasksFit, Page!Favors
<1>4. ~late => VisitIsShown' /\ ImportIsShown'
  <2>1. ~late => VisitIsShown'
    BY DEF PageInv, VisitIsShown
  <2>2. store.import = "imported" /\ Finished(store.project) => Finished(store.project)'
    BY DEF Finished
  <2>3. ~late => ImportIsShown'
    BY <2>2 DEF PageInv, ImportIsShown, TasksFit, Page!IsCurrent
  <2> QED
    BY <2>1, <2>3
<1>5. ~late /\ ~crossed => OneByOne'
  BY DEF PageInv, OneByOne, Page!Favors
<1> QED
  BY <1>1, <1>2, <1>3, <1>4, <1>5

LEMMA ServeFavoritesInv ==
  ASSUME PageInv, NEW f \in flights, f.reply = "none", Page!ServeFavorites(f),
         UNCHANGED <<page, store, watchers, acts, late, crossed, lost>>
  PROVE  PageInv'
<1> DEFINE r == CASE f.kind \in {"load", "save"} -> "yes"
                  [] f.kind = "remove" -> IF f.of = f.project /\ f.of \in favorites
                                          THEN "yes" ELSE "refused"
                  [] OTHER -> Page!YesNo(f.project \in favorites)
           g == [f EXCEPT !.reply = r, !.task = 0]
<1>1. f \in PageFlight /\ f.kind \in {"load", "search", "list", "save", "remove"}
  BY DEF PageInv, PageTypes, Page!ServeFavorites
<1>2. PICK h \in PageFlight :
        /\ flights' = (flights \ {f}) \union {h}
        /\ h.kind = f.kind /\ h.project = f.project /\ h.visit = f.visit
        /\ h.intent = f.intent /\ h.of = f.of /\ h.reply = r
  <2>1. r \in {"yes", "no", "refused"}
    BY <1>1 DEF Page!YesNo
  <2>2. flights' = (flights \ {f}) \union {g}
    BY DEF Page!ServeFavorites, Page!Replied
  <2> HIDE DEF r
  <2>3. g \in PageFlight /\ g.kind = f.kind /\ g.project = f.project /\ g.visit = f.visit
        /\ g.intent = f.intent /\ g.of = f.of /\ g.reply = r
    BY <1>1, <2>1 DEF PageFlight
  <2> QED
    BY <2>2, <2>3
<1>3. UNCHANGED <<jobs, attached>>
  BY DEF Page!ServeFavorites
<1>4. /\ f.kind \notin {"save", "remove"} => favorites' = favorites
      /\ f.kind = "save" => favorites' = favorites \union {f.project}
      /\ f.kind = "remove" => favorites' = favorites \ ({f.project} \intersect {f.of})
  BY <1>1 DEF Page!ServeFavorites
<1>5. /\ h.reply \in {"yes", "no", "refused"}
      /\ f.kind \in {"save", "load"} => h.reply = "yes"
      /\ f.kind = "search" => h.reply # "refused" /\ (h.reply = "yes" <=> f.project \in favorites)
      /\ f.kind = "list" => h.reply # "refused" /\ (h.reply = "yes" <=> f.project \in favorites)
      /\ f.kind = "remove" => /\ h.reply # "no"
                              /\ h.reply = "yes" <=> f.of = f.project /\ f.of \in favorites
  BY <1>1, <1>2 DEF Page!YesNo
<1> HIDE DEF r, g
<1>7. /\ flights' = (flights \ {f}) \union {h}
      /\ h.kind = f.kind /\ h.project = f.project /\ h.visit = f.visit
      /\ h.intent = f.intent /\ h.of = f.of
  BY <1>2
<1>8. ReplyFits(h)'
  BY <1>1, <1>5, <1>7 DEF ReplyFits
<1>9. /\ PageTypes' /\ VisitsFit' /\ TasksFit'
      /\ ~late => VisitIsShown' /\ ImportIsShown'
      /\ ~late /\ ~crossed => OneByOne'
  <2>1. jobs' \in Seq(PageJob)
    BY <1>3 DEF PageInv, PageTypes
  <2> QED
    BY <1>3, <1>7, <1>8, <2>1, RepliedInv
<1>10. ~late /\ ~crossed /\ ~lost => FavoriteIsShown'
  <2> SUFFICES ASSUME ~late, ~crossed, ~lost PROVE FavoriteIsShown'
    OBVIOUS
  <2>1. /\ f.kind = "search" => \A e \in flights : ~Page!Favors(e)
        /\ Page!Favors(f) => \A e \in flights : e.kind # "search" /\ (Page!Favors(e) => e = f)
        /\ f.kind # "load" /\ f.visit = store.visit => f.project = store.project
    BY DEF PageInv, OneByOne, VisitIsShown, Page!Favors
  <2>2. CASE f.kind \in {"load", "search"}
    BY <1>4, <1>5, <1>7, <2>1, <2>2 DEF PageInv, FavoriteIsShown, Page!Favors, Changing
  <2>3. CASE f.kind \in {"save", "list", "remove"}
    <3>1. Page!Favors(f) /\ Page!Favors(h)
      BY <1>7, <2>3 DEF Page!Favors
    <3>2. f.visit = store.visit => Changing(f)
      BY <3>1 DEF PageInv, FavoriteIsShown
    <3>3. f.visit = store.visit => Changing(h)'
      BY <1>4, <1>5, <1>7, <2>1, <2>3, <3>1, <3>2 DEF Changing
    <3>4. \A e \in flights' : e.kind # "search" /\ (Page!Favors(e) => e = h)
      BY <1>7, <2>1, <2>3, <3>1
    <3> QED
      BY <1>7, <3>1, <3>3, <3>4 DEF FavoriteIsShown, Page!Favors
  <2> QED
    BY <1>1, <2>2, <2>3
<1> QED
  BY <1>9, <1>10 DEF PageInv

LEMMA ServeImportInv ==
  ASSUME PageInv, NEW f \in flights, f.reply = "none", Page!ServeImport(f),
         UNCHANGED <<page, store, watchers, acts, late, crossed, lost>>
  PROVE  PageInv'
<1>1. f \in PageFlight /\ f.kind = "import" /\ UNCHANGED favorites /\ jobs \in Seq(PageJob)
  BY DEF PageInv, PageTypes, Page!ServeImport
<1>2. ASSUME NEW r \in {"refused", "imported", "task"}, NEW t \in Nat, Page!Replied(f, r, t),
             jobs' \in Seq(PageJob),
             \A j \in DOMAIN jobs : j \in DOMAIN jobs' /\ jobs'[j] = jobs[j],
             attached \subseteq attached',
             r = "task" => t \in DOMAIN jobs' /\ jobs'[t].project = f.project,
             r = "imported" => f.project \in attached'
      PROVE  PageInv'
  <2> DEFINE g == [f EXCEPT !.reply = r, !.task = t]
  <2>1. g \in PageFlight /\ g.kind = f.kind /\ g.project = f.project /\ g.visit = f.visit
        /\ g.intent = f.intent /\ g.of = f.of /\ g.reply = r /\ g.task = t
    BY <1>1 DEF PageFlight
  <2>2. PICK h \in PageFlight : h = g
    BY <2>1
  <2>3. /\ flights' = (flights \ {f}) \union {h}
        /\ h.kind = f.kind /\ h.project = f.project /\ h.visit = f.visit
        /\ h.intent = f.intent /\ h.of = f.of /\ h.reply = r /\ h.task = t
    BY <1>2, <2>1, <2>2 DEF Page!Replied
  <2> HIDE DEF g
  <2>4. ReplyFits(h)'
    BY <1>1, <1>2, <2>3 DEF ReplyFits
  <2>5. /\ PageTypes' /\ VisitsFit' /\ TasksFit'
        /\ ~late => VisitIsShown' /\ ImportIsShown'
        /\ ~late /\ ~crossed => OneByOne'
    BY <1>2, <2>3, <2>4, RepliedInv
  <2>6. ~late /\ ~crossed /\ ~lost => FavoriteIsShown'
    BY <1>1, <2>3 DEF PageInv, FavoriteIsShown, Page!Favors, Changing
  <2> QED
    BY <2>5, <2>6 DEF PageInv
<1>3. CASE attached' = attached \union {f.project} /\ Page!Replied(f, "imported", 0) /\ UNCHANGED jobs
  BY <1>1, <1>2, <1>3
<1>4. ASSUME NEW j \in Page!UnderWay(f.project), Page!Replied(f, "task", j), UNCHANGED <<jobs, attached>>
      PROVE  PageInv'
  <2>1. j \in DOMAIN jobs /\ jobs[j].project = f.project /\ j \in Nat
    BY <1>1 DEF Page!UnderWay
  <2> QED
    BY <1>1, <1>2, <1>4, <2>1
<1>5. ASSUME NEW state \in {"processing", "failed"}, NEW r \in {"task", "refused"}, NEW t \in Nat,
             jobs' = Append(jobs, [project |-> f.project, state |-> state, listed |-> TRUE]),
             Page!Replied(f, r, t), r = "task" => t = Len(jobs'), UNCHANGED attached
      PROVE  PageInv'
  <2> DEFINE job == [project |-> f.project, state |-> state, listed |-> TRUE]
  <2>1. job \in PageJob /\ job.project = f.project /\ jobs' = Append(jobs, job)
    BY <1>1, <1>5 DEF PageJob, PageFlight
  <2> HIDE DEF job
  <2>2. jobs' \in Seq(PageJob) /\ Len(jobs') \in DOMAIN jobs' /\ jobs'[Len(jobs')] = job
        /\ \A j \in DOMAIN jobs : j \in DOMAIN jobs' /\ jobs'[j] = jobs[j]
    BY <1>1, <2>1
  <2> QED
    BY <1>2, <1>5, <2>1, <2>2
<1>6. ASSUME NEW state \in {"processing", "failed"},
             jobs' = Append(jobs, [project |-> f.project, state |-> state, listed |-> TRUE])
      PROVE  Len(jobs') \in Nat
  <2> DEFINE job == [project |-> f.project, state |-> state, listed |-> TRUE]
  <2>1. jobs' = Append(jobs, job)
    BY <1>6
  <2> HIDE DEF job
  <2> QED
    BY <1>1, <2>1
<1>7. CASE /\ jobs' = Append(jobs, [project |-> f.project, state |-> "processing", listed |-> TRUE])
           /\ Page!Replied(f, "task", Len(jobs')) /\ UNCHANGED attached
  <2>1. Len(jobs') \in Nat
    BY <1>6, <1>7
  <2> DEFINE n == Len(jobs')
  <2>2. n \in Nat /\ n = Len(jobs') /\ Page!Replied(f, "task", n)
    BY <1>7, <2>1
  <2> HIDE DEF n
  <2> QED
    BY <1>5, <1>7, <2>2
<1>8. CASE /\ jobs' = Append(jobs, [project |-> f.project, state |-> "failed", listed |-> TRUE])
           /\ Page!Replied(f, "refused", 0) /\ UNCHANGED attached
  BY <1>5, <1>8
<1> QED
  BY <1>3, <1>4, <1>7, <1>8 DEF Page!ServeImport

(* The server works on an import. *)
LEMMA WorkInv ==
  ASSUME PageInv, jobs' \in Seq(PageJob),
         \A j \in DOMAIN jobs : /\ j \in DOMAIN jobs' /\ jobs'[j].project = jobs[j].project
                                /\ jobs[j].state = "completed" => jobs'[j].state = "completed",
         attached \subseteq attached',
         UNCHANGED <<page, store, flights, watchers, favorites, acts, late, crossed, lost>>
  PROVE  PageInv'
<1>1. PageTypes' /\ VisitsFit'
  BY DEF PageInv, PageTypes, VisitsFit
<1>2. TasksFit'
  <2>1. \A h \in flights : ReplyFits(h)'
    BY DEF PageInv, TasksFit, ReplyFits
  <2> QED
    BY <2>1 DEF PageInv, TasksFit, Page!Favors
<1>3. ~late => VisitIsShown' /\ ImportIsShown'
  <2>1. ~late => VisitIsShown'
    BY DEF PageInv, VisitIsShown
  <2>2. store.import = "imported" /\ Finished(store.project) => Finished(store.project)'
    BY DEF Finished
  <2>3. ~late => ImportIsShown'
    BY <2>2 DEF PageInv, ImportIsShown, TasksFit, Page!IsCurrent
  <2> QED
    BY <2>1, <2>3
<1>4. ~late /\ ~crossed => OneByOne'
  BY DEF PageInv, OneByOne, Page!Favors
<1>5. ~late /\ ~crossed /\ ~lost => FavoriteIsShown'
  BY DEF PageInv, FavoriteIsShown, Page!Favors, Changing
<1> QED
  BY <1>1, <1>2, <1>3, <1>4, <1>5 DEF PageInv

LEMMA ProcessInv ==
  ASSUME PageInv, NEW i \in DOMAIN jobs, Page!Process(i) \/ Page!Attach(i)
  PROVE  PageInv'
<1>1. jobs \in Seq(PageJob) /\ jobs[i] \in PageJob
  BY DEF PageInv, PageTypes
<1>2. ASSUME NEW job \in PageJob, jobs' = [jobs EXCEPT ![i] = job], job.project = jobs[i].project,
             jobs[i].state = "completed" => job.state = "completed",
             attached \subseteq attached',
             UNCHANGED <<page, store, flights, watchers, favorites, acts, late, crossed, lost>>
      PROVE  PageInv'
  <2>1. jobs' \in Seq(PageJob) /\ DOMAIN jobs' = DOMAIN jobs
        /\ \A j \in DOMAIN jobs : jobs'[j] = IF j = i THEN job ELSE jobs[j]
    BY <1>1, <1>2
  <2> QED
    BY <1>2, <2>1, WorkInv
<1>3. CASE Page!Process(i)
  <2>1. ASSUME NEW job, job = [jobs[i] EXCEPT !.state = "completed"], jobs' = [jobs EXCEPT ![i] = job]
        PROVE  PageInv'
    <3>1. job \in PageJob /\ job.project = jobs[i].project /\ job.state = "completed"
      BY <1>1, <2>1 DEF PageJob
    <3> QED
      BY <1>2, <1>3, <2>1, <3>1 DEF Page!Process
  <2>2. ASSUME NEW job, job = [jobs[i] EXCEPT !.state = "failed", !.listed = FALSE],
               jobs' = [jobs EXCEPT ![i] = job]
        PROVE  PageInv'
    <3>1. job \in PageJob /\ job.project = jobs[i].project
      BY <1>1, <2>2 DEF PageJob
    <3> QED
      BY <1>2, <1>3, <2>2, <3>1 DEF Page!Process
  <2>3. \/ jobs' = [jobs EXCEPT ![i] = [jobs[i] EXCEPT !.state = "completed"]]
        \/ jobs' = [jobs EXCEPT ![i] = [jobs[i] EXCEPT !.state = "failed", !.listed = FALSE]]
    <3>1. CASE jobs' = [jobs EXCEPT ![i].state = "completed"]
      BY <1>1, <3>1
    <3>2. CASE jobs' = [jobs EXCEPT ![i].state = "failed", ![i].listed = FALSE]
      BY <1>1, <3>2 DEF PageJob
    <3> QED
      BY <1>3, <3>1, <3>2 DEF Page!Process
  <2> QED
    BY <2>1, <2>2, <2>3
<1>4. CASE Page!Attach(i)
  <2>1. ASSUME NEW job, job = [jobs[i] EXCEPT !.listed = FALSE]
        PROVE  job \in PageJob /\ job.project = jobs[i].project /\ job.state = jobs[i].state
    BY <1>1, <2>1 DEF PageJob
  <2>2. jobs' = [jobs EXCEPT ![i] = [jobs[i] EXCEPT !.listed = FALSE]] /\ attached \subseteq attached'
        /\ UNCHANGED <<page, store, flights, watchers, favorites, acts, late, crossed, lost>>
    BY <1>1, <1>4 DEF Page!Attach
  <2> QED
    BY <1>2, <2>1, <2>2
<1> QED
  BY <1>3, <1>4

(* The page watches an import. *)
LEMMA WatchedInv ==
  ASSUME PageInv, NEW w \in watchers, NEW more \in SUBSET PageWatcher,
         watchers' = (watchers \ {w}) \union more, store' \in PageStore,
         \A v \in more : v.project = w.project /\ v.task = w.task /\ v.attempt < MaxPolls,
         store'.project = store.project, store'.visit = store.visit,
         store'.searched = store.searched, store'.shown = store.shown,
         store'.known = store.known, store'.pending = store.pending,
         UNCHANGED <<page, flights, favorites, jobs, attached, acts, crossed, lost>>,
         late' \in BOOLEAN, late => late',
         ~late' => /\ store'.import = "imported" => Finished(store.project)
                   /\ store'.import = "importing" =>
                        \/ store'.later \/ \E v \in watchers' : Page!IsCurrent(v)'
                        \/ \E f \in flights : f.kind = "import"
  PROVE  PageInv'
<1>1. PageTypes' /\ VisitsFit'
  BY DEF PageInv, PageTypes, VisitsFit
<1>2. TasksFit'
  <2>1. \A h \in flights : ReplyFits(h)'
    BY DEF PageInv, TasksFit, ReplyFits
  <2> QED
    BY <2>1 DEF PageInv, TasksFit, Page!Favors
<1>3. ~late' => VisitIsShown' /\ ImportIsShown'
  <2>1. ~late' => VisitIsShown'
    BY DEF PageInv, VisitIsShown
  <2>2. Finished(store.project) => Finished(store.project)'
    BY DEF Finished
  <2>3. ~late' => \A v \in watchers' : jobs'[v.task].project = v.project
    BY DEF PageInv, ImportIsShown
  <2> QED
    BY <2>1, <2>2, <2>3 DEF ImportIsShown
<1>4. ~late' /\ ~crossed => OneByOne'
  BY DEF PageInv, OneByOne, Page!Favors
<1>5. ~late' /\ ~crossed /\ ~lost => FavoriteIsShown'
  BY DEF PageInv, FavoriteIsShown, Page!Favors, Changing
<1> QED
  BY <1>1, <1>2, <1>3, <1>4, <1>5 DEF PageInv

LEMMA PollInv ==
  ASSUME PageInv, NEW w \in watchers, Page!Poll(w)
  PROVE  PageInv'
<1> DEFINE v == [w EXCEPT !.asked = TRUE]
           more == IF Page!IsCurrent(w) THEN {v} ELSE {}
<1>1. w \in PageWatcher /\ v \in PageWatcher /\ w.attempt < MaxPolls
      /\ v.project = w.project /\ v.task = w.task /\ v.attempt = w.attempt /\ v.token = w.token
  BY DEF PageInv, PageTypes, TasksFit, PageWatcher
<1>2. watchers' = (watchers \ {w}) \union more
      /\ UNCHANGED <<page, store, flights, favorites, jobs, attached, acts, late, crossed, lost>>
  BY DEF Page!Poll, Page!server
<1> HIDE DEF v
<1>3. more \in SUBSET PageWatcher /\ \A u \in more : u = v
  BY <1>1
<1>4. ~late => /\ store.import = "imported" => Finished(store.project)
               /\ store.import = "importing" =>
                    \/ store.later \/ \E u \in watchers' : Page!IsCurrent(u)'
                    \/ \E f \in flights : f.kind = "import"
  <2>1. \A u \in watchers : Page!IsCurrent(u) => Page!IsCurrent(u)'
    BY <1>2 DEF Page!IsCurrent
  <2>2. Page!IsCurrent(w) => v \in watchers' /\ Page!IsCurrent(v)'
    <3>1. ASSUME NEW u, u = v, Page!IsCurrent(w) PROVE Page!IsCurrent(u)'
      BY <1>1, <1>2, <3>1 DEF Page!IsCurrent
    <3> QED
      BY <1>2, <3>1
  <2> QED
    BY <1>2, <2>1, <2>2 DEF PageInv, ImportIsShown
<1> HIDE DEF more
<1>5. store' \in PageStore /\ late' \in BOOLEAN
  BY <1>2 DEF PageInv, PageTypes
<1> QED
  BY <1>1, <1>2, <1>3, <1>4, <1>5, WatchedInv

LEMMA ToldInv ==
  ASSUME PageInv, NEW w \in watchers, Page!Told(w)
  PROVE  PageInv'
<1>1. w \in PageWatcher /\ w.attempt < MaxPolls /\ w.task \in DOMAIN jobs /\ store \in PageStore
      /\ late \in BOOLEAN /\ MaxPolls \in Nat /\ w.attempt \in Nat
  BY PageNumbers DEF PageInv, PageTypes, TasksFit, PageWatcher
<1>2. UNCHANGED <<page, flights, favorites, jobs, attached, acts, crossed, lost>>
  BY DEF Page!Told, Page!server
<1>3. CASE ~Page!IsCurrent(w)
  <2>1. watchers' = (watchers \ {w}) \union {} /\ UNCHANGED <<store, late>>
    BY <1>3 DEF Page!Told
  <2>2. ~late => /\ store.import = "imported" => Finished(store.project)
                 /\ store.import = "importing" =>
                      \/ store.later \/ \E u \in watchers' : Page!IsCurrent(u)'
                      \/ \E f \in flights : f.kind = "import"
    <3>1. \A u \in watchers : Page!IsCurrent(u) => u # w /\ Page!IsCurrent(u)'
      BY <1>3, <2>1 DEF Page!IsCurrent
    <3> QED
      BY <2>1, <3>1 DEF PageInv, ImportIsShown
  <2>3. PICK more \in SUBSET PageWatcher : more = {}
    OBVIOUS
  <2>4. watchers' = (watchers \ {w}) \union more
        /\ \A v \in more : v.project = w.project /\ v.task = w.task /\ v.attempt < MaxPolls
    BY <2>1, <2>3
  <2>5. store' = store /\ late' = late
    BY <2>1
  <2> QED
    BY <1>1, <1>2, <2>2, <2>4, <2>5, WatchedInv
<1>4. CASE Page!IsCurrent(w)
  <2>1. PICK outcome \in Page!Outcomes(w) :
          /\ watchers' = (watchers \ {w}) \union
               IF outcome = "processing" /\ w.attempt + 1 < MaxPolls THEN Page!GoesOn(w) ELSE {}
          /\ store' = CASE outcome = "completed" -> [store EXCEPT !.import = "imported"]
                        [] outcome = "failed"    -> [store EXCEPT !.import = "failed"]
                        [] OTHER -> [store EXCEPT !.later = w.attempt + 1 = MaxPolls]
          /\ late' = (late \/ w.visit # store.visit)
    BY <1>4 DEF Page!Told
  <2>2. late' \in BOOLEAN /\ (late => late')
    BY <1>1, <2>1
  <2>3. CASE outcome \in {"completed", "failed"}
    <3>1. watchers' = (watchers \ {w}) \union {}
      BY <2>1, <2>3
    <3>2. store' = [store EXCEPT !.import = IF outcome = "completed" THEN "imported" ELSE "failed"]
      BY <2>1, <2>3
    <3>3. /\ store' \in PageStore /\ store'.project = store.project /\ store'.visit = store.visit
          /\ store'.searched = store.searched /\ store'.shown = store.shown
          /\ store'.known = store.known /\ store'.pending = store.pending
          /\ store'.import = IF outcome = "completed" THEN "imported" ELSE "failed"
      BY <1>1, <3>2 DEF PageStore
    <3>4. outcome = "completed" => jobs[w.task].state = "completed"
      BY DEF Page!Outcomes
    <3>5. ~late /\ outcome = "completed" => Finished(store.project)
      BY <1>1, <1>4, <3>4 DEF Finished, PageInv, ImportIsShown, Page!IsCurrent
    <3>6. ~late' => /\ store'.import = "imported" => Finished(store.project)
                    /\ store'.import = "importing" =>
                         \/ store'.later \/ \E u \in watchers' : Page!IsCurrent(u)'
                         \/ \E f \in flights : f.kind = "import"
      BY <2>2, <3>3, <3>5
    <3>7. PICK more \in SUBSET PageWatcher : more = {}
      OBVIOUS
    <3>8. watchers' = (watchers \ {w}) \union more
          /\ \A v \in more : v.project = w.project /\ v.task = w.task /\ v.attempt < MaxPolls
      BY <3>1, <3>7
    <3> QED
      BY <1>1, <1>2, <2>2, <3>3, <3>6, <3>8, WatchedInv
  <2>4. CASE outcome \notin {"completed", "failed"}
    <3>1. outcome = "processing"
      <4>1. jobs[w.task] \in PageJob
        BY <1>1 DEF PageInv, PageTypes
      <4> QED
        BY <2>4, <4>1 DEF Page!Outcomes, PageJob
    <3> DEFINE n == w.attempt + 1
               v == [w EXCEPT !.attempt = n, !.asked = FALSE]
               more == IF w.attempt + 1 < MaxPolls THEN {v} ELSE {}
    <3>2. watchers' = (watchers \ {w}) \union more
          /\ store' = [store EXCEPT !.later = w.attempt + 1 = MaxPolls]
      BY <2>1, <3>1 DEF Page!GoesOn
    <3>3. v \in PageWatcher /\ v.project = w.project /\ v.task = w.task
          /\ v.attempt = w.attempt + 1 /\ v.token = w.token
      <4>1. n \in Nat
        BY <1>1
      <4>2. n = w.attempt + 1
        OBVIOUS
      <4> HIDE DEF n
      <4>3. v \in PageWatcher /\ v.project = w.project /\ v.task = w.task
            /\ v.attempt = n /\ v.token = w.token
        BY <1>1, <4>1 DEF PageWatcher
      <4> QED
        BY <4>2, <4>3
    <3> DEFINE b == w.attempt + 1 = MaxPolls
    <3>4. b \in BOOLEAN /\ store' = [store EXCEPT !.later = b]
      BY <3>2
    <3> HIDE DEF v
    <3>5. (b <=> w.attempt + 1 = MaxPolls) /\ (~b => w.attempt + 1 < MaxPolls)
      BY <1>1
    <3> HIDE DEF b
    <3>6. /\ store' \in PageStore /\ store'.project = store.project /\ store'.visit = store.visit
          /\ store'.searched = store.searched /\ store'.shown = store.shown
          /\ store'.known = store.known /\ store'.pending = store.pending
          /\ store'.import = store.import /\ store'.later = b /\ store'.token = store.token
      BY <1>1, <3>4 DEF PageStore
    <3>7. more \in SUBSET PageWatcher
          /\ \A u \in more : u.project = w.project /\ u.task = w.task /\ u.attempt < MaxPolls
      BY <3>3
    <3>8. ~b => v \in watchers' /\ Page!IsCurrent(v)'
      <4>1. ASSUME NEW u, u = v PROVE Page!IsCurrent(u)'
        BY <1>4, <3>3, <3>6, <4>1 DEF Page!IsCurrent
      <4> QED
        BY <3>2, <3>5, <4>1
    <3> HIDE DEF more
    <3>9. ~late' => /\ store'.import = "imported" => Finished(store.project)
                    /\ store'.import = "importing" =>
                         \/ store'.later \/ \E u \in watchers' : Page!IsCurrent(u)'
                         \/ \E f \in flights : f.kind = "import"
      BY <1>4, <3>6, <3>8 DEF Page!IsCurrent
    <3> QED
      BY <1>1, <1>2, <2>2, <3>2, <3>6, <3>7, <3>9, WatchedInv
  <2> QED
    BY <2>3, <2>4
<1> QED
  BY <1>3, <1>4

(* The page gets the answer to a request: what an answer leaves as it is.  *)
LEMMA AnsweredFits ==
  ASSUME PageInv, NEW f \in flights, NEW more \in SUBSET PageFlight,
         flights' = (flights \ {f}) \union more,
         \A g \in more : g.kind = "remove" /\ g.reply = "none" /\ g.visit = f.visit,
         store'.pending => \E g \in flights' : Page!Favors(g),
         store' \in PageStore, watchers' \in SUBSET PageWatcher,
         \A w \in watchers' : w \in watchers \/ (w.task \in DOMAIN jobs /\ w.attempt < MaxPolls),
         page' \in [route : Projects, visit : Nat, open : BOOLEAN],
         page'.route = page.route, page'.visit = page.visit,
         page'.open => page.open \/ (f.kind = "load" /\ f.visit = page.visit),
         late' \in BOOLEAN, lost' \in BOOLEAN,
         UNCHANGED <<favorites, jobs, attached, acts, crossed>>
  PROVE  PageTypes' /\ VisitsFit' /\ TasksFit'
<1>1. PageTypes'
  BY DEF PageInv, PageTypes
<1>2. VisitsFit'
  BY DEF PageInv, VisitsFit
<1>3. TasksFit'
  <2>1. \A g \in flights : g \in flights' => ReplyFits(g)'
    BY DEF PageInv, TasksFit, ReplyFits
  <2>2. ASSUME NEW g \in more PROVE ReplyFits(g)'
    BY DEF ReplyFits
  <2> QED
    BY <2>1, <2>2 DEF PageInv, TasksFit
<1> QED
  BY <1>1, <1>2, <1>3

(* The project of a visit is there. *)
LEMMA AnswerLoadInv ==
  ASSUME PageInv, NEW f \in flights, f.kind = "load", Page!Answer(f)
  PROVE  PageInv'
<1>1. f \in PageFlight /\ f.project \in Place /\ f.visit \in Nat /\ page.visit \in Nat
      /\ store.visit \in Nat /\ late \in BOOLEAN /\ lost \in BOOLEAN
  BY DEF PageInv, PageTypes, PageFlight, PageStore
<1>2. /\ store' = Page!Reset(f.project, f.visit)
      /\ page' = [page EXCEPT !.open = @ \/ f.visit = page.visit]
      /\ flights' = flights \ {f} /\ watchers' = watchers
      /\ late' = (late \/ f.visit < store.visit)
      /\ UNCHANGED <<favorites, jobs, attached, acts, crossed, lost>>
  BY DEF Page!Answer, Page!Following, Page!Watching, Page!Outlived, Page!server
<1>3. /\ store' \in PageStore /\ store'.project = f.project /\ store'.visit = f.visit
      /\ store'.shown = None /\ store'.known = None
      /\ store'.import = "idle" /\ store'.pending = FALSE
  BY <1>1, <1>2, ResetIsTyped
<1>4. /\ page' \in [route : Projects, visit : Nat, open : BOOLEAN]
      /\ page'.route = page.route /\ page'.visit = page.visit
      /\ page'.open <=> page.open \/ f.visit = page.visit
  BY <1>2 DEF PageInv, PageTypes
<1>5. PageTypes' /\ VisitsFit' /\ TasksFit'
  <2>1. late' \in BOOLEAN /\ lost' \in BOOLEAN
    BY <1>1, <1>2
  <2>2. PICK more \in SUBSET PageFlight : more = {}
    OBVIOUS
  <2>3. watchers' \in SUBSET PageWatcher /\ flights' = (flights \ {f}) \union more
        /\ \A g \in more : g.kind = "remove" /\ g.reply = "none" /\ g.visit = f.visit
    BY <1>2, <2>2 DEF PageInv, PageTypes
  <2> QED
    BY <1>2, <1>3, <1>4, <2>1, <2>3, AnsweredFits
<1>6. \A g \in flights' : g.visit # f.visit
  BY <1>2 DEF PageInv, VisitsFit
<1>7. ~late' => VisitIsShown' /\ ImportIsShown'
  <2> SUFFICES ASSUME ~late' PROVE VisitIsShown' /\ ImportIsShown'
    OBVIOUS
  <2>1. ~late /\ store.visit <= f.visit /\ f.visit <= page.visit
    <3>1. ~late /\ ~(f.visit < store.visit)
      BY <1>2
    <3>2. f.visit <= page.visit
      BY DEF PageInv, VisitsFit
    <3> QED
      BY <1>1, <3>1, <3>2
  <2>2. page'.open => f.visit = page.visit
    BY <1>1, <1>4, <2>1 DEF PageInv, VisitIsShown
  <2>3. f.visit = page.visit => f.project = page.route
    BY DEF PageInv, VisitsFit
  <2>4. VisitIsShown'
    BY <1>3, <1>4, <1>6, <2>2, <2>3 DEF VisitIsShown
  <2>5. \A w \in watchers : jobs[w.task].project = w.project
    BY <2>1 DEF PageInv, ImportIsShown
  <2>6. ImportIsShown'
    BY <1>2, <1>3, <2>5 DEF ImportIsShown
  <2> QED
    BY <2>4, <2>6
<1>8. ~late' /\ ~crossed' => OneByOne'
  BY <1>1, <1>2, <1>3, <1>6 DEF PageInv, OneByOne, Page!Favors
<1>9. ~late' /\ ~crossed' /\ ~lost' => FavoriteIsShown'
  BY <1>1, <1>2, <1>3, <1>6 DEF PageInv, FavoriteIsShown, Page!Favors
<1> QED
  BY <1>5, <1>7, <1>8, <1>9 DEF PageInv

(* The result is there. *)
LEMMA AnswerSearchInv ==
  ASSUME PageInv, NEW f \in flights, f.kind = "search", Page!Answer(f)
  PROVE  PageInv'
<1>1. f \in PageFlight /\ store \in PageStore /\ late \in BOOLEAN /\ lost \in BOOLEAN
      /\ page.open \in BOOLEAN /\ f.reply \notin {"none", "refused"}
  BY DEF PageInv, PageTypes, Page!Answer
<1> DEFINE r == [project |-> f.project, intent |-> f.intent,
                 favorite |-> f.reply = "yes" \/ store.known # None]
<1>2. /\ store' = [store EXCEPT !.status = "completed", !.shown = r]
      /\ page' = [page EXCEPT !.open = @ \/ FALSE]
      /\ flights' = flights \ {f} /\ watchers' = watchers
      /\ late' = (late \/ f.visit # store.visit)
      /\ UNCHANGED <<favorites, jobs, attached, acts, crossed, lost>>
  BY DEF Page!Answer, Page!Following, Page!Watching, Page!Outlived, Page!server, Page!Searched
<1>3. PICK s \in PageResult : /\ s = r
                              /\ s.project = f.project /\ s.intent = f.intent
                              /\ s.favorite <=> f.reply = "yes" \/ store.known # None
  <2> DEFINE b == f.reply = "yes" \/ store.known # None
  <2>1. b \in BOOLEAN /\ (b <=> f.reply = "yes" \/ store.known # None)
        /\ r = [project |-> f.project, intent |-> f.intent, favorite |-> b]
    OBVIOUS
  <2> HIDE DEF b, r
  <2>2. f.project \in Place /\ f.intent \in Nat
    BY <1>1 DEF PageFlight
  <2>3. r \in PageResult /\ r.project = f.project /\ r.intent = f.intent /\ (r.favorite <=> b)
    BY <2>1, <2>2 DEF PageResult
  <2> QED
    BY <2>1, <2>3
<1> HIDE DEF r
<1>4. /\ store' \in PageStore /\ store'.project = store.project /\ store'.visit = store.visit
      /\ store'.shown = s /\ store'.known = store.known /\ store'.searched = store.searched
      /\ store'.import = store.import /\ store'.pending = store.pending
      /\ store'.later = store.later /\ store'.token = store.token
  BY <1>1, <1>2, <1>3 DEF PageStore
<1>5. /\ page' \in [route : Projects, visit : Nat, open : BOOLEAN]
      /\ page'.route = page.route /\ page'.visit = page.visit /\ page'.open = page.open
  BY <1>1, <1>2 DEF PageInv, PageTypes
<1>6. PageTypes' /\ VisitsFit' /\ TasksFit'
  <2>1. late' \in BOOLEAN /\ lost' \in BOOLEAN
    BY <1>1, <1>2
  <2>2. PICK more \in SUBSET PageFlight : more = {}
    OBVIOUS
  <2>3. watchers' \in SUBSET PageWatcher /\ flights' = (flights \ {f}) \union more
        /\ \A g \in more : g.kind = "remove" /\ g.reply = "none" /\ g.visit = f.visit
    BY <1>2, <2>2 DEF PageInv, PageTypes
  <2>4. store'.pending => \E g \in flights' : Page!Favors(g)
    BY <1>2, <1>4 DEF PageInv, TasksFit, Page!Favors
  <2> QED
    BY <1>2, <1>4, <1>5, <2>1, <2>3, <2>4, AnsweredFits
<1>7. ~late' => ~late /\ f.visit = store.visit /\ f.project = store.project
  BY <1>1, <1>2 DEF PageInv, VisitIsShown
<1>8. ~late' => VisitIsShown' /\ ImportIsShown'
  BY <1>2, <1>4, <1>5, <1>7 DEF PageInv, VisitIsShown, ImportIsShown, Finished, Page!IsCurrent
<1>9. ~late' /\ ~crossed =>
        /\ \A g \in flights' : g.kind # "search" /\ ~Page!Favors(g)
        /\ f.intent = store.searched
  BY <1>2, <1>7 DEF PageInv, OneByOne
<1>10. ~late' /\ ~crossed => OneByOne'
  BY <1>3, <1>4, <1>7, <1>9 DEF OneByOne, Page!Favors
<1>11. ~late' /\ ~crossed /\ ~lost => FavoriteIsShown'
  <2> SUFFICES ASSUME ~late', ~crossed, ~lost PROVE FavoriteIsShown'
    OBVIOUS
  <2>1. \A g \in flights : ~Page!Favors(g)
    BY <1>2, <1>9 DEF Page!Favors
  <2>2. store.known # None => store.known = store.project /\ store.project \in favorites
    BY <1>7, <2>1 DEF PageInv, FavoriteIsShown, VisitIsShown
  <2>3. f.reply = "yes" <=> store.project \in favorites
    BY <1>1, <1>7 DEF PageInv, FavoriteIsShown
  <2>4. s.favorite <=> store.project \in favorites
    BY <1>3, <2>2, <2>3
  <2> QED
    BY <1>2, <1>4, <1>9, <2>2, <2>4 DEF FavoriteIsShown, Page!Favors
<1> QED
  BY <1>2, <1>6, <1>8, <1>10, <1>11 DEF PageInv

(* The change of a favorite is over: it was made, or it failed. *)
LEMMA FavoredInv ==
  ASSUME PageInv, NEW f \in flights, Page!Favors(f),
         store' \in PageStore, store'.pending = FALSE, flights' = flights \ {f},
         page'.route = page.route, page'.visit = page.visit, page'.open = page.open,
         page' \in [route : Projects, visit : Nat, open : BOOLEAN],
         late' = (late \/ f.visit # store.visit), lost' \in BOOLEAN, lost => lost',
         UNCHANGED <<watchers, favorites, jobs, attached, acts, crossed>>,
         store'.project = store.project, store'.visit = store.visit,
         store'.searched = store.searched, store'.import = store.import,
         store'.later = store.later, store'.token = store.token,
         ~late' /\ store'.known # None => store'.known = store.project,
         (store.shown = None) <=> (store'.shown = None),
         store.shown # None => /\ store'.shown.project = store.shown.project
                               /\ store'.shown.intent = store.shown.intent,
         ~late' /\ ~crossed /\ ~lost' /\ Changing(f) =>
           /\ store'.shown.favorite <=> store.project \in favorites
           /\ store'.known # None => store.project \in favorites
  PROVE  PageInv'
<1>1. PageTypes' /\ VisitsFit' /\ TasksFit'
  <2>1. late' \in BOOLEAN /\ watchers' \in SUBSET PageWatcher
    BY DEF PageInv, PageTypes
  <2>2. PICK more \in SUBSET PageFlight : more = {}
    OBVIOUS
  <2>3. flights' = (flights \ {f}) \union more
        /\ \A g \in more : g.kind = "remove" /\ g.reply = "none" /\ g.visit = f.visit
    BY <2>2
  <2> QED
    BY <2>1, <2>3, AnsweredFits
<1>2. ~late' => ~late /\ f.visit = store.visit
  BY DEF PageInv, PageTypes
<1>3. ~late' => VisitIsShown' /\ ImportIsShown'
  BY <1>2 DEF PageInv, VisitIsShown, ImportIsShown, Finished, Page!IsCurrent, Page!Favors
<1>4. ~late' /\ ~crossed => \A g \in flights' : g.kind # "search" /\ ~Page!Favors(g)
  BY <1>2 DEF PageInv, OneByOne
<1>5. ~late' /\ ~crossed => OneByOne'
  BY <1>2, <1>4 DEF PageInv, OneByOne, Page!Favors
<1>6. ~late' /\ ~crossed /\ ~lost' => FavoriteIsShown'
  <2> SUFFICES ASSUME ~late', ~crossed, ~lost' PROVE FavoriteIsShown'
    OBVIOUS
  <2>1. Changing(f)
    BY <1>2 DEF PageInv, FavoriteIsShown
  <2> QED
    BY <1>2, <1>4, <2>1 DEF FavoriteIsShown, Page!Favors
<1> QED
  BY <1>1, <1>3, <1>5, <1>6 DEF PageInv


LEMMA AnswerFavorInv ==
  ASSUME PageInv, NEW f \in flights, f.kind \in {"save", "remove"} \/ (f.kind = "list" /\ f.reply # "yes"),
         Page!Answer(f)
  PROVE  PageInv'
<1>1. /\ f \in PageFlight /\ store \in PageStore /\ page.open \in BOOLEAN /\ lost \in BOOLEAN
      /\ f.project \in Place /\ None \in Place
      /\ f.reply \notin {"none", "refused"} /\ Page!Favors(f)
  BY DEF PageInv, PageTypes, PageFlight, Place, Page!Answer, Page!Favors
<1>2. /\ page' = [page EXCEPT !.open = @ \/ FALSE]
      /\ flights' = flights \ {f} /\ watchers' = watchers
      /\ late' = (late \/ f.visit # store.visit)
      /\ UNCHANGED <<favorites, jobs, attached, acts, crossed, lost>>
  BY DEF Page!Answer, Page!Following, Page!Watching, Page!Outlived, Page!server
<1>3. /\ page' \in [route : Projects, visit : Nat, open : BOOLEAN]
      /\ page'.route = page.route /\ page'.visit = page.visit /\ page'.open = page.open
  BY <1>1, <1>2 DEF PageInv, PageTypes
<1>4. ~late' => f.project = store.project
  BY <1>1, <1>2 DEF PageInv, PageTypes, VisitIsShown, Page!Favors
<1>5. /\ f.kind \in {"save", "remove"} => f.reply = "yes"
      /\ f.kind = "list" => f.reply = "no"
  BY <1>1 DEF PageInv, TasksFit, ReplyFits, PageFlight
<1>6. CASE f.kind \in {"save", "remove"}
  <2> DEFINE is    == f.kind = "save"
             at    == IF is THEN f.project ELSE None
             shown == IF store.shown = None THEN None ELSE [store.shown EXCEPT !.favorite = is]
  <2>1. store' = [[store EXCEPT !.shown = shown] EXCEPT !.known = at, !.pending = FALSE]
    <3>1. CASE f.kind = "save"
      BY <1>1, <3>1 DEF Page!Answer, Page!Saved, Page!WithFavorite, PageStore
    <3>2. CASE f.kind = "remove"
      BY <1>1, <3>2 DEF Page!Answer, Page!Removed, Page!WithFavorite, PageStore
    <3> QED
      BY <1>6, <3>1, <3>2
  <2>2. is \in BOOLEAN /\ at \in Place /\ (is => at = f.project) /\ (~is => at = None)
        /\ (is <=> f.kind = "save")
    BY <1>1
  <2> HIDE DEF is, at
  <2>3. /\ shown \in PageResult \union {None} /\ ((store.shown = None) <=> (shown = None))
        /\ store.shown # None => /\ shown.project = store.shown.project
                                 /\ shown.intent = store.shown.intent
                                 /\ shown.favorite = is
    <3>1. store.shown \in PageResult \union {None} /\ None \notin PageResult
      <4>1. store.shown \in PageResult \union {None}
        BY <1>1 DEF PageStore
      <4> QED
        BY <4>1, NoneIsApart
    <3> QED
      BY <2>2, <3>1 DEF PageResult
  <2> HIDE DEF shown
  <2>4. /\ store' \in PageStore /\ store'.pending = FALSE /\ store'.known = at
        /\ store'.shown = shown
        /\ store'.project = store.project /\ store'.visit = store.visit
        /\ store'.searched = store.searched /\ store'.import = store.import
        /\ store'.later = store.later /\ store'.token = store.token
    BY <1>1, <2>1, <2>2, <2>3 DEF PageStore
  <2>5. ~late' /\ store'.known # None => store'.known = store.project
    BY <1>4, <2>2, <2>4
  <2>6. ~late' /\ ~crossed /\ ~lost' /\ Changing(f) =>
           /\ store'.shown.favorite <=> store.project \in favorites
           /\ store'.known # None => store.project \in favorites
    BY <1>5, <1>6, <2>2, <2>3, <2>4 DEF Changing
  <2> QED
    BY <1>1, <1>2, <1>3, <2>3, <2>4, <2>5, <2>6, FavoredInv
<1>7. CASE f.kind = "list"
  <2>1. store' = [store EXCEPT !.pending = FALSE]
    BY <1>5, <1>7 DEF Page!Answer, Page!Listed
  <2>2. /\ store' \in PageStore /\ store'.pending = FALSE /\ store'.known = store.known
        /\ store'.shown = store.shown
        /\ store'.project = store.project /\ store'.visit = store.visit
        /\ store'.searched = store.searched /\ store'.import = store.import
        /\ store'.later = store.later /\ store'.token = store.token
    BY <1>1, <2>1 DEF PageStore
  <2>3. ~late' /\ store'.known # None => store'.known = store.project
    BY <1>2, <2>2 DEF PageInv, VisitIsShown
  <2>4. ~Changing(f)
    BY <1>5, <1>7 DEF Changing
  <2> QED
    BY <1>1, <1>2, <1>3, <2>2, <2>3, <2>4, FavoredInv
<1> QED
  BY <1>5, <1>6, <1>7

(* The favorite that was looked for is found, and its removal asked for. *)
LEMMA AnswerListInv ==
  ASSUME PageInv, NEW f \in flights, f.kind = "list", f.reply = "yes", Page!Answer(f)
  PROVE  PageInv'
<1>1. /\ f \in PageFlight /\ store \in PageStore /\ page.open \in BOOLEAN /\ lost \in BOOLEAN
      /\ f.project \in Place /\ None \in Place /\ store.project \in Place /\ late \in BOOLEAN
  BY DEF PageInv, PageTypes, PageFlight, PageStore, Place
<1> DEFINE g     == [f EXCEPT !.kind = "remove", !.project = store.project, !.of = f.project,
                              !.reply = "none"]
           shown == IF store.shown = None THEN None ELSE [store.shown EXCEPT !.favorite = TRUE]
<1>2. /\ page' = [page EXCEPT !.open = @ \/ FALSE]
      /\ flights' = (flights \ {f}) \union {g} /\ watchers' = watchers
      /\ store' = [[store EXCEPT !.shown = shown] EXCEPT !.known = f.project]
      /\ late' = (late \/ f.visit # store.visit)
      /\ UNCHANGED <<favorites, jobs, attached, acts, crossed, lost>>
  BY <1>1 DEF Page!Answer, Page!Following, Page!Watching, Page!Outlived, Page!server, Page!Listed,
     Page!WithFavorite
<1>3. PICK h \in PageFlight :
        /\ h = g /\ h.kind = "remove" /\ h.project = store.project /\ h.of = f.project
        /\ h.reply = "none" /\ h.visit = f.visit
  <2>1. g \in PageFlight
    BY <1>1 DEF PageFlight, Page!Kinds
  <2>2. /\ g.kind = "remove" /\ g.project = store.project /\ g.of = f.project
        /\ g.reply = "none" /\ g.visit = f.visit
    BY <1>1 DEF PageFlight
  <2> HIDE DEF g
  <2> QED
    BY <2>1, <2>2
<1> HIDE DEF g
<1>4. /\ page' \in [route : Projects, visit : Nat, open : BOOLEAN]
      /\ page'.route = page.route /\ page'.visit = page.visit /\ page'.open = page.open
  BY <1>1, <1>2 DEF PageInv, PageTypes
<1>5. /\ shown \in PageResult \union {None} /\ ((store.shown = None) <=> (shown = None))
      /\ store.shown # None => /\ shown.project = store.shown.project
                               /\ shown.intent = store.shown.intent
                               /\ shown.favorite = TRUE
  <2>1. store.shown \in PageResult \union {None}
    BY <1>1 DEF PageStore
  <2>2. None \notin PageResult
    BY NoneIsApart
  <2> QED
    BY <2>1, <2>2 DEF PageResult
<1> HIDE DEF shown
<1>6. /\ store' \in PageStore /\ store'.pending = store.pending /\ store'.known = f.project
      /\ store'.shown = shown
      /\ store'.project = store.project /\ store'.visit = store.visit
      /\ store'.searched = store.searched /\ store'.import = store.import
      /\ store'.later = store.later /\ store'.token = store.token
  BY <1>1, <1>2, <1>5 DEF PageStore
<1>7. /\ flights' = (flights \ {f}) \union {h} /\ Page!Favors(h) /\ Page!Favors(f)
  BY <1>2, <1>3 DEF Page!Favors
<1>8. PageTypes' /\ VisitsFit' /\ TasksFit'
  <2>1. late' \in BOOLEAN /\ lost' \in BOOLEAN /\ watchers' \in SUBSET PageWatcher
    BY <1>1, <1>2 DEF PageInv, PageTypes
  <2>2. PICK more \in SUBSET PageFlight : more = {h}
    OBVIOUS
  <2>3. flights' = (flights \ {f}) \union more
        /\ \A e \in more : e.kind = "remove" /\ e.reply = "none" /\ e.visit = f.visit
    BY <1>3, <1>7, <2>2
  <2>4. \E e \in flights' : Page!Favors(e)
    BY <1>7
  <2> QED
    BY <1>2, <1>4, <1>6, <2>1, <2>3, <2>4, AnsweredFits
<1>9. ~late' => ~late /\ f.visit = store.visit /\ f.project = store.project
  BY <1>1, <1>2 DEF PageInv, VisitIsShown
<1>10. ~late' => VisitIsShown' /\ ImportIsShown'
  BY <1>2, <1>3, <1>4, <1>6, <1>7, <1>9
     DEF PageInv, VisitIsShown, ImportIsShown, Finished, Page!IsCurrent
<1>11. ~late' /\ ~crossed =>
         /\ \A e \in flights' : e.kind # "search" /\ (Page!Favors(e) => e = h)
         /\ store.shown # None => store.pending
  BY <1>3, <1>7, <1>9 DEF PageInv, OneByOne
<1>12. ~late' /\ ~crossed => OneByOne'
  <2> SUFFICES ASSUME ~late', ~crossed PROVE OneByOne'
    OBVIOUS
  <2>1. store.shown # None => /\ store.shown.project = store.project
                              /\ store.shown.intent = store.searched
    BY <1>9 DEF PageInv, OneByOne
  <2> QED
    BY <1>5, <1>6, <1>11, <2>1 DEF OneByOne, Page!Favors
<1>13. ~late' /\ ~crossed /\ ~lost => FavoriteIsShown'
  <2> SUFFICES ASSUME ~late', ~crossed, ~lost PROVE FavoriteIsShown'
    OBVIOUS
  <2>1. Changing(f)
    BY <1>7, <1>9 DEF PageInv, FavoriteIsShown
  <2>2. Changing(h)'
    BY <1>2, <1>3, <1>5, <1>6, <1>9, <2>1 DEF Changing
  <2> QED
    BY <1>7, <1>11, <2>2 DEF FavoriteIsShown, Page!Favors
<1> QED
  BY <1>2, <1>8, <1>10, <1>12, <1>13 DEF PageInv


(* The paper is imported, or its import is a task that is watched. *)
LEMMA AnswerImportInv ==
  ASSUME PageInv, NEW f \in flights, f.kind = "import", Page!Answer(f)
  PROVE  PageInv'
<1>1. /\ f \in PageFlight /\ store \in PageStore /\ page.open \in BOOLEAN /\ lost \in BOOLEAN
      /\ late \in BOOLEAN /\ f.reply \in {"imported", "task"} /\ store.token \in Nat
  <2>1. f \in PageFlight /\ f.reply \notin {"none", "refused"}
    BY DEF PageInv, PageTypes, Page!Answer
  <2>2. f.reply \in {"imported", "task"}
    BY <2>1 DEF PageInv, TasksFit, ReplyFits, PageFlight
  <2> QED
    BY <2>1, <2>2 DEF PageInv, PageTypes, PageStore
<1>2. /\ page' = [page EXCEPT !.open = @ \/ FALSE]
      /\ flights' = flights \ {f} /\ watchers' = watchers \union Page!Watching(f)
      /\ late' = (late \/ f.visit # store.visit) /\ store' = Page!Imported(f)
      /\ UNCHANGED <<favorites, jobs, attached, acts, crossed, lost>>
  BY DEF Page!Answer, Page!Following, Page!Outlived, Page!server
<1>3. /\ page' \in [route : Projects, visit : Nat, open : BOOLEAN]
      /\ page'.route = page.route /\ page'.visit = page.visit /\ page'.open = page.open
  BY <1>1, <1>2 DEF PageInv, PageTypes
<1>4. ~late' => ~late /\ f.visit = store.visit /\ f.project = store.project
  BY <1>1, <1>2 DEF PageInv, VisitIsShown
<1>5. ASSUME store' \in PageStore, store'.pending = store.pending,
             store'.project = store.project, store'.visit = store.visit,
             store'.searched = store.searched, store'.shown = store.shown,
             store'.known = store.known, watchers' \in SUBSET PageWatcher,
             \A w \in watchers' : \/ w \in watchers
                                  \/ /\ w.task \in DOMAIN jobs /\ w.attempt < MaxPolls
                                     /\ ~late' => jobs[w.task].project = w.project,
             ~late' => /\ store'.import = "imported" => Finished(store.project)
                       /\ store'.import = "importing" => \E w \in watchers' : Page!IsCurrent(w)'
      PROVE  PageInv'
  <2>1. PageTypes' /\ VisitsFit' /\ TasksFit'
    <3>1. late' \in BOOLEAN /\ lost' \in BOOLEAN
      BY <1>1, <1>2
    <3>2. PICK more \in SUBSET PageFlight : more = {}
      OBVIOUS
    <3>3. flights' = (flights \ {f}) \union more
          /\ \A g \in more : g.kind = "remove" /\ g.reply = "none" /\ g.visit = f.visit
      BY <1>2, <3>2
    <3>4. store'.pending => \E g \in flights' : Page!Favors(g)
      BY <1>2, <1>5 DEF PageInv, TasksFit, Page!Favors
    <3> QED
      BY <1>2, <1>3, <1>5, <3>1, <3>3, <3>4, AnsweredFits
  <2>2. ~late' => VisitIsShown' /\ ImportIsShown'
    <3>1. ~late' => VisitIsShown'
      BY <1>2, <1>3, <1>4, <1>5 DEF PageInv, VisitIsShown
    <3>2. Finished(store.project) => Finished(store.project)'
      BY <1>2, <1>5 DEF Finished
    <3>3. ~late' => \A w \in watchers' : jobs'[w.task].project = w.project
      BY <1>2, <1>4, <1>5 DEF PageInv, ImportIsShown
    <3> QED
      BY <1>5, <3>1, <3>2, <3>3 DEF ImportIsShown
  <2>3. ~late' /\ ~crossed => OneByOne'
    BY <1>2, <1>4, <1>5 DEF PageInv, OneByOne, Page!Favors
  <2>4. ~late' /\ ~crossed /\ ~lost => FavoriteIsShown'
    BY <1>2, <1>4, <1>5 DEF PageInv, FavoriteIsShown, Page!Favors, Changing
  <2> QED
    BY <1>2, <2>1, <2>2, <2>3, <2>4 DEF PageInv
<1>6. CASE f.reply = "imported"
  <2>1. store' = [store EXCEPT !.import = "imported"] /\ watchers' = watchers
    BY <1>2, <1>6 DEF Page!Imported, Page!Watching
  <2>2. /\ store' \in PageStore /\ store'.pending = store.pending
        /\ store'.project = store.project /\ store'.visit = store.visit
        /\ store'.searched = store.searched /\ store'.shown = store.shown
        /\ store'.known = store.known /\ store'.import = "imported"
    BY <1>1, <2>1 DEF PageStore
  <2>3. ~late' => Finished(store.project)
    BY <1>4, <1>6 DEF PageInv, TasksFit, ReplyFits, Finished
  <2>4. watchers' \in SUBSET PageWatcher
    BY <2>1 DEF PageInv, PageTypes
  <2> QED
    BY <1>5, <2>1, <2>2, <2>3, <2>4
<1>7. CASE f.reply = "task"
  <2> DEFINE n == store.token + 1
             v == [visit |-> store.visit, project |-> store.project, task |-> f.task,
                   token |-> n, attempt |-> 0, asked |-> TRUE]
  <2>1. n \in Nat /\ store' = [store EXCEPT !.import = "importing", !.token = n]
        /\ watchers' = watchers \union {v}
    BY <1>1, <1>2, <1>7 DEF Page!Imported, Page!Watching
  <2> HIDE DEF n
  <2>2. PICK w \in PageWatcher : /\ w = v /\ w.project = store.project /\ w.task = f.task
                                 /\ w.token = n /\ w.attempt = 0
    <3>1. store.visit \in Nat /\ store.project \in Place /\ f.task \in Nat
      BY <1>1 DEF PageStore, PageFlight
    <3>2. v \in PageWatcher
      BY <2>1, <3>1 DEF PageWatcher
    <3> QED
      BY <3>2
  <2> HIDE DEF v
  <2>3. /\ store' \in PageStore /\ store'.pending = store.pending
        /\ store'.project = store.project /\ store'.visit = store.visit
        /\ store'.searched = store.searched /\ store'.shown = store.shown
        /\ store'.known = store.known /\ store'.import = "importing" /\ store'.token = n
    BY <1>1, <2>1 DEF PageStore
  <2>4. watchers' = watchers \union {w} /\ watchers' \in SUBSET PageWatcher
    BY <2>1, <2>2 DEF PageInv, PageTypes
  <2>5. f.task \in DOMAIN jobs /\ jobs[f.task].project = f.project
    BY <1>7 DEF PageInv, TasksFit, ReplyFits
  <2>6. w.task \in DOMAIN jobs /\ w.attempt < MaxPolls
        /\ (~late' => jobs[w.task].project = w.project)
    BY <1>4, <2>2, <2>5, PageNumbers
  <2>7. Page!IsCurrent(w)'
    BY <2>2, <2>3 DEF Page!IsCurrent
  <2> QED
    BY <1>5, <2>3, <2>4, <2>6, <2>7
<1> QED
  BY <1>1, <1>6, <1>7

(* No answer comes. *)
LEMMA FailInv ==
  ASSUME PageInv, NEW f \in flights, Page!Fail(f)
  PROVE  PageInv'
<1>1. /\ f \in PageFlight /\ store \in PageStore /\ late \in BOOLEAN /\ lost \in BOOLEAN
      /\ flights' = flights \ {f} /\ store' = Page!Failed(f)
      /\ late' = (late \/ (f.kind # "load" /\ Page!Outlived(f)))
      /\ lost' = (lost \/ (f.reply = "yes" /\ Page!Favors(f)))
      /\ UNCHANGED <<page, watchers, favorites, jobs, attached, acts, crossed>>
  BY DEF PageInv, PageTypes, Page!Fail, Page!server
<1>2. CASE Page!Favors(f)
  <2>1. store' = [store EXCEPT !.pending = FALSE] /\ late' = (late \/ f.visit # store.visit)
    BY <1>1, <1>2 DEF Page!Failed, Page!Favors, Page!Outlived
  <2>2. /\ store' \in PageStore /\ store'.pending = FALSE /\ store'.known = store.known
        /\ store'.shown = store.shown
        /\ store'.project = store.project /\ store'.visit = store.visit
        /\ store'.searched = store.searched /\ store'.import = store.import
        /\ store'.later = store.later /\ store'.token = store.token
    BY <1>1, <2>1 DEF PageStore
  <2>3. ~late' /\ store'.known # None => store'.known = store.project
    BY <2>1, <2>2 DEF PageInv, VisitIsShown
  <2>4. ~late' /\ ~crossed /\ ~lost' /\ Changing(f) =>
           /\ store'.shown.favorite <=> store.project \in favorites
           /\ store'.known # None => store.project \in favorites
    BY <1>1, <1>2, <2>2 DEF Changing, Page!Favors
  <2>5. page \in [route : Projects, visit : Nat, open : BOOLEAN] /\ lost' \in BOOLEAN
    BY <1>1 DEF PageInv, PageTypes
  <2> QED
    BY <1>1, <1>2, <2>1, <2>2, <2>3, <2>4, <2>5, FavoredInv
<1>3. CASE ~Page!Favors(f)
  <2>1. /\ store' \in PageStore /\ store'.pending = store.pending /\ store'.known = store.known
        /\ store'.shown = store.shown
        /\ store'.project = store.project /\ store'.visit = store.visit
        /\ store'.searched = store.searched
        /\ store'.later = store.later /\ store'.token = store.token
        /\ f.kind # "import" => store'.import = store.import
        /\ f.kind = "import" => store'.import = "failed"
    BY <1>1, <1>3 DEF Page!Failed, Page!Favors, PageStore, PageFlight, Page!Kinds
  <2>2. late' \in BOOLEAN /\ (late => late') /\ (lost' <=> lost) /\ lost' \in BOOLEAN
    BY <1>1, <1>3
  <2>3. PageTypes' /\ VisitsFit' /\ TasksFit'
    <3>1. PICK more \in SUBSET PageFlight : more = {}
      OBVIOUS
    <3>2. flights' = (flights \ {f}) \union more
          /\ \A g \in more : g.kind = "remove" /\ g.reply = "none" /\ g.visit = f.visit
      BY <1>1, <3>1
    <3>3. store'.pending => \E g \in flights' : Page!Favors(g)
      BY <1>1, <1>3, <2>1 DEF PageInv, TasksFit, Page!Favors
    <3>4. page' \in [route : Projects, visit : Nat, open : BOOLEAN] /\ watchers' \in SUBSET PageWatcher
      BY <1>1 DEF PageInv, PageTypes
    <3> QED
      BY <1>1, <2>1, <2>2, <3>2, <3>3, <3>4, AnsweredFits
  <2>4. ~late' => VisitIsShown' /\ ImportIsShown'
    BY <1>1, <2>1, <2>2 DEF PageInv, VisitIsShown, ImportIsShown, Finished, Page!IsCurrent
  <2>5. ~late' /\ ~crossed => OneByOne'
    BY <1>1, <1>3, <2>1, <2>2 DEF PageInv, OneByOne, Page!Favors
  <2>6. ~late' /\ ~crossed /\ ~lost => FavoriteIsShown'
    BY <1>1, <1>3, <2>1, <2>2 DEF PageInv, FavoriteIsShown, Page!Favors, Changing
  <2> QED
    BY <1>1, <2>2, <2>3, <2>4, <2>5, <2>6 DEF PageInv
<1> QED
  BY <1>2, <1>3

LEMMA PageStepInv ==
  ASSUME PageInv, Page!PageNext
  PROVE  PageInv'
<1>1. CASE \E p \in Projects : Page!Open(p)
  BY <1>1, OpenInv
<1>2. CASE Page!Describe \/ Page!MarkClarifying
  BY <1>2, DescribeInv
<1>3. CASE Page!SubmitSearch
  BY <1>3, SubmitInv
<1>4. CASE Page!ToggleFavorite
  BY <1>4, ToggleInv
<1>5. CASE Page!ImportPaper
  BY <1>5, ImportInv
<1>6. ASSUME NEW f \in flights, Page!Serve(f) PROVE PageInv'
  BY <1>6, ServeFavoritesInv, ServeImportInv DEF Page!Serve
<1>7. ASSUME NEW f \in flights, Page!Answer(f) PROVE PageInv'
  <2>1. f.kind \in Page!Kinds
    BY DEF PageInv, PageTypes, PageFlight
  <2> QED
    BY <1>7, <2>1, AnswerLoadInv, AnswerSearchInv, AnswerFavorInv, AnswerListInv, AnswerImportInv
       DEF Page!Kinds
<1>8. ASSUME NEW f \in flights, Page!Fail(f) PROVE PageInv'
  BY <1>8, FailInv
<1>9. ASSUME NEW j \in DOMAIN jobs, Page!Process(j) \/ Page!Attach(j) PROVE PageInv'
  BY <1>9, ProcessInv
<1>10. ASSUME NEW w \in watchers, Page!Poll(w) \/ Page!Told(w) PROVE PageInv'
  BY <1>10, PollInv, ToldInv
<1> QED
  BY <1>1, <1>2, <1>3, <1>4, <1>5, <1>6, <1>7, <1>8, <1>9, <1>10 DEF Page!PageNext

=============================================================================
