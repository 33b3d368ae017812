--------------------------- MODULE PaperProfiles ---------------------------
(***************************************************************************)
(* The analysis card of a paper in a project (ProjectPaper.analysis_card): *)
(* the reading card the user and the agents write, and inside it the       *)
(* generated profile with its life cycle                                   *)
(* (backend/app/research/context/paper_profile.py).                        *)
(*                                                                         *)
(* The column is one JSON value.  Every writer reads it into its session,  *)
(* keeps it there (expire_on_commit=False) and commits a whole new value   *)
(* later, with whatever it had read in the parts it does not care about.   *)
(* Reading the paper, its sections and the card is one step, every commit  *)
(* and every enqueue another.                                              *)
(***************************************************************************)
EXTENDS Naturals, FiniteSets

CONSTANTS
  Users,            \* API requests in progress at the same time
  Worker,           \* the worker process
  MaxRegenerations, \* le=100 of PaperProfile.retry_count
  CardFaults,       \* "enqueue" and "generate" may fail
  MaxParses,        \* bound: how often the paper is parsed
  MaxTouches,       \* bound: other changes of its row
  MaxSaves,         \* bound: saved reading cards
  MaxRequests,      \* bound: requests about the profile
  MaxCardDeaths     \* bound: deaths of the worker

(* What the constants have to satisfy; CardInit may have parsed the paper. *)
CardAssumption ==
  /\ Worker \notin Users
  /\ CardFaults \subseteq {"enqueue", "generate"}
  /\ MaxRegenerations \in Nat /\ MaxParses \in Nat \ {0} /\ MaxTouches \in Nat
  /\ MaxSaves \in Nat /\ MaxRequests \in Nat
  /\ MaxCardDeaths \in Nat

Sessions == Users \union {Worker}

(* What paper_source_fingerprint hashes: the parsed content and updated_at.*)
Source  == [content : 0..MaxParses, touched : 0..MaxTouches]
Profile == [status : {"none", "pending", "generating", "ready", "failed", "stale"},
            source : Source, retries : 0..MaxRegenerations]
Card    == [text : 0..MaxSaves, profile : Profile]
Session == [pc : {"idle", "pend", "enqueue", "unqueued", "outdate", "save",
                  "schedule", "moved", "begin", "generate", "finish"},
            card : Card, job : {"none", "parse", "profile"}, expected : Source]

VARIABLES
  paper,     \* the paper as it is now: its content and its updated_at
  card,      \* the column
  session,   \* what each session does, has read and will write
  jobs,      \* how many jobs for a profile of a source wait
  parses,    \* how many processing jobs wait to be run again
  saves, asked, cardDeaths,
  spoilt     \* history: a saved reading card put back an older profile, or the
             \* worker died between the commit of a profile and its enqueue

cardVars == <<paper, card, session, jobs, parses, saves, asked, cardDeaths, spoilt>>

Unparsed  == [content |-> 0, touched |-> 0]
NoProfile == [status |-> "none", source |-> Unparsed, retries |-> 0]
NoCard    == [text |-> 0, profile |-> NoProfile]
NoSession == [pc |-> "idle", card |-> NoCard, job |-> "none",
              expected |-> Unparsed]

CardInit ==
  /\ paper \in {[content |-> n, touched |-> 0] : n \in 0..1}
  /\ card = NoCard
  /\ session = [s \in Sessions |-> NoSession]
  /\ jobs = [source \in Source |-> 0] /\ parses = 0
  /\ saves = 0 /\ asked = 0 /\ cardDeaths = 0 /\ spoilt = FALSE

In(s, place)   == session[s].pc = place
Goto(s, place) == session' = [session EXCEPT ![s].pc = place]

(* A commit of the session's copy, which writes the column as a whole. *)
Commit(s, new, place) ==
  /\ card' = new
  /\ session' = [session EXCEPT ![s].card = new, ![s].pc = place]

WithStatus(c, status) == [c EXCEPT !.profile.status = status]

Wait(source) == jobs' = [jobs EXCEPT ![source] = @ + 1]

(* A session that is done; the worker acknowledges its job. *)
Done(s) == session' = [session EXCEPT ![s] = NoSession]

-----------------------------------------------------------------------------
(* request_generation, on what session s has read: nothing to do for a     *)
(* paper that is not parsed, for a profile that is being made from this    *)
(* source, for one that is ready; a retry count above its limit raises.    *)
UnderWay(c, source) == c.profile.status \in {"pending", "generating"}
                         /\ c.profile.source = source
Retries(c, force) ==
  c.profile.retries +
    (IF c.profile.status # "none" /\ (force \/ c.profile.status \in {"failed", "stale"})
     THEN 1 ELSE 0)

Wanted(c, source, force) ==
  /\ source.content > 0
  /\ ~UnderWay(c, source)
  /\ force \/ c.profile.status # "ready" \/ c.profile.source # source
  /\ Retries(c, force) <= MaxRegenerations

Decide(s, c, source, force) ==
  IF Wanted(c, source, force)
  THEN session' = [session EXCEPT ![s].pc = "pend",
         ![s].card = [c EXCEPT !.profile = [status |-> "pending", source |-> source,
                                            retries |-> Retries(c, force)]]]
  ELSE Done(s)

(* Regeneration (force), or the paper is added to the project. *)
Request(u, force) ==
  /\ In(u, "idle") /\ asked < MaxRequests
  /\ asked' = asked + 1
  /\ Wanted(card, paper, force)
  /\ Decide(u, card, paper, force)
  /\ UNCHANGED <<paper, card, jobs, parses, saves, cardDeaths, spoilt>>

Pend(s) ==
  /\ In(s, "pend")
  /\ Commit(s, session[s].card, "enqueue")
  /\ UNCHANGED <<paper, jobs, parses, saves, asked, cardDeaths, spoilt>>

(* Faulty variant: a failed enqueue is not written down. *)
EnqueueSilently(s) ==
  /\ In(s, "enqueue")
  /\ Done(s)
  /\ \/ Wait(session[s].card.profile.source)
     \/ "enqueue" \in CardFaults /\ UNCHANGED jobs
  /\ UNCHANGED <<paper, card, parses, saves, asked, cardDeaths, spoilt>>

Enqueue(s) ==
  /\ In(s, "enqueue")
  /\ \/ Wait(session[s].card.profile.source) /\ Done(s)
     \/ "enqueue" \in CardFaults /\ Goto(s, "unqueued") /\ UNCHANGED jobs
  /\ UNCHANGED <<paper, card, parses, saves, asked, cardDeaths, spoilt>>

Unqueued(s) ==
  /\ In(s, "unqueued")
  /\ card' = WithStatus(session[s].card, "failed")
  /\ Done(s)
  /\ UNCHANGED <<paper, jobs, parses, saves, asked, cardDeaths, spoilt>>

(* get_profile: a ready profile of another source is marked. *)
View(u) ==
  /\ In(u, "idle") /\ asked < MaxRequests
  /\ asked' = asked + 1
  /\ card.profile.status = "ready" /\ card.profile.source # paper
  /\ session' = [session EXCEPT ![u] = [@ EXCEPT !.pc = "outdate", !.card = card]]
  /\ UNCHANGED <<paper, card, jobs, parses, saves, cardDeaths, spoilt>>

Outdate(u) ==
  /\ In(u, "outdate")
  /\ card' = WithStatus(session[u].card, "stale")
  /\ Done(u)
  /\ UNCHANGED <<paper, jobs, parses, saves, asked, cardDeaths, spoilt>>

-----------------------------------------------------------------------------
(* update_project_paper_card and save_paper_card (Users), read_paper       *)
(* (Worker): the reading card is replaced, the profile is kept as read.    *)
Edit(s) ==
  /\ In(s, "idle") /\ saves < MaxSaves
  /\ saves' = saves + 1
  /\ session' = [session EXCEPT ![s] = [@ EXCEPT !.pc = "save", !.card = card]]
  /\ UNCHANGED <<paper, card, jobs, parses, asked, cardDeaths, spoilt>>

Save(s) ==
  /\ In(s, "save")
  /\ card' = [session[s].card EXCEPT !.text = saves]
  /\ spoilt' = (spoilt \/ session[s].card.profile # card.profile)
  /\ Done(s)
  /\ UNCHANGED <<paper, jobs, parses, saves, asked, cardDeaths>>

(* update_reading_progress and the media stage: updated_at is set. *)
Touch ==
  /\ paper.content > 0 /\ paper.touched < MaxTouches
  /\ paper' = [paper EXCEPT !.touched = @ + 1]
  /\ UNCHANGED <<card, session, jobs, parses, saves, asked, cardDeaths, spoilt>>

-----------------------------------------------------------------------------
(* handle_paper_process: after the text of the paper was stored, a profile *)
(* is forced.                                                              *)
Parse ==
  /\ In(Worker, "idle") /\ paper.content < MaxParses
  /\ paper' = [paper EXCEPT !.content = @ + 1]
  /\ session' = [session EXCEPT ![Worker].pc = "schedule", ![Worker].job = "parse"]
  /\ UNCHANGED <<card, jobs, parses, saves, asked, cardDeaths, spoilt>>

TakeParse ==
  /\ In(Worker, "idle")
  /\ parses > 0 /\ parses' = parses - 1
  /\ session' = [session EXCEPT ![Worker].pc = "schedule", ![Worker].job = "parse"]
  /\ UNCHANGED <<paper, card, jobs, saves, asked, cardDeaths, spoilt>>

Schedule ==
  /\ In(Worker, "schedule")
  /\ Decide(Worker, card, paper, TRUE)
  /\ UNCHANGED <<paper, card, jobs, parses, saves, asked, cardDeaths, spoilt>>

(* run_generation: a job for another source turns into a new request. *)
TakeProfile ==
  /\ In(Worker, "idle")
  /\ \E source \in Source :
       /\ jobs[source] > 0
       /\ jobs' = [jobs EXCEPT ![source] = @ - 1]
       /\ session' = [session EXCEPT ![Worker] =
            [pc |-> IF source = paper THEN "begin" ELSE "moved",
             card |-> IF source = paper /\ card.profile.status # "none" THEN card
                      ELSE [card EXCEPT !.profile.source = paper],
             job |-> "profile", expected |-> source]]
  /\ UNCHANGED <<paper, card, parses, saves, asked, cardDeaths, spoilt>>

Moved ==
  /\ In(Worker, "moved")
  /\ card' = WithStatus(session[Worker].card, "stale")
  /\ Decide(Worker, card', card'.profile.source, TRUE)
  /\ UNCHANGED <<paper, jobs, parses, saves, asked, cardDeaths, spoilt>>

Begin ==
  /\ In(Worker, "begin")
  /\ Commit(Worker, WithStatus(session[Worker].card, "generating"), "generate")
  /\ UNCHANGED <<paper, jobs, parses, saves, asked, cardDeaths, spoilt>>

(* The model's answer, or its failure, which is stored as well. *)
Generate ==
  /\ In(Worker, "generate")
  /\ \/ session' = [session EXCEPT ![Worker].pc = "finish",
            ![Worker].card = WithStatus([@ EXCEPT !.profile.source = session[Worker].expected],
                                        "ready")]
     \/ /\ "generate" \in CardFaults
        /\ session' = [session EXCEPT ![Worker].pc = "finish",
                         ![Worker].card = WithStatus(@, "failed")]
  /\ UNCHANGED <<paper, card, jobs, parses, saves, asked, cardDeaths, spoilt>>

Finish ==
  /\ In(Worker, "finish")
  /\ card' = session[Worker].card
  /\ Done(Worker)
  /\ UNCHANGED <<paper, jobs, parses, saves, asked, cardDeaths, spoilt>>

(* Faulty variant: a job in hand is lost. *)
DieForgetting ==
  /\ ~In(Worker, "idle") /\ cardDeaths < MaxCardDeaths
  /\ cardDeaths' = cardDeaths + 1
  /\ Done(Worker)
  /\ UNCHANGED <<paper, card, jobs, parses, saves, asked, spoilt>>

(* The job in hand is given back at the next start. *)
Die ==
  /\ ~In(Worker, "idle") /\ cardDeaths < MaxCardDeaths
  /\ cardDeaths' = cardDeaths + 1
  /\ Done(Worker)
  /\ IF session[Worker].job = "profile" THEN Wait(session[Worker].expected)
     ELSE UNCHANGED jobs
  /\ parses' = IF session[Worker].job = "parse" THEN parses + 1 ELSE parses
  /\ spoilt' = (spoilt \/ (session[Worker].job = "parse" /\
                             session[Worker].pc \in {"enqueue", "unqueued"}))
  /\ UNCHANGED <<paper, card, saves, asked>>

-----------------------------------------------------------------------------
Continue(s) == Pend(s) \/ Enqueue(s) \/ Unqueued(s) \/ Save(s)

UserStep(u) == Continue(u) \/ Outdate(u)

WorkerStep == Continue(Worker) \/ TakeParse \/ Schedule \/ TakeProfile \/ Moved
                \/ Begin \/ Generate \/ Finish

Arrive(u) == (\E force \in BOOLEAN : Request(u, force)) \/ View(u)

CardNext ==
  \/ WorkerStep \/ Parse \/ Touch \/ Die
  \/ \E u \in Users : Arrive(u) \/ UserStep(u)
  \/ \E s \in Sessions : Edit(s)

-----------------------------------------------------------------------------
(* Every variable has its type. *)
CardTypeOK ==
  /\ paper \in Source /\ card \in Card
  /\ session \in [Sessions -> Session] /\ jobs \in [Source -> Nat]
  /\ parses \in Nat
  /\ saves \in 0..MaxSaves /\ cardDeaths \in 0..MaxCardDeaths
  /\ asked \in 0..MaxRequests /\ spoilt \in BOOLEAN

InTheMaking == card.profile.status \in {"pending", "generating"}

(* A profile that is pending or generating refuses every new request for   *)
(* the same source, forced ones too, so somebody has to bring it about: a  *)
(* job waits or is in hand, or a request is about to enqueue it.  There are*)
(* two ways to lose it for ever: a saved reading card that puts an older   *)
(* profile back, and a worker that dies before it enqueues what it         *)
(* committed, since the redelivered job finds the profile under way.       *)
ProfileIsAttended ==
  InTheMaking =>
    \/ spoilt
    \/ \E source \in Source : jobs[source] > 0
    \/ session[Worker].job = "profile"
    \/ \E s \in Sessions : session[s].pc \in {"enqueue", "unqueued"}

(* A profile in the making becomes ready, stale or failed, but for these   *)
(* two ways.                                                               *)
ProfileSettles == InTheMaking ~> ~InTheMaking \/ spoilt

(* projects.py:727 (update_project_paper_card replaces the card as a       *)
(* whole): what a user saved stays until somebody saves again.             *)
SavedCardStays == [][card'.text >= card.text]_cardVars

(* paper_profile.py:139 (the fingerprint is the identity of the parse) and *)
(* :276 (the content of the paper or the version of the profile changed):  *)
(* a profile gets stale when the paper was parsed again.                   *)
StaleMeansReparsed ==
  [][card.profile.status = "ready" /\ card'.profile.status = "stale" =>
       card.profile.source.content # paper.content]_cardVars
=============================================================================
