# PaperAI: models, checks and proofs

PaperAI lets a user upload papers, reads and indexes them in the background,
answers questions about them, and runs multi-step research executions over the
papers of a project, up to a manuscript with checked citations.  An API process
(FastAPI) accepts requests, one worker process (`python -m app.worker`) does
everything that takes long, a browser shows both, and they meet in PostgreSQL,
Redis, a directory of task records and a Chroma index.  Hardly any of these
meetings is atomic.  What can go wrong there is what the modules in this
directory are about; the algorithms that decide what is found, cited and merged
are modelled as operators beside them.

Paths below are relative to `src/backend/app/` unless they start with `docs/` or
`frontend/`.

## 1. Inventory

| Component | Source | State it keeps | Operations | Talks to |
|---|---|---|---|---|
| Job queue, worker loop | `job_queue.py`, `worker.py:521-600` | four Redis structures: waiting list, processing list, retry set, dead letters | enqueue, reserve (`BRPOPLPUSH`), ack, fail or retry, drain of due retries, recovery at start | every component with background work |
| Research executions | `application/research_orchestrator.py`, `application/research_task_worker.py`, `api/executions.py`, `research/task_contracts.py` | `agent_executions`, `research_tasks`, artifacts | initialise, dispatch, complete, pause, resume, approve, respond, cancel, recovery at start | queue, executors, events |
| Task executors, planning | `application/research_task_executors.py`, `application/research_planning.py` | none of their own | one task of the plan: search, select, import, read, write | discovery, imports, evidence, model client |
| Paper import | `api/papers.py:618-1766`, `services/paper_core_processing.py` | paper row, media rows, chunks, PDF | upload, process, media stage, recover, retry, two deletions | queue, task records, vector store |
| Task records | `utils/task_manager.py` | one JSON record per upload, in a file and in Redis | create, read, update, delete | paper import, browser |
| Paper files | `services/paper_files.py`, `api/papers.py` | the PDF | checked upload, ranges, the page of a passage | browser |
| Chat answers | `api/chat.py`, `worker.py:212-371`, `harness/agents/lead_agent.py` | answer record, duplicate key, cancel key (Redis), messages (PostgreSQL), `_answer_tasks` (API memory) | ask, stream, stop, handle, retry | queue, agent loop |
| Agent loop | `harness/agents/lead_agent.py`, `application/research_task_executors.py` | messages, chunks, checkpoint (Redis), counters of the task | model call, tool calls, checkpoint, resume, answer; plan, decompose, synthesise | tools, model, retrieval |
| Tool and skill runtime | `harness/runtime/`, `harness/skills/registry.py` | counters and traces of an execution | load a skill, check, run and trace a tool | agent loop |
| Question workflow | `agent/qa_agent/` | state of one question, messages, pairs | nine nodes, stream of events | retrieval, model |
| Evaluation runs | `api/admin.py:83-151`, `worker.py:56-109`, `application/evaluation_run_service.py` | `evaluation_runs`, report files | start, run, fail, retry | queue |
| Paper profiles, reading cards | `research/context/paper_profile.py`, `api/projects.py:717-796` | `ProjectPaper.analysis_card`, one JSON value | request, run, view, save card | queue, paper import |
| Project preferences, arXiv imports | `research/discovery/favorites.py`, `application/project_service.py`, `harness/tools/literature_research.py`, `worker.py:430-518` | `ResearchProject.preferences`, one JSON value | favorites, scope, import, delete import | queue, paper import |
| Execution events, reports | `application/execution_service.py`, `api/executions.py:158-180` | numbered event rows | append, stream from a number on, trace report, quality gate | executions |
| Documents, revisions, proposals | `api/documents.py`, `application/writing_service.py`, `frontend/src/utils/writingProposal.ts` | revisions; in the browser text, selection, proposal | save, propose, accept, audit | evidence, citation check |
| Manuscript tools | `harness/tools/literature_research.py`, `api/projects.py` | artefacts of a project | blueprint, section drafts, references, full draft, audit, final manuscript; user edits | agent loop |
| Citation verification | `application/citation_verification_service.py` | evidence rows | integrity gates, semantic verdicts | parses of papers |
| Literature discovery | `research/discovery/`, `api/discovery.py` | progress of a search (Redis) | plan queries, search in rounds, fall back, deduplicate, answer | providers (HTTP) |
| Search page | `frontend/src/stores/discover.ts`, `frontend/src/views/LiteratureDiscover.vue` | a store in the browser that outlives its page | search, favorites, import, watch an import | discovery, preferences, task records |
| Retrieval, indexing | `rag/`, `services/evidence_*`, `agent/qa_agent/` | chunks in Chroma | chunk, embed, recall by channel, rerank, deduplicate, cite | paper import, chat |
| Parsing | `parsers/`, `services/table_structure.py` | none | reading order, elements, sections, tables | paper import |
| Research context | `research/context/` | memory items | memory of a project, choice of candidate papers, project evidence | agent loop, writing |
| Projects, sessions, notes | `api/projects.py`, `api/chat.py`, `api/papers.py` | rows of a project | create, change, delete, turns of a chat | everything above |
| Reading caches | `api/chat.py:1040-1290` | one row per paper and kind | summary, interpretation | model client |
| Accounts, administration, set-up | `api/auth.py`, `api/admin.py`, `config.py`, `main.py`, migrations | single rows, configuration | one row per request | - |
| Frontend views, evaluation suite, scripts | `frontend/`, `src/backend/evals`, `src/backend/scripts` | - | - | API |

### What is hard

* **The worker can die anywhere.**  `restart: unless-stopped` starts it again,
  `recover_processing_jobs` gives back what was in hand, and every handler has
  to live with a job it has half done already.  Papers and executions have a
  recovery of their own on top, and an agent goes on from a checkpoint, beside
  the job that was given back.
* **Sessions keep what they read.**  `database.py` sets
  `expire_on_commit=False`; a handler that has loaded a row decides on that copy
  minutes later, and a commit overwrites what others wrote in between.  JSON
  columns and JSON records (cards, preferences, memories, answer records, task
  records) are rewritten as a whole.
* **Commit and enqueue are two steps.**  Between them a process can die, the
  enqueue can fail, or it can succeed and lose its reply.  A status that says
  "under way" usually refuses new requests, so a status nobody will change is a
  feature that is switched off for good.
* **Retries meet retries.**  A task counts its attempts, the queue counts its
  own, the user can press "retry", and recovery starts things again.
* **Models and providers take minutes.**  What was checked before a call may not
  hold after it: a paper is parsed again, a document is opened, a page is left.
* **Streams poll records that two processes write**, and are cut off and resumed.
* **Numbers name things.**  Chunks, events, revisions and turns are numbered by
  whoever comes first; a number taken twice, or counted from a new beginning,
  cites the wrong chunk or hides an event.

`PROJECT.json` lists these hazards one by one, each at its line, with the
properties that watch it.

### What makes each component correct

* Queue: no job is lost or run twice in a row, retries are counted, first
  deliveries keep their order, every job ends in success or as a dead letter.
* Executions: a task starts only when what it depends on was produced, within
  its budget of attempts and not after a stop; the status of the execution fits
  its tasks; an execution comes to rest.
* Agent and tools: no call is made that was not counted against every limit, and
  none after a stop; a conversation has an answer to each call, also after a
  checkpoint; a run ends whatever the model asks for.
* Paper import: the record announces only what is stored, nothing is stored
  twice, a deleted import leaves nothing, every import settles.
* Chat: an answer shown as completed is in the history, a retry does not write
  it twice unless the delivery failed behind its commit, the last event of a stream comes after the whole text, and what is
  streamed is what is saved.
* Evaluations, profiles, imports: at most one at a time, done once, and
  somebody always attends to what says it is under way.
* Documents and manuscripts: a proposal replaces the text it was made for; a
  final manuscript passed an audit of what it is made of; a citation judged good
  was of the present parse and of a paper of the project when its gates looked.
* Events: numbers are taken once and a reader misses none.  Discovery: bounded
  rounds, no duplicates, and an answer that says what happened.
* Retrieval, indexing, tables: what is cited was found, once; every text is in
  the index in its order; a table over several pages keeps its rows.

## 2. Modules

| Module | Models |
|---|---|
| `JobDelivery` | what a reliable queue promises about one job: new, pending, active, done or dead, with a count of failed tries |
| `JobQueue` | the four Redis structures and the loop of the worker, one action per Redis command |
| `JobQueueProofs` | theorems about `JobQueue` and their proofs: what is not lost; in which order and how often it is delivered, and that it is a `JobDelivery` |
| `TaskContracts` | the transition tables of tasks and executions, and `CompletionEvaluator.decide` |
| `ResearchExecution` | one execution: orchestrator, task worker, control API, recovery |
| `ResearchExecutionProofs` | theorems about `ResearchExecution` and `MCResearchTurns` |
| `PaperPipeline` | the import of one paper: its four stores, the processing coroutine, recovery, retry, deletions |
| `PaperPipelineProofs` | theorems about `PaperPipeline` |
| `ChatAnswer` | one question in one session: requests, streams, stop, the worker's handler |
| `ChatAnswerProofs` | theorems about `ChatAnswer` |
| `EvaluationRunsProofs` | theorems about `EvaluationRuns` |
| `EvaluationRuns`, `PaperProfiles`, `ProjectPreferences` | evaluation runs; the analysis card and the profile inside it; the preferences of a project with favorites and arXiv imports |
| `ServicesProofs` | theorems about `MCServices`: its seven services |
| `LeadAgent` | one task of the reading agent: loop, checkpoint, budgets, retries of the model |
| `AnswerPaths` | the ways a chat question takes through `stream_lead_agent`, with its agents |
| `ToolRuntime` | a tool called through a skill: checks, traces, counters |
| `QaWorkflow` | the nodes of the question workflow, its events, what it saves |
| `ManuscriptWorkflow` | the tools from a project's papers to the final manuscript, and the user's edits meanwhile |
| `Citations` | evidence rows, integrity gates and the semantic verdict |
| `WritingDesk`, `WritingRules` | a document in the editor with its revisions and proposals; the rules a proposal and an audit follow |
| `DiscoverySearch`, `DiscoverPage` | one literature search; the page that asks for it, several visits long |
| `ProjectLibrary` | a project, its papers, notes, memory, sessions and turns |
| `PaperFiles`, `TaskRecords` | the PDF and its ranges; the record of an upload, on disk and in Redis |
| `ExecutionEvents` | numbered events, their stream, trace report, gate and score |
| `ReadingCaches` | the cached summary and interpretations of a paper |
| `ResearchContext` | the memory of a project, the choice of candidate papers, their evidence |
| `Indexing`, `Retrieval`, `TableStructure` | pure algorithms: chunks and vectors; recall, reranking, citations; header rows and tables over pages |
| `Nothing` | the constant `None` of what is not there, common to the modules that are composed |
| `Requests` | nine of the eleven state machines of `MCWorkbench` side by side: those with proved invariants |
| `RequestProofs`, `WorkbenchProofs` | the invariants of the parts of `Requests`; theorems about `MCWorkbench` |
| `MC...` | the instances TLC checks, see section 3 |

`JobQueue` is the only module in which the queue is modelled command by command.
The others take it as what `JobDelivery` says it is (a job is delivered, comes
back after a failure until its retries are used up, and comes back after a death
with its count unchanged), and the run `JobQueue_one` checks that the queue does
implement `JobDelivery`.  That is how the modules compose: the pipelines rely on
an interface the queue is shown to have, by TLC and by a proof.  In the same way `LeadAgent` is one
executor of `ResearchExecution`, `AnswerPaths` is what the handler of
`ChatAnswer` reads, and `DiscoverPage` sees `ProjectPreferences`,
`DiscoverySearch` and `TaskRecords` as answers.

### JobQueue

`waiting`, `processing`, `dead` are the lists, `retry` the sorted set and `due`
its members whose time has come; `pc` says where in `worker_loop` a worker is,
`hand` what it holds in memory.  Jobs are stored as their JSON text; two texts
are equal when job and attempt count are, which is what `LREM` compares.

`Enqueue` is `enqueue_job`; `Reserve` the `BRPOPLPUSH`; `DispatchOk` and
`DispatchFail` the handler; `Acknowledge` the `LREM` after a success;
`FailRemove`, `ScheduleRetry`, `DeadLetter` the two commands of
`fail_or_retry_job`; `DrainScan`, `DrainRemove`, `DrainPush`, `DrainDone` those
of `drain_retry_queue`; `RecoverOne`, `RecoverDone` the loop of
`recover_processing_jobs`.  `Stop` and `Crash` end a process, `Start` begins one.
`CrashPoints` names the places where a process may die.

### ResearchExecution, ExecutionEvents

PostgreSQL is `planned`, `exec`, `task`, `tries`, `outputs`, `selected` and the
advisory lock `lock`; `queue` counts the jobs that wait.  Every API request and
every worker has a session with its own copy of the rows (`mem`), read at one
step and written at another, the jobs it has yet to enqueue (`todo`) and the one
it holds (`job`).  `Initialize` plans; `Dispatch`, `Publish` and `Republish` are
the commit of queued tasks and the `LPUSH` of each; `Cancel`, `Pause`, `Resume`,
`Respond`, `Reject` are what a request that was received can turn into;
`TakeJob`, `LockProject` and `Begin` lead to an executor, `Execute` is its
result, and `ReadCompletion`, `Complete` and their refusals put it into the
tables.  `ReadInterrupted` and `Interrupt` are the shutdown, `Die` and `Restart`
the death and the recovery at start.  An executor returns one of a few results:
completed, blocked, waiting for the user, failed with or without artefacts,
retryable or not, raised or not.

`MCResearchTurns` adds two memories.  `overlapped`: a session has committed over
rows another had read.  Statuses that match and moves along the tables are
promises of transactions that take turns, so they are checked until then; the
rest is checked whatever overlaps.  That nothing starts after a stop is not among
them: between turns it is only the guard of `Begin`, and when transactions
overlap it does not hold (section 3).  `controlled`: somebody has paused, resumed
or cancelled, an output has gone, or the API died in a request; until then an
execution settles, and what its executors return can be recorded
(`CompletionsAreLegal`: the moves a completion needs are in the tables, whatever
overlaps; a completion that is refused is rolled back and repeated).

`ExecutionEvents` has the writers, who commit a status and then take a number
under the lock of the execution's row, and a client whose stream is cut off and
opened again after the last number it got.  Below the state machine are the
functions that make a trace report of an execution, put a draft through its gate
and give it a score.

### LeadAgent, AnswerPaths, ToolRuntime

`LeadAgent` is one READ_PAPER task.  `pc` walks through the executor and the
loop of `run_lead_agent`: load the checkpoint, ask the progress callback (which
counts the call and looks for a stop and for the limits) *before* each model and
each tool call, repeat a model call that failed in a way worth a retry, append
the answer or the results, save the checkpoint, return.  `messages` is the
conversation, `saved` the checkpoint in Redis, `calls`, `uses`, `spent` what the
task has been charged.  The job comes back after a failure or a death, and the
loop goes on from the checkpoint.

`AnswerPaths` is `stream_lead_agent` as the generator the chat's worker reads,
one action for what it does between two yields (`Proceed`), `Read` for the
worker, who takes the event or has seen the stop.  A question is answered from
the paper's row, asked back, taken apart for several agents, answered from one
search, or by an agent that streams.  Agents are tasks beside the generator
(`Work`).  Chunks carry who found them in which search as which, so that a
marker `[Sn]` can be traced to what the model was shown under that number.

`ToolRuntime` is a tool called through a skill: `SkillRuntime.execute` (find,
check, load) around `ToolRuntime.execute` (permission, confirmation, limits,
input, call, output), with each commit of counters, trace rows and artefacts a
step of its own, and a cancellation or a death between any two.

### QaWorkflow, Citations, ManuscriptWorkflow

`QaWorkflow` has one action per node of `UnifiedQAWorkflow`, the events each
streams and what is saved at the end, in its two uses: a question of a chat with
a database behind it, and one that brings its evidence and leaves a pair.

`Citations` has the evidence rows (bound to the parse they were taken from), the
gates a citation must pass, and the verdict of the model, which may be anything;
a paragraph's generation, checks of a document and the final gate run side by
side while the paper is parsed again, or leaves the project and comes back.  A
call has a session, and `held` is what this session keeps in memory: a row it has
read or written stays as it was then (`expire_on_commit=False`, and a later
`SELECT` returns the object that is there).  `PersistUsed` keeps the last row of a
paragraph, `LoadCited` reads the others and the memberships, `VerifyIntegrity`
passes the gates on these copies and commits what changed, `Judge` reads a row
again unless it is held - it may have gone, which makes the citation unsupported -
and `SaveVerdicts` writes the verdicts to whatever the rows have become.

`ManuscriptWorkflow` has the tools that lead from a project's papers to a final
manuscript, each of which loads, refuses or writes, and commits once, in any
order, between the user's requests on the same artefacts.  `SaveArtifact` (the
agent's plain save), `CreateArtifact` (POST) and `EditArtifact` (PATCH) write
what they like: a full draft with any content (`Contents`: whether it says that
placeholders are left, which list it names, whether it has its blueprint), a
section with another record, another blueprint, list or report.  A full draft is
known by the section drafts it was assembled from (`parts`); one that somebody
wrote has none, so that nothing is said of its sections.  `report.of` remembers
which draft a report was made of, and nothing for a report the agent saved
itself.

### WritingDesk, WritingRules

`WritingDesk` puts the revisions of the server (`api/documents.py`) beside the
tab that edits them (`writingProposal.ts`, the editor views): a proposal is asked
for a selection, a revision and a version of the text, and comes back after
the author has typed, saved, selected something else or opened another
document.  `saving` is the flag the page shows while a save is under way; the first
save that returns clears it, so a second can overlap the next.  `WritingRules` are the rules a proposal has to keep (placeholders,
paragraphs, length) and the audit of a document's claims, as operators.

### DiscoverySearch, DiscoverPage

`DiscoverySearch` is one search: planning of queries, rounds with their quality
gate, both providers with retries and a fallback, merging, the answer with its
warnings, and the progress record.  `DiscoverPage` is who asks for it: the
Pinia store outlives its page, requests of one visit are answered in another, a
second search overtakes the first, favorites are put and taken back, imports are
watched until the record of the upload is completed or the watch is given up.
`flights` holds the requests under way, `late`, `crossed`, `lost` remember that
an answer came into a later visit, that two answers changed places and that the
visit that watched an import is over.

### ProjectLibrary, PaperFiles, ReadingCaches, ResearchContext

`ProjectLibrary` has a project's rows: requests look first (`pending`) and commit
later, when the project, the session or the link may be gone; foreign keys and
unique pairs have the last word.  `PaperFiles` has the checks of an upload, the
ranges a viewer is served while the file is written again, and the search for
the page of a passage (one without a word is on the page the search starts from,
whether there is such a page or not).  `ReadingCaches` has the summary and the interpretations,
made in minutes from sections that may have been parsed again.
`ResearchContext` has the memory made from notes with the limits of its schema,
the choice of candidate papers and their shares of evidence.

### PaperPipeline, TaskRecords

The stores are `row` (and `mediaRows`), `text` and `mediaText` (how often the
chunks are in the index), `pdf`, and `record`.  `pc["loop"]` and `pc["recovery"]`
are the two coroutines of the worker that can process the same paper at the same
time; each stage of `_process_paper_async` is an action that stores something
and says so in the record.  Between the chunks and the record there is no
`await`: `Turn` says that the other coroutine does not run there.  `cpc` is
where a client's request is, `seen` and `seenRow` what it has read.  The start
of the worker runs `recover_incomplete_paper_tasks` up to the first `await` of
what it spawns.

`PaperPipeline` takes `update_task` as one step.  `TaskRecords` has what is
inside: the file that is cut short while it is written, the copy in Redis that
may be out of reach, the lock that only threads of one process share.

### ChatAnswer

`stored` is the JSON record in Redis, `tasks` what the API holds in
`_answer_tasks`, `own` the object of a stream whose task was loaded anew,
`data` the worker's copy.  `Claim`, `ReadHolder`, `LoadHolder`, `Seize`, `Save`,
`Enqueue`, `SaveQueued` are the awaits of `stream_ask_in_session` in their
order; `Refresh`, `Overdue`, `Expire`, `Continue`, `End` one turn of
`_stream_answer_task`; `Disconnect` a client that goes away; the worker's
actions follow the events of the agent, with the commit of the message between
the text and the citations.  `Raise` is a failure of the agent, the database or
Redis in the loop or in the saves behind it, before or after that commit; `Break`
one in the handler of the failure or in its `finally`, with the last record or
the keys left as they were.  The queue retries either.  `deaths`, `again` (a
delivery failed that had committed the message) and `unsaved` (a failure was not
recorded) count what the properties make exceptions for.

### EvaluationRuns, PaperProfiles, ProjectPreferences

Each has a table or column, requests that read it at one step and commit at
another, a set of waiting jobs, and a worker that takes one, works on its copy
and may die.  `EvaluationRuns` has the partial unique index, the enqueue that
fails and the one that succeeds but loses its reply.  `PaperProfiles` has the
fingerprint (content and `updated_at` of the paper), the job that finds another
fingerprint and turns into a new request, and the writers that replace the card.
`ProjectPreferences` has the list of imports with its limit, the in-place change
after a failed enqueue that SQLAlchemy does not see, and the worker's three
sessions per import.

### Indexing, Retrieval, TableStructure

Operators, no state.  `Indexing` goes from the blocks of a page (reading order,
kinds, sections) to chunks and their parents, vectors in batches, and a query
with its bonus.  `Retrieval` goes from a question to a plan, channels, fusion,
rerankings, duplicates, a second pass, and from the markers of an answer to its
citations.  `TableStructure` finds header rows and records and joins tables that
go on over pages.  Scores are small integers that keep the order of the code's
weights; what a library or a model contributes is an input.

### Instances

`MCServices` puts seven modules side by side (evaluations, profiles,
preferences, agent, answers, tools, questions), `MCWorkbench` eleven state
machines of a project and its pages.  They share no row, so the initial state
chooses which one a behaviour is about (`focus`, `topic`) and the others stay as
they start: the state spaces add up instead of multiplying.  `TypeOK` and `RulesHold`
look at the component a behaviour is about.  `MCWorkbench`
EXTENDS `MCRules`, for the inputs of the algorithms, and `Requests`, which holds
the nine components with proved invariants; it is a module of its own so that the
proofs about it do not carry the algorithms and the two other components along.
For the topic
"rules" `MCWorkbench` takes one `input` from a bounded set, made in `MCRules` for
the algorithms, and checks an equation about the operators; a run of the state
machine is then one step long.
`MCResearchTurns` is described above; the other MC modules only give values to
constants.

## 3. Runs

| Run | Question | States |
|---|---|---|
| `JobQueue_one` | With one worker that may die outside two windows: is a job lost, duplicated, charged for what it did not do, or overtaken?  Does each settle?  Is it a `JobDelivery`? | 91,099 |
| `JobQueue_docReliable` | Deaths anywhere: is every job that was not acknowledged recoverable?  **No.** | - |
| `ResearchExecution_races` | All interleavings of control requests, a death, any result: do tasks start only with their inputs and within their budget?  Can what an executor returned be recorded?  While transactions take turns: do statuses match, are moves legal?  Does an execution nobody controls settle? | 802,809 |
| `ResearchExecution_docCancel` | Does a cancellation win over late output?  **No.** | - |
| `PaperPipeline_calm` | Without deaths: does the record tell the truth, does a deletion leave nothing? | 334 |
| `PaperPipeline_restarts` | Two deaths anywhere, retries and deletions at any time: is an import forgotten, is anything stored twice by a retry, does every import settle? | 418,582 |
| `PaperPipeline_docReady` | Is a ready paper readable?  **No.** | - |
| `ChatAnswer_all` | A stop, a death or a failure nobody could record, a failure behind the commit, retries, overdue records, clients that go and come back: is a completed answer saved, saved again only for a named cause, and streamed whole? | 2,759,544 |
| `Services_all` | Evaluations, profiles, imports, agents, answers, tools and questions with all their faults and deaths: is each attended to, done once, charged and whole, and does it end? | 597,942 |
| `Services_docMarkers` | Does a citation name the chunk the model was shown under its number?  **No.** | - |
| `Workbench_all` | Requests, tools and pages around a project in any order, and the algorithms over bounded inputs: does what is stale stay out, is the library whole, are answers honest, do late commits fit, is only sound text locked? | 1,800,057 |
| `Workbench_docNotes` | Is an acknowledged note kept?  **No.** | - |

The two composed runs check conjunctions with one conjunct per module:

* `Services_all`.  `WorkIsAttended`: an active evaluation, a profile or an import
  under way has somebody who will change it (`spoilt` and `stuck` name the only
  losses).  `DoneOnce`: one evaluation of a type is active and each is performed
  once, whatever is retried; a preprint is imported once but for a death and for
  entries that a commit dropped from the list (`dropped`).
  `CallsAreAccountedFor`: no model or tool call that was not counted before,
  against every limit.  `ConversationIsWhole`: a conversation has an answer to
  each call, also after a checkpoint; what was streamed is what was saved, in the
  order of the parts; a marker cites by one numbering where one search was made.
  `ReadyIsLinked`: a ready import is in the project.  `NoCallAfterStop`: no call
  of the agent begins once the execution is paused or cancelled.
* `Workbench_all`.  `StaleStaysOut`: no citation is found good whose row was stale
  when the call began, or, for a paragraph, when its verification began, unless
  the session held the row; nor on a parse of the paper that was not the present one
  when the gates looked, or of a paper that was outside the project.
  `LibraryIsWhole`: no row outlives what it belongs to, a cached summary is of
  one parse, a record that is kept has its updates.  `AnswersAreHonest`: a part
  of a PDF has the bytes it announces, a stream has every event and no number is
  taken twice, and the page shows what is so and releases its buttons.
  `RulesHold`: what holds because of what an algorithm computes - a search is
  bounded and says what happened, a memory says what the notes say, and one
  equation per algorithm.  `OnlySoundTextIsLocked`: what is locked is the very text
  the last audit passed, unless the agent saved the report itself; a text the tool
  assembled has no placeholder left and cites only what is listed.  Of a text
  written by hand the tools believe what its content says: a user who takes the
  unresolved items off a full draft can have its placeholders audited and locked
  (`EveryLockedTextIsClosed` below).  `LateCommitsFit`: a
  request that commits late changes what it looked at - the text a proposal was
  made for, the turn a user deletes, a cache row - and nothing else.

`CHECK_DEADLOCK FALSE` is set where the system may come to rest: when every
request was answered and every job settled there is nothing left to do under the
bounds.  `JobQueue_one` and `JobQueue_docReliable` check deadlock.

### Bounds

* **Queue**: two jobs are enough for one to overtake or starve another; the
  retry limit is the code's 3; `DrainBatch` is 1 where the code has 10, so that
  a backlog longer than a batch exists; two restarts.
* **Executions**: a chain of two tasks, the second waiting for a selection, has
  every kind of dependency; two attempts and one retry of the queue stand for
  the code's four and three (what matters is that the second is the first minus
  one); two requests, so that each can meet each other kind; one death.
* **Papers**: one paper, because papers share nothing but the queue; one client,
  two deaths, so that a recovery can die as well; `MaxRecovery` 1 or 2.
* **Chat**: two tasks of one question, one stream at a time, one retry; one stop,
  one death, one failure that is not saved or one delivery that fails behind the
  commit, not two of them (`FewTroubles`); it holds as well when a delivery fails behind
  the commit beside one of the others (9,523,544 states).
* **Services**: two administrators and two runs of one type, so that the second
  can be refused by the first; one retry.  One user and the worker, one paper
  that is parsed before the behaviour starts or once during it or both, one
  change of its row, one saved card, two requests, one regeneration (the code
  allows 100).  Two requests of members at a time, two identifiers of one
  preprint, a list of two entries (the code keeps 30), one other write.  The agent has two attempts, two
  turns and four model calls, so that a limit of the task is met in the second
  attempt; two deaths, so that a resumed run dies as well.  A chat question has
  at most two parts and two turns per agent, searches find nothing or two chunks,
  so that the numbers of two searches can collide.  Two calls among four tools,
  one for each right.  Two questions to the workflow, so that their rows can collide.
* **Workbench**: one paper with one section and one chunk, parsed again up to
  twice, moved out of the project and back; two versions of a full draft, one of a
  section and of the list of references, and what is written by hand either says
  that it is done or that it is not (`DoneOrNot`); the user edits and deletes
  drafts.  The topic holds also with `MaxText = 2` (699,210 states), with
  `MaxRefs = 2` (699,930) and when the user edits designs and blueprints too
  (`UserEdits`; 615,384), which together would be too long for the run; two documents,
  so that an answer can come back to the wrong one, two revisions beside two
  changes; two rounds of two queries (the code has 3 rounds); two turns of one
  session, two requests that overlap; two writers of events, one client, three
  events; two readers of a cache and one new parse; lists of two entries where
  the code has 12, filled from three rows, so that they get full; both
  processes with two updates of one record and one outage of Redis; two projects,
  two visits, four requests and two polls of the page.
* **Algorithms**: rows, blocks, chunks and words in sequences of up to three or
  four, with limits lowered so that they are reached; the inputs are listed at
  their definitions in `MCRules` and `MCWorkbench`.

### Fairness

Weak fairness of the steps of the worker and of coroutines that were started
(the event loop runs them), of requests that were received, of the passing of
time (`BecomeDue`) and of the restart of a dead worker (`restart:
unless-stopped` in `docker-compose.yml`).  In `MCServices` that is `AgentStep`
(the worker that has the task), `QaStep`, the worker's and the users' steps on a
card, the generator or its reader (`Proceed \/ Read`, one coroutine), and the agents
it has started (`Work`).  Strong fairness of `Overdue` in `ChatAnswer`: a stream
looks at a record again and again, and its age only grows.  Nothing is assumed
of users, of deaths, or of which of several outcomes a step has.  Deaths of the
API process are modelled where it commits and then does something else
(`ResearchExecution`, `ExecutionEvents`, `TaskRecords`); elsewhere it keeps no
job.

`WorkSettles` uses it for profiles, agents, questions and answers, `EverySettles`
for imports that are not withdrawn, `SettlesUnlessControlled` for executions,
`EveryJobSettles` for jobs.

### Properties checked by hand

The modules state more than the runs check.  To check one, copy the run's cfg,
replace its INVARIANTS and PROPERTIES by the property and give the constants
named in the last column their value; where an MC module has no name of its own
for a property of an instance, define one in a copy.  Those of this table are
violated, and each says something a maintainer should know.

| Module | Property | Shows | With |
|---|---|---|---|
| `JobQueue` | `DocRetriesAtMostTwice` | `docs/WORKER_ARCHITECTURE.md:28` says two retries, the code makes three |  |
| `ResearchExecution` | `NoStartAfterStop` | an executor starts for an execution that was stopped while the worker took its task |  |
| | `CompletionsAreLegal` of `MCResearchTurns` | a completion that meets a pause, a resume or a cancellation is refused and repeated | without `controlled` |
| | `ResumeGoesOn` | a pause that lasts until the last task is done leaves nothing for resume to run |  |
| `PaperPipeline` | `InterruptedIsKept` | a paper whose enhancement was interrupted is imported again by the job that was given back (`api/papers.py:1555`) |  |
| | `UsableIsNotFailed` | a media retry that stops early reports a usable paper as a failed import |  |
| | `RecoveryIsLimited` | the job the queue gives back is not counted as a recovery |  |
| | `RecoveryIsIdempotent` | two recoveries of one import index its text twice (`api/papers.py:1512`) |  |
| `ChatAnswer` | `DoneIsWhole` | two streams of a task share an object: one ends before it has sent the last text | `Clients = {c1, c2}` |
| | `OneAnswerAtATime` | two requests get a job each although there is a duplicate key: the key is set before the record it names |  |
| | `StoppedStays` | a stopped answer is completed after all |  |
| `PaperProfiles` | `StaleMeansReparsed` | reading on in a paper makes its profile stale: `updated_at` is in the fingerprint (`api/papers.py:583`) |  |
| | `SavedCardStays` | a card saved while the profile is generated is overwritten |  |
| `ProjectPreferences` | `FavoritesStay` | a favorite saved while an import is processed is lost |  |
| | `OneImportAtATime` | two requests at a time find no import of a preprint and enqueue one each (`docs/SMOKE_TESTS.md:158` says no second task) |  |
| `LeadAgent` | `PauseIsSafe` | a pause can fail the task it waits for |  |
| `AnswerPaths` | `NothingRunsAfterStop` | the agents of a stopped answer go on |  |
| | `SavedAnswersSaySomething` | a blank answer is refused from an agent that streams, and saved from the other ways |  |
| `QaWorkflow` | `BlankIsNoAnswer`, `PlacesDiffer` | a blank answer is recorded; two questions at a time get one place |  |
| `Citations` | `LexicalGateHolds` | a claim that shares words only with the claim its evidence was stored for passes the gate |  |
| | `GatesSeeTheRow` | a row another session marks as stale is active for the session that holds it |  |
| | `StaleIsNotVerified`, `VerdictSurvivesGate` | a late verdict is written on a row that is stale by now; a gate that is passed takes a verdict back |  |
| `ManuscriptWorkflow` | `AuditSawTheText` | the audit looks at the drafts as they are now, not at those the full draft was made of |  |
| | `EveryLockedTextIsClosed` | a text written by hand is locked on the word of its content, or of a report the agent saved |  |
| | `ExportStaysWhole` | the reference list of a final manuscript can be replaced under it | `MaxRefs = 2`, without `final = None` in `PaperStep` |
| | `PromptedStepIsOpen` | the user is told to lock a manuscript the tool then refuses | all `Outputs` |
| `WritingDesk` | `NothingIsOverwritten` | a plain save becomes current over a revision its author has not seen |  |
| | `UnchangedIsReplaceable` | a selection with white space at its ends cannot be replaced though nothing has changed |  |
| | `KnownIsOfDocument` | a save that returns after another document was opened leaves the tab with the revision of the wrong document |  |
| `DiscoverySearch` | `QueriesHaveASubject` | without a question the second query of a later round is its modifier alone |  |
| | `OverIsShown` | a search that fails on an empty plan is shown as "preparing" for a day |  |
| | `EveryPaperOnce` | a row that takes its twin's year can become the twin of a third | of four rows of `MergeInputs`, one undated |
| `DiscoverPage` | `LastSearchIsShown` | of two searches the slower one's results stay |  |
| | `NothingComesLate` | answers to an earlier visit change the page of a later one |  |
| | `ImportedIsInProject` | an import is reported before the paper is in the project (`discover.ts:313` says never) |  |
| `ProjectLibrary` | `TurnsHaveTheirPlace` | a turn saved while another one is deleted gets an `order_index` that is out of order or taken | `MaxTurns = 3` |
| `PaperFiles` | `PartsAreOfOneFile` | a viewer puts parts of two versions of a PDF together |  |
| `TaskRecords` | `RecordsAreNeverLost` (in `MCWorkbench`) | an update made by one process is lost to the other's |  |
| `ReadingCaches` | `MadePartsStay` | a part that was made is lost to the failure of a later regeneration |  |
| `ExecutionEvents` | `CompletedIsPass` | the last task's completion leaves nothing of the gate a draft has passed, and the score fails it | of the inputs "trace" |
| `ResearchContext` | `NamesAreStable` | an image is named by its number in a result | of a second query in `ProjectInputs` |
| | `MemoryIsBounded` | the bound of a list is looked at after appending, so notes make a memory its own schema refuses | `ListLimit = 1` |
| `Retrieval` | `TablesCompute` | a table named in a question is not used to compute the answer | of `RetrieveInputs` and the table 1 |
| `Indexing` | `NamedTableIsFirst`, `SeparatorsHold` | the named table does not stay first; a text beside a wide figure is read after what is below it | of the inputs "query", "layout" |
| `TableStructure` | `RecordsStay` | a row of words at the end of a page becomes a header when the table goes on | of the inputs "table" |

`EveryRunEnds` of `EvaluationRuns` passes under `EvaluationFairSpec`, and
`StreamsEnd` of `ChatAnswer` under `FairSpec` with one task.

## 4. Findings

Five runs stand for disagreements of the code with what is written about it;
`PROJECT.json` quotes the lines.

* `JobQueue_docReliable`: `fail_or_retry_job` and `drain_retry_queue` take a job
  out of one structure before they put it into the next.  A death in between
  loses it, although the document promises that unacknowledged jobs are
  recovered.
* `ResearchExecution_docCancel`: the orchestrator refreshes the execution so
  that "API cancellation wins over late output", but does not lock it.
* `PaperPipeline_docReady`: a retry takes the row as a sign that only the
  enhancement failed, and announces a paper whose text was never indexed.
* `Workbench_docNotes`: the memory endpoint appends to the list it has loaded and
  assigns the same object, which SQLAlchemy does not see as a change; the note
  it acknowledges is not stored.
* `Services_docMarkers`: every search numbers its chunks from S1, the answer's
  markers are resolved in the chunks of all searches put together, so that after
  a second search a marker cites another chunk.

Some properties of passing runs name a loss they exclude, and so show that it is
the only one: `WorkIsAttended` (`spoilt`: the death between the commit of a
profile and its enqueue, and a saved card that puts an older profile back;
`stuck`: the failed enqueue of an import, and a session that writes an old
status back), `DoneOnce` (for imports a death, and `dropped`: an entry overwritten by an older
copy or pushed out of the list), `AnswersAreHonest` for the page
(`late`, `crossed`, `lost`).

What the modules record of the code beside that: the answer from a single search
labels its chunks `[SS1]` (`lead_agent.py:1457`), which no citation is built from; adding a
paper to a project again overwrites role, tags and notes by the defaults; PATCH
of the preferences replaces all of them; the parent of an artefact may form a
cycle; `admin.py` imports `app.redis_utils`, which does not exist, for one
endpoint; the worker completes the record of an import before it links the paper
(`worker.py:480-510`); three header rows are never found although three are
allowed; `toggleFavorite` undoes itself in the project the store has by then.

## 5. Proofs

`JobQueueProofs` proves, for any finite set of jobs and of workers, any retry
limit, any batch size and any number of restarts:

* `TypeCorrect`: `Spec => []TypeOK`.
* `DeadLettersAreEarned`: `Spec => []DeadLetterEarned`.  A job on the dead-letter
  list carries exactly `MaxRetry + 1` attempts and has failed at least that
  often, wherever workers die, and however they take each other's jobs.
* `JobsNeverVanish`: `Spec => []NoJobVanishes`, for `CrashPoints` that leave out
  the two windows.  `JobQueue_docReliable` shows that this assumption is needed.

The argument.  None of the three properties is inductive.

* `TInv == Lists /\ Loop /\ History` strengthens the types.  A job is `Fresh`
  while it has at most `MaxRetry` attempts.  `Lists`: what waits, is processed or
  is to be retried is fresh; only dead letters have one attempt more.  `Loop`:
  what a worker holds is fresh, except between the two commands of a failure,
  where the count was raised already; the batch of a drain is fresh.  Without it
  `FailRemove` could raise a count beyond `MaxRetry + 1`.  `History` has the
  types of the rest.
* `DInv == TInv /\ Budget /\ DeadLetterEarned`.  `Budget`: every copy of a job, in
  any list or hand, carries an attempt count of at most the number of its failed
  deliveries, and a worker that is about to report a failure holds one that is
  at least one below it, since the failure is counted and not yet charged.  It
  has to speak of every copy: two workers can hold copies with different counts.
* `VInv == TInv /\ AckIsSuccess /\ NoJobVanishes`.  `AckIsSuccess`: a worker
  before its acknowledgement holds a job that succeeded, so the `LREM` removes
  nothing that is still needed - also when the text it removes belongs to a copy
  another worker is handling.  By the lemma `KeptSuffices` a step is harmless
  when each job that was somewhere still is, with whatever count, or succeeded.

Each has one lemma for `Init` and one for the steps, with a case per action.
`AppendKeeps`, `TailKeeps` and `RemoveFirstKeeps` say what `LPUSH`, `RPOP` and
`LREM` do to the members of a list; the last needs that a non-empty set of
natural numbers has a least element, since `RemoveFirst` chooses it.

The assumptions are those `JobQueue` makes of its constants (`QueueAssumption`,
`NoneAssumption`, `CrashAssumption`); TLC evaluates them in each run.

The second half of `JobQueueProofs` goes on, with the same assumptions:

* `FirstDeliveriesKeepTheOrder`: `Spec => []FirstDeliveryInOrder`, for any number
  of workers.
* `OneWorkerKeepsOneCopy`, `RedeliveriesHaveCauses`: `[]OneCopy` and
  `[]RedeliveryHasCause` for one worker, which is what `docker-compose.yml` runs,
  wherever it dies.
* `QueueImplementsDelivery`: `Spec => ImplementsDelivery`, the refinement of
  `JobDelivery`, for one worker and `CrashPoints` without the two windows.  What
  `JobQueue_docReliable` finds in the windows is what `JobDelivery` forbids.

`OInv` says which jobs were never delivered: they are in the waiting list, each
once and in the order of `arrivals` (`UntriedInOrder`), and whatever is processed,
held or to be retried has been delivered (`Tried`).  A job that was never
delivered is then always taken from the end of the list, and those that come back
are pushed in front of it.

`SInv` is about one worker: `Single` and `Separate` (no two copies of a job in one
place or in two), `InHand` (past the recovery the processing list is the job in
hand or empty) and `Known` (only what arrived is anywhere).  `InHand` is where a
second worker would break the argument: its recovery takes the first one's job.
With copies unique, `Causes` counts: a job that waits has had no more deliveries
than failures and restarts, because a death that leaves one in the processing
list is followed by a start.  `RefInv` adds that only what arrived succeeds;
`MappingOfCopies` then turns the refinement mapping of `JobQueue`, which is
defined by `CHOOSE`, into a table from the place of the only copy to the abstract
state, and each action is one action of `JobDelivery` for the job it moves and a
stutter for the others (`Unmoved`, `Elsewhere`).

`ResearchExecutionProofs` proves, for any finite set of tasks with any
dependencies, any workers, clients, results, requests and bounds:

* `ResearchTypes`, `InputsExist`, `StartsAreBounded`: `[]TypeOK`,
  `[]DependenciesProduced` and `[]RunsBounded`, whatever overlaps and dies.
* `StopsMatchTasks`, `StatusesMoveLegally`: `TurnsSpec => []MatchesInTurns`, and
  the action property `LegalMovesInTurns`, which are about behaviours until
  transactions overlap.

`IInv == TInv /\ LockHeld /\ Counted`.

* `TInv` has the types and `GoodRows`: whatever rows the table or a session
  holds, of whatever age, a completed task has its outputs and a dispatched one
  those of its dependencies.  An old row can be wrong about what is running, but
  not about this, since outputs are never taken back; so a decision on old rows
  dispatches nothing too early.  `Stock` and `Control` tie the place of a process
  to what it holds.
* `LockHeld` and `Counted`: a handler runs under the project's lock, so the
  attempts a worker has loaded are those of the table when it counts its start
  on them; other writers put statuses back, but not attempts.  The number of
  starts (`runs`) is therefore the number of attempts, and `Begin` compares that.

`UInv == IInv /\ (overlapped \/ Turns)` is for the other two.  `NoOverlap`: one
process is in a transaction.  `Local`: its rows are the table's, or, for a worker
whose executor ran while others took their turns, `Near` them, which allows for
dispatched tasks and a cancellation.  `Orderly`: what the rows promise each other,
`MatchesInTurns` among it.  Most of the proof is that what the worker decides on
`Near` rows is what the table called for.

The proof corrected the model.  A control request that has to initialize the
execution first goes on with the rows it has read, so it is in its transaction
also while it publishes the jobs of the plan in between; `InTransaction` left that
out, and "in turns" statuses could move illegally.

`PaperPipelineProofs` proves, for any number of requests at a time and in all, of
deaths and of recoveries:

* `PipelineTypes`: `[]TypeOK`.
* `NothingIsDuplicated`: `[]RetriesDoNotDuplicate`, whatever fails.
* `NoImportIsForgotten`: `[]Attended`, if `Faults` has neither `enqueue` nor
  `raise` (`NothingSlips`).  The code needs both: a failed enqueue of a retry
  puts back the status it has read, which may be one of work in progress, and an
  exception in the recovery's coroutine is only logged.
* `RecordsTellTheTruth`, `DeletionsLeaveNothing`: `[]RecordTellsTruth` and the
  action property `DeletedLeavesNothing`, for one client who retries and deletes
  any number of times, and each time waits for the answer.  The hypotheses are
  those of the run `PaperPipeline_calm`: `Orderly` are its constants (one client, no
  death, no failure of the text index), `[]Patient` is its `CONSTRAINT`.
  `PaperPipeline_docReady` shows what one failure of the text index and a retry
  do to the first.

`Once` says how the loop stores: it inserts a row only if there is none, indexes
the text of a row that is new, and adds tables and pictures where there are none
(`OnceStored`); this holds while no recovery ran and nobody asked to delete.
`Asked` says that whoever deletes was asked to.  `Followed` says who minds an
import: a handler that has not returned, a recovery, a waiting job, a request
about to send one, or a worker to start.  It is stronger than `Attended` in two
places: a job in hand whose handler has returned does nothing more, and a
recovery that will not find the file ends without touching the record.  Proving
that the second is harmless showed that the loss of the file need not be
excluded, as the run did before.

`TruthInv` adds to `RecordTellsTruth` three parts.  `OneAtATime`: the request, its
job in the queue and the run of that job follow one another, so at most one of
them is there.  `Stored` says what the stores hold at each place of that one
thing: an import is built (`Building`) only without a row, so that it never finds
the row of another run and skips its chunks; media are repeated (`Repeating`) only
with one; a row has its chunks except between the two
commits that make or remove it.  `SeenHolds`: what a request has read when it
came is still so when it acts on it.  This is the conjunct that needs the patience:
with a job at work, the status in `seen` is old before the request uses it.

`ChatAnswerProofs` proves, for any number of clients, tasks, stops, retries and
deaths, without the run's constraint:

* `ChatTypes`, `CompletedAnswersAreSaved`, `RetriesSaveTheMessageOnce`:
  `[]TypeOK`, `[]CompletedIsSaved`, `[]RetriesSaveOnce`.
* `OneJobOfATask`: the queue and the worker hold one job of a task at most.
* `DoneSendsTheWhole`: `OneStream => (Spec => [](stops = 0 \/ Clean =>
  DoneIsWhole))`.  A stream that is the only one of the process and ends with
  "done" has sent the text its record has, if there was no stop, or no death and no
  failure that could not be saved (`Clean`).  The run has this in its `CONSTRAINT
  FewTroubles`, with one of them; the theorem has any number of the one kind or of
  the other.

`CInv` adds to the types: `Defined` (which variables hold a value at which place),
`Registered` and `Alone` (a task is known to nobody else while its request
chooses and saves it), `OneJob`, `Honest` and `Budget`.  `Honest` has to speak of
every copy of a record - Redis, the object of the process, the own object of a
stream, the worker's data - because each may be written back over the others:
none says "completed" before the message is committed.  `Budget`: as long as
somebody may still commit the message of a task, it was committed at most as
often as the worker has died or a delivery has failed behind the commit.

`SInv` adds for the last theorem what each copy of a record holds of the text.
`Worded`: what is completed has a text.  `SavedFirst`: an object without a record
is one its request is about to save.  `InStream`: what a request has sent is in
its object, place by place.  The two halves of the hypothesis have different
reasons, and so a conjunct each.  `Calm` (no death and no unsaved failure, which leave a record
that still says it is running: `Undying`): there is one run
of a task that still says it is running, so such a record has one piece of text
at most and a stream has sent one at most.  `Kind` (no stop: `Unstopped`): no
record loses text, because the worker's copy has at least the text it writes
over (`RunKeeps`), so a stream has sent no more than Redis has (`RequestKeeps`).

`EvaluationRunsProofs` proves, for any set of administrators, any non-empty sets
of rows and types, any attempts, faults and number of deaths:

* `EvaluationTypes`: `EvalSpec => []EvalTypeOK`.
* `OneRunOfAType`: `EvalSpec => []OneActiveRun`.
* `RunsAreAttended`: `EvalSpec => []ActiveRunIsAttended`.
* `ReportsAreProducedOnce`: `EvalSpec => []EvaluatedOnce`.

`EInv` strengthens the types by four conjuncts.

* `Unique` is `OneActiveRun` without the cardinality: two active rows of one type
  are the same row.  `Insert`, and the `UPDATE`s of `Start` and `Fault` that can
  make a failed row active again, keep it because each asks the unique index
  about the committed rows; what `Ask` and `Load` read earlier does not matter.
* `Rows`: before its insert a request has a row to itself that does not exist;
  after it, and for each job, the row exists.  So an insert never overwrites the
  run in the worker's hand.
* `Course` ties the status of that run to the worker's place.  While a run is
  performed only a request that gives up can change it, and only to `failed`; a
  job is acknowledged when its run is over; and it is given up - handed to the
  dead letters when no attempt is left - when its run is over or an attempt
  follows.  This is where `start_evaluation` and `handle_admin_evaluation` meet:
  the transition refused in `Load`, `Finish` or `Error` sends the job to
  `fail_or_retry_job` although its run was not touched.
* `ActiveRunIsAttended` follows a step at a time: `Ack` and `Nack` are the only
  steps that leave a run, and `Course` says that it is over or its job waits.

`EvaluatedOnce` needs the types only.  The runs check the same properties on two
administrators and two rows as parts of `DoneOnce` and `WorkIsAttended` of
`MCServices`, whose `ASSUME` evaluates `EvaluationAssumption`, the hypothesis of
the theorems.

`ServicesProofs` proves of `MCServices`, for any sets of members, users, papers,
preprints, tools and faults and any limits, retries and deaths:

* `CallsAreCounted`, `NoCallIsLate`: `[]CallsAreAccountedFor` and the action
  property `NoCallAfterStop`.
* `ReadyImportsAreLinked`: the action property `ReadyIsLinked`.
* `NobodyIsForgotten`: `[]WorkIsAttended`.
* `NothingIsDoneTwice`: `[]DoneOnce`.
* `ConversationsAreWhole`: `[]ConversationIsWhole`.
* `ServicesAreTyped`: `[]TypeOK`, of all seven with every bound in it.

A step of `MCServices` is one of one service and a stutter of the others
(`StepOfEach`), so each service has its own invariant.

* `CallsInv` has the counts as numbers beside the property: a resumed run takes
  its counts from the row and not from the checkpoint, so nothing is forgotten;
  what the execution refuses after the task was charged stays within the limit.
* `TracesInv` ties the rows of the traces to the counter.  A row that says
  "running" belongs to the call in hand or to a death, which bounds the number of
  such rows by the number of deaths and one.
* `ProfileInv` adds to `ProfileIsAttended` what the worker's job is at each of its
  places (`WorkerPlaces`): only a job that makes a profile leaves one under way, and
  `finish` writes an end.
* `ImportInv` is about copies.  `Copies`: whatever a session has read, and however
  old it is, has one entry of an import and says "ready" only of a paper that was
  linked or deleted, since neither is ever undone; so writing it back is harmless
  for `ReadyIsLinked`.  An entry that is under way can come back with a copy: `stuck`
  names it, unless it is the writer's own, and `Fresh` says that the writer's own
  paper is not in the queue nor in the worker's hand yet.  `Marks`: when the worker
  acknowledges, nothing of its paper is under way but for what was put back.
* `OnceInv` is about two requests for one preprint.  What the second one can see
  of the first is a paper of the project or an entry of the list, so the
  invariant follows an import from one to the other.  `Early`: before its job
  processes it, nothing of a paper is stored.  `Lost` is what can no longer
  become a paper, and stays so (`LostStays`); `Gone` and `Telling` say that what
  failed, was deleted, or is shown as failed in any copy, is lost.  `Entered`: an
  import that was recorded keeps its entry until a commit drops it (`dropped`) or
  it is deleted.  `Sole`: a request that found nothing of its preprint has read
  only of lost imports of it.  So when it writes its copy, another import of the
  preprint is in that copy and lost, deleted and lost, or dropped by the very
  commit; `Rivals` states the outcome and gives `ImportedOnce`.  A death ends the
  argument: a job that failed goes back to the queue before it is acknowledged,
  its import can be deleted and asked for again, and then both are processed.
* `TalkInv` says at each place of the agent's loop how many calls of the
  conversation still lack an answer, and of each checkpoint in Redis that it
  lacks none (`GoodCheckpoint`): it may be of an older round, but a run that is
  resumed from it never sends the model a call without its answer.
* `QaInv` follows each question through its nodes: no answer before there is one
  and no last event before the end (`Course`), the reasoning closed once and
  before what is said after it (`Thought`), as many pieces in the saved row as
  were told (`Written`).  `QaBounds` adds what bounds the counters: a question has
  one row of a kind, so no more rows are counted than there are questions.
* `PathInv` is about the ways of an answer: what there is of it at each place of
  the generator (`Places`), and that the chunks found are those of the parts that
  were answered, numbered through, with the citations among them (`Findings`).  A
  part counts its chunks on from those of the parts before it, which is why one
  numbering holds where one search was made.
* Of the evaluations the module takes `RunsAreAttended`, `OneRunOfAType` and
  `ReportsAreProducedOnce` from `EvaluationRunsProofs`: both instances have the
  same parameters.

The assumption is `ServicesAssumption`, the conjunction of what the seven modules
assume of their constants.  The proofs found two of these too weak:
`ProjectPreferences` chooses a preprint and a paper for what is idle, so there is
one, and `PaperProfiles` lets the paper be parsed before the start.  A third,
that the questions of `QaWorkflow` are finitely many, is needed for the bound on
its rows.  And widening
the run to two members, which the proofs are about, showed that
"a preprint is imported once" had held for one member and one preprint only:
`ImportedOnce` now names the dropped entries, and `OneImportAtATime` (section 3)
shows how they come about.

`WorkbenchProofs` proves of `MCWorkbench`, for any sets of papers, sections,
claims, documents, sessions, readers, writers, clients and projects and any
limits, parses, requests, outages, deaths and visits:

* `StaleEvidenceStaysOut`: `[]StaleStaysOut`.
* `FinalTextIsSound`: the action property `OnlySoundTextIsLocked`.
* `LibraryStaysWhole`: `[]LibraryIsWhole`.
* `LateRequestsFit`: the action property `LateCommitsFit`.
* `ClientsAreToldTheTruth`: `[]AnswersAreHonest`.

Again a step is one of one component and a stutter of the others (`StepOfEach`),
so each component has an invariant, proved in `RequestProofs` from the part of
`RequestsAssumption` that is its own.

* `CiteInv`.  `Begun`: an evidence row that was stale when a call began is stale
  in the table until the gates look at it - nothing takes the mark back, also not
  when the paper is parsed again or comes back into the project, and a commit of
  another session writes only what that session has changed (`Updated`) - and a
  session that holds it holds it as stale.  `Judged`: what a call
  let pass was sound when the gates looked and not stale when it began, and the rows
  of the verdicts are in memory.  Together
  they give the property without the state in which the call ends, which may have
  another parse in it.
* `PaperInv`.  `ReportIsOfDraft`: an audit is of the full draft or of an earlier
  version of it, never of a later one, and a report of the version there is, is of
  that very text: every way to write a full draft over takes a new number, and a
  new or deleted one takes the report along.  `DraftKnowsItself`: a full draft that
  was assembled and is whole says itself whether a part is open and which list of
  references it was made
  with; if that is still the last list, it has what the draft cites.  The lock
  compares versions, so these two carry what the audit saw to the moment of the
  lock.
* `DeskInv`.  `RequestIsOfEditor` and `ProposalIsOfEditor`: what was asked at the
  version the editor still has is about its text and its document.  A version that
  is used again for another text would break it; the counter never goes back, also
  where a document is opened anew.
* `ShelfInv`.  `NothingIsLeft`: what belongs to a project or a paper is gone with
  it.  `SessionBelongs`: an open session has its paper or its project, one that is
  gone has no turns.  `RequestsFit`: what a request has looked at is still so - the
  session it opens is new and opened by no other, one answer is saved at a time.
* `CacheInv`.  `MadeIsOf`: what a request has made of a summary is of the parse it
  read when it began, and no part of an interpretation that will be stored failed.
* `RecordInv`.  `TurnsAreTaken`: until two updates overlap (`overlapped`), the
  temporary file is the writer's own.  `FileIsCurrent`: with Redis there all the
  time the file has what was applied, except between the two halves of a write, and
  Redis has the same or nothing.
* `FilesInv`: a part was read before its length was announced, and who compares a
  validator has it from an earlier answer.
* `EventsInv`: events are numbered as they lie in the table, a writer that holds
  the lock has the next number, and a stream has received a prefix of the events
  whose end is its cursor, from which it goes on when it was lost.
* `PageInv` is about a page and requests that outlive it.  Its history variables
  say how far it goes: while no answer came `late` (into another visit) the
  requests under way are of the visit's project (`VisitsFit`, `TasksFit`) and what
  is shown of the visit and of an import under way is so (`VisitIsShown`,
  `ImportIsShown`); while in addition no two answers `crossed` there is one search
  or one change of a favorite at a time (`OneByOne`), and while no watch was
  `lost` either the star is what the server has (`FavoriteIsShown`).  TLC checked it with
  six requests and three visits before it was proved.

The assumption is `RequestsAssumption`, the conjunction of what the nine modules
assume (`WorkbenchAssumption` is that of the two others).  The proofs completed two: `DiscoverPage` chooses a
project for what is idle, so there is one, and `None` is none of its results;
`None` is no writer of `ExecutionEvents`.

Left to TLC:

* Liveness under fairness (`EveryJobSettles`, `SettlesUnlessControlled`,
  `EverySettles`, `WorkSettles`), which is out of the prover's reach.
* `TypeOK` of `MCWorkbench`.  The proved invariants contain the types of the nine
  components as far as their arguments need them; the limits of every counter, and
  the types of `DiscoverySearch` and `ResearchContext`, are TLC's.
* `RulesHold`: the search, the memory and the algorithms, over bounded inputs.
  Each is about the value of a fold over a sequence or a set, and what a fold computes
  for every input needs induction over data, which the provers cannot do.

## 6. What is abstracted or left out

* **Everywhere**: payloads, texts, scores, prompts and messages; only what a
  guard reads is kept.  The model's answer is success or failure, or any of the
  answers the code tells apart.  Redis and PostgreSQL commands are atomic and do
  not lose data; a failing command is a named fault.
* **ResearchExecution, ExecutionEvents**: one execution; what a task produces is
  whether it names artefacts; the metrics merged into the progress, which nothing
  reads, and the control path of the former executions table are left out.
* **LeadAgent**: tokens are within the limit or beyond; which tool is called and
  what it finds is left out.  Streaming of the model client with its idle
  timeouts, the choice of a model and the critique agent are left out.
* **AnswerPaths, QaWorkflow**: texts are sequences of numbered pieces; follow-up
  questions and the classification of a question by its words are left out.
* **ToolRuntime**: tools are their rights; the registration of single tools and
  the reading of skill files are left out.
* **Citations**: the semantic verdict is any verdict; adjusting a weak claim,
  which no caller asks for, is left out.
* **ManuscriptWorkflow**: one title of each type; the export to files, a change of
  an artefact's parent or of a draft's section by PATCH, and a second blueprint,
  list or design made by POST are left out.  `MCWorkbench` ends a behaviour with the
  lock of the manuscript, which no action reads.
* **DiscoverySearch**: HTTP is an answer or an error; the arXiv adapter is left
  out, since the workflow does not ask it.  **DiscoverPage**: one result; the
  drawer and the editing of intent and filters are left out.
* **PaperPipeline**: `update_task` is one step (`TaskRecords` has its inside);
  the rebuilding of sections and the reading status are left out.
* **ChatAnswer**: the text is 0, 1 or 2 pieces long; keys do not expire; the API
  is not restarted; the blocking `/ask` and the traces are left out.
* **EvaluationRuns**: producing the report is one step; the report is written
  before the run is marked.
* **PaperProfiles**: one project; the task executors' direct call of
  `run_generation` is left out; a retry count above its limit, which raises
  `ValidationError`, ends the job instead of sending it through the retries.
* **ProjectPreferences**: processing the PDF is one step; removal of a paper from
  the project, the retry of a failed import from the task list, and two projects
  that import one preprint are left out.
* **Indexing, Retrieval, TableStructure**: embeddings, the order a model
  proposes and Chroma's distances are inputs; the geometry of PDF objects,
  figures, captions by patterns and the outline are left out.
* **Not modelled at all**: accounts and administration (each request checks or
  writes one row), configuration and start-up, presentation, measurement and
  scripts.

## 7. Plan

Done: queue, executions, paper import, chat, evaluation runs, the services and
the requests around a project, with their proofs; events, files and records; the
agent, its tools and the ways of an answer; profiles, preferences; discovery and
its page; documents, manuscripts and citations; projects; caches, context,
indexing, retrieval and tables.  Next, in this order:

1. The blocking `/ask` and the restart of the API beside `ChatAnswer`; the
   model client's streaming with its timeouts beside `LeadAgent`.
2. Two projects with one paper in `PaperProfiles` and `ProjectPreferences`.
3. The analyzers of images and figures, and the remaining stores of the
   frontend.
