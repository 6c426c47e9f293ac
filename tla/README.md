# Verification of digital-twin

TLA+ specifications of digital-twin, a local-first "digital human" server in
Go, with the TLC configurations that check them on small instances and TLAPS
proofs of the properties that matter most. Paths are relative to the repository
root; `C:n` stands for line n of `internal/conversation/coordinator.go`, `O:n`
for `internal/runtime/orchestrator.go`, `S:n` for `internal/server/server.go`.

- [The system](#the-system): components, state, interaction, what is hard
- [Plan](#plan): modules in order, what is done and what is next
- [Modules](#modules): how state and actions correspond to the code
- [Runs](#runs): what each configuration checks, its bounds, its fairness
- [Proofs](#proofs): what holds for every value of the constants, and why
- [Where code and documents differ](#where-code-and-documents-differ)
- [What is not modelled](#what-is-not-modelled)

## The system

One process serves HTTP. A chat request is a *turn* of a conversation: the
orchestrator opens the turn, routes the message to an agent, streams the
agent's text as server-sent events and commits the answer. The persona agent
grounds its answer in knowledge documents that reviewers have approved; an answer
that knowledge did not carry is audited, becomes a knowledge gap, and the gap is
repaired, verified, watched for recurrence and promoted to a release check.
Everything durable is a JSON file below the data directory.

| Component | State | Operations | Correct when |
|---|---|---|---|
| Turn coordinator and gate (`internal/conversation`) | `active`, the keys of conversations with a session; per session the loaded document, a `sync.Once` | Begin, Complete, Fail, Cancel, Release | one session per conversation; a turn has one user message, and one assistant message exactly when completed; an announced answer stays; a retry replays it |
| Orchestrator (`internal/runtime`) | none between requests | Stream, Handle | every request ends its response; nothing is announced before it is on disk; every path releases the session |
| Conversation store (`internal/store/local.go`) | a file per conversation, renamed into place | Save, Get, Append, List | a save is all or nothing |
| Short-term memory (`internal/memory/short.go`) | none | Window | the model sees a suffix of whole turns within budget, and the message to answer |
| Router, agent registry (`internal/router`, `internal/core`) | agents, filled at start-up | Route, Register, Find | every question has an agent, whatever the model router replies |
| Agents (`internal/agents`) | none | Run, Stream | text is shown only after the guard accepted it; what is committed is what was shown; no fallback after visible text |
| Persona guard (`internal/persona`) | text not yet released, all text so far, mode | Add, Finalize | no forbidden claim reaches the user, however the provider cuts its text |
| LLM providers (`internal/llm`) | none | Chat, Stream, retry | a truncated or empty stream is an error; a partial stream is never retried |
| Presentation, avatar, voice (`internal/presentation`, `internal/avatar`) | per stream: finished, text seen, pose | Emit, Adapt, captions | the face comes to rest; an answer is captioned word for word |
| Retrieval (`internal/knowledge`) | none | Search, Ground, CitationTest | only ready, reviewed documents of the space are cited; an empty result says why |
| Knowledge documents, spaces, imports (`internal/admin/knowledge.go`, `_import`, `_phase14`) | `knowledge.json` | upload, review, edit, move, delete, import, space status, health | nothing is cited without a review; a closed job accounts for its sources; a decision stands |
| Persona versions, audit, memory, policies, gaps (`internal/admin`) | a JSON file each | SaveDraft, Publish, Rollback, Save, Record, Create, Update | a published version stays as published; a torn file is not taken for an empty one |
| Answer audit, gaps, inbox (`S:1613-1900`, `internal/admin/knowledge_repair.go`) | audit records, gaps | record, capture, list, retest | an answer without a source is followed up; the inbox shows what is urgent |
| Repair, verification, recurrence, promotion (`internal/admin/knowledge_re*.go`) | append-only JSON ledgers | Verify, Detect, Confirm, Dismiss, Promote | a promoted gap is verified against what is stored now; a recurrence is decided once |
| Evaluations and release gate (`internal/evals`, `internal/governance`) | observation file | LoadCases, Run, Decide | a required check that did not run blocks a release |
| Quality trends, review checkpoints | an append-only ledger with idempotency keys | Project, Create, List | every observation is counted once; one checkpoint per key; a retry gets the same one |
| Server (`internal/server`) | request counter per key | 60 handlers | ends every stream with `done` |
| Event bus, interruption controller, long-term memory, vector index | maps | not called by the server | - |
| Skills, configuration, commands, observability, web client | - | - | - |

**Interaction.** `handleExperienceStream` calls `Orchestrator.Stream` in the
request's goroutine. Stream calls `Coordinator.Begin`, the router, an agent
(which calls retrieval, the provider and the sink), and `Complete`, `Fail` or
`Cancel`. The handler then saves the audit of the answer, asks the recurrence
service whether it repeats a repaired gap, and else captures a gap. Requests share
the gate and the files. A client that disconnects cancels the request's context;
`Fail` and `Cancel` detach from it (`C:211`). The admin services share their files,
with or without a mutex. The command line reads the promotions and the documents to
evaluate a release, and writes the observations that the trends count.

**What is hard.** Go serves every request in its own goroutine, so a load and a
save are separate steps, and only the gate orders them. A request can be
canceled at any step, a store or a sink can fail at any call, an agent can
panic (net/http recovers the goroutine and the process lives on), and the
process can die between any two writes. Clients retry: the same turn comes
again with a new attempt ID, perhaps while the first is running, perhaps after
a restart. The admin file stores have no lock between load and rename, and four of them
truncate their file before they fill it. Many small pure functions (window, search,
inbox, trends, captions) have boundaries that meet. `PROJECT.json` lists each hazard
at the line where it bites, with the properties that cover it.

## Plan

| # | Modules | Models | State |
|---|---|---|---|
| 1 | `Turns`, `TurnStream`, `TurnLedger` | concurrent streaming turns over gate, coordinator and store; the abstract ledger they implement | checked, proved |
| 2 | `ModelWindow` | the token window shown to the model | checked, proved |
| 3 | `PersonaStream` | provider stream, stream guard, delta sink, fallback policy | checked, proved |
| 4 | `ReviewCheckpoints`, `CheckpointRegister` | idempotent append under a mutex; the write-once registers it implements | checked, proved |
| 5 | `RepairLoop` | verify, detect, confirm, dismiss, promote over a tenant's gaps and the ledgers they share | checked, proved |
| 6 | `KnowledgeBase` | documents, spaces, review and imports over one file without a lock | checked, proved |
| 7 | `AdminConsole` | persona versions, memory, policies, audit, gaps over files without locks, torn writes | checked, proved |
| 8 | `Ordering`, `Retrieval`, `DocumentHealth` | search, citation test, what the console says of documents | checked, proved |
| 9 | `AnswerLoop`, composing `Retrieval` and `RepairInbox` | from a question to an audited answer, a recurrence or a gap | checked, proved |
| 10 | `RepairInbox`, `ReleaseChecks` | the repair inbox, evaluations and the release gate | checked, proved |
| 11 | `AlgorithmInput`, `KnowledgeQueries`, composing 8 and 10 | a search, an inbox page or a release, on any input | checked, proved |
| 12 | `QualityTrends`, `ReviewHistory`, `Experience` | trends, history of reviews, routing and presentation | checked, proved |
| 13 | `TurnQueries`, composing 2 and `Experience`; `QualityQueries`, over the rest of 12 | a transcript and its budget, a turn and its face, the trends or the reviews of a space, on any input | checked, proved |

"Proved" says that every safety property the component's run checks is a theorem,
for every value of the constants. What is left to TLC is the one liveness property. None
of the proved modules has a RECURSIVE operator: what the code does in a loop is a recursive
function of the number of rounds.

## Modules

### Turns, TurnStream, TurnLedger: concurrent turns of one conversation

`Turns` is the conversation document and the coordinator's edits of it, as pure
operators: `BeginTurn` (C:128-150), `CompleteTurn` (C:182-189), `FinishTurn`
(C:230-235), the decisions of Begin (`Conflicts`, `Replayable`, C:102-126) and
the projection shown to the model (`Project`, C:270-298, the positions of its messages). A message is a record
of its role, ID and content, plus a field `turn` that the code does not store
and that only properties read. A turn record keeps the status of each attempt;
`AssistantMessageID` and `Result`, always assigned together, are the one field
`result`, named after the turn and the attempt that produced it.

`TurnStream` is the state machine. A *worker* is a goroutine that serves one
request after another; `pc[w]` says where it is.

| Action | Code |
|---|---|
| `Arrive` | Stream starts, emits `request_started` (O:108-136) |
| `Acquire` | Begin: context check and `TryAcquire`, which never waits (C:74-93) |
| `BeginLoad`, `BeginSave` | Begin: load and decide; save and build the window (C:95-164) |
| `Replay` | the replay branch of Stream (O:142-156) |
| `Route` | routing, agent lookup, their events (O:158-183) |
| `AgentReturn`, `AgentPanic` | the agent call and how it can end (O:185-210) |
| `CompleteLoad`, `CompleteSave` | Complete with its deferred Release (C:166-190) |
| `Acked` | `message_completed` and `done` (O:217-227) |
| `FinishLoad`, `FinishSave` | Fail and Cancel, with a context of their own (C:192-236) |
| `AfterFinish` | what Stream emits and returns after Fail or Cancel (O:163-216) |
| `ClientCancel` | the client goes away, at any moment of its request |
| `Crash` | the process dies and restarts: gate and requests are lost, the file stays |

State that is shared is `store` (the file) and `active` (whether the gate's map
holds the conversation's key). `held` says which sessions took the gate and did
not release it, which is what the `sync.Once` of a session remembers. `out` is
the response, as event names; `shown` the answer a client was told is complete.
The gate's keys and the files are per conversation, so one conversation is all
that two requests can share, and the model is of one. Agent deltas, routing
decisions, metadata and time stamps are left out: no branch of the turn
protocol reads them.

The variable `raced` is a history variable. It becomes true when a session
takes the gate while another worker is in a `Fail` that runs *without* the gate
(`O:214`: Complete's defer has released it). Everything proved and checked about
the document holds until then; the run `two_assistants` shows that
it fails afterwards. `raced` never becomes true when no save and no load of
Complete fails, which is the normal case.

`TurnLedger` is what a conversation promises, with no gate, session, load or
save: a turn is opened, committed once or given up and opened again; a
committed turn never changes; the transcript only grows. `TurnStream`
implements it (`ImplementsLedger`) with the statuses, results and messages of
the file, until `raced`.

`TurnStreamClaims` states two sentences of the phase 8 documents that the code does
not keep, without the reservation `raced`; each has a run that shows how.

### ModelWindow: what the model is shown

`SelectRecentTurns` follows the loop of `selectRecentTurns`
(`internal/memory/short.go:74-107`) as a function of the number of rounds: `AfterLatest` is
where it starts, with a message of the user's at the end taken, and `TakePair` one round,
which leaves everything as it is once the code has left the loop. `LongestSuffix` is the
same result without a loop: the longest suffix of whole turns that fits the budget, and a
trailing user message in any case.

### PersonaStream: what of an answer reaches the user

One streamed answer of `PersonaAgent.Stream` (`internal/agents/experts.go:141-217`),
from the first chunk to the return. The provider is the environment: it sends any
of `Chunks` (`Receive`), completes (`Finish`), breaks off without the completion
marker or sends nothing but blanks (`BreakOff`), or the request is canceled
(`Cancel`). `guard` is the `StreamGuard`: `Add` and `Finalize` follow its two
methods check by check and return what they release with a verdict. `shown` is what
the sink passed on, `accepted` what the agent will commit, `result` how Stream
returned. The sink may fail after or before a segment left (`ShowFails`).

Text is a sequence of characters and only what the code tells apart is kept: sentence
ends, blanks, and one character for the markers of uncertainty. `Normalize` and
`Holds` do what `normalizeText` and `strings.Contains` do. Claims are given
normalized (`ClaimsAssumption`); one that is empty then forbids every text, as one of
blanks does in `Guard.Check`. A blank segment is neither shown nor committed
(`emitAssistantDelta`), so `NoTextLost` compares texts without blanks, and
`GeneratedIsClean` speaks of claims without a sentence end: "v1.5" may come as "v1.", a line
feed and "5". The check of the whole text finds a blank between them, the user sees none.
The local client sends one chunk and the marker, and the retry client never
retries a stream: both are special cases of the environment.

### ReviewCheckpoints, CheckpointRegister: one checkpoint per key

`QualityReviewCheckpointService.Create` in the steps its goroutine takes:
`Arrive`, `Find` (the lookup by idempotency key), `Project` (trends, gap
validation, the new record), `AppendRecord`, `Deliver`. The IDs of records are left
out: nothing compares them. Each call of the file store holds
the store's mutex from load to rename and is one step; between two calls other
requests run, the trends change (`TrendsMove`), a record on disk may stop
decoding (`Damage`), and the process may die (`Crash`), before or after the
rename. `Deliver` may lose the reply, and any request may be sent again.
`file` is the ledger, `damaged` the positions a load leaves out, `answered` a
history of the replies that arrived. Keys stand for pairs of tenant and key,
fingerprints for the content of a request without its key.

`CheckpointRegister` is the promise: per key a register that is written at most
once. `ReviewCheckpoints` implements it with the record of each key on file.

### RepairLoop: gaps from repair to release check

A tenant's knowledge gaps and the three services around them
(`internal/admin/knowledge_re*.go`). A *request* is a goroutine that calls several
stores; `request[w]` says where it is and what it has read.

| Actions | Code |
|---|---|
| `Verify`, `AppendAttempt` | `RepairVerificationService.Verify`: documents and start time, then search and ledger |
| `Detect`, `Project`, `Observe` | `RepairRecurrenceService.Detect` after a weak answer: the verification is projected twice, to find the gap and for the record |
| `Confirm`, `Dismiss`, `Reopen`, `SaveDecision` | the operator's decision: read, reopen the gap (Confirm only), save |
| `Promote`, `Project`, `CheckPending`, `Revise` | `RepairEvalPromotionService.Promote`: its preconditions one by one, then the store |
| `UpdateGap`, `WriteGaps` | an operator sets a gap, or saves a note or another gap: the file of gaps is loaded, then replaced |
| `Abandon` | a request fails or dies |

The stores of attempts, recurrences and promotions hold a mutex from load to rename, so a
call of them is one step. The gap store has none: `request[w].file` is what a save has loaded
of all gaps with its own change, and writing it (`WriteGaps`) may undo another's change, the
reopening of a Confirm included. `ConfirmedWasReopened` therefore says that the gap *was* open
while the record existed (`reopened`, a history variable), not that it still is.

The gaps share one ledger of recurrences. A recurrence's ID is made from its first audit alone
(`internal/admin/knowledge_recurrence_service.go:64`), and an audit's ID from its
conversation's (`internal/admin/audit.go:99`), so `Audits` are conversations and two gaps may
have records of one ID. An observation is of a gap and an audit
(`internal/admin/knowledge_recurrence.go:238`), but a record is found, and replaced, by its ID
alone (`RecordsOf`, lines 166 and 304): of two records with one ID a decision always finds the
older. `RecordsAgree` and `CountsAreExact` speak of a gap *and* an ID.

Documents may change at any moment and change back, so they are no variable: a step that reads
them (`Verify` starts the attempt, `Project` reads the ledger) finds any of the fingerprints of
the ready and active ones (`Snapshots`). An attempt's ID is the time it started, which orders
attempts.

In `RecordsAgree`, one pending record of a gap at most and a record for every observation are
stated together: either alone would let a racing second record go unnoticed.

### KnowledgeBase: documents, spaces, imports

`knowledge.json` is one variable, `file`, with its documents, spaces and import jobs. A
worker's request reads, decides (`Upload`, `Review`, `Disable`, `Enable`, `Update`,
`Delete`, `MoveDocument`, `CreateSpace`, `UpdateSpace`, `SetSpaceStatus`, each with the
reads and refusals of its handler and service), then saves: `Load` reads the whole file
and applies the one change, `Write` renames it into place. Nothing excludes a second
request between any two of these. `Update` reads the document and then looks
at its space (`ReindexCheck`); `MoveDocument` looks at the space and then reads the document
(`MoveGet`). An import (`Import`,
`ImportListed`, `ImportSource`, `ImportEnds`) saves its job, lists the documents, uploads
source after source and closes the job; a failing upload fails the job (`FailJob`), a
crash leaves it running. `decisions`, `written`, `opened` and `raced` are history.
Names, descriptions and chunk contents carry no decision and are left out.

### AdminConsole: the smaller stores

Persona versions, memory records, tool policies, the audit trail and the knowledge gaps
are five files, used the same way: a request reads, then `Load`, and either `Fill` alone
(gaps, written beside and renamed) or `Truncate` and `Fill` (the others, `os.WriteFile`).
`Torn` is a file between the two: a load of it fails, and after a crash it stays. `Publish`
is two saves, the version and then the active one (`AfterSave`). `raced` holds the stores
that two requests used at a time, `lost` those whose file a crash or a failed write left torn.

### Ordering, Retrieval, DocumentHealth

`Ordering` is a sorted list and a cut of it, which the search and the inbox both return
(`sort.Slice`, and a slice up to the limit): each element stands after those that come before it.

`Retrieval` is `Pipeline.Search`: the documents that are ready, then those a review has
made active, then those of the space, their chunks scored by words, by vectors or by both,
ranked and cut to a limit, with the reason when nothing is left. Texts are sequences of
words. The vector index is a parameter, as the server is built without one.
`DocumentHealth` is what the console says of the same documents: the health of a space,
the flags of a document and the gaps it relates to, and the citation test.

### AnswerLoop, RepairInbox: from an answer to a gap

`AnswerLoop` composes the search with what follows an answer.

| Actions | Code |
|---|---|
| `Ask` | a turn of a conversation; its question is grounded (`Ground`, without the space the user selected: see the finding) |
| `Deliver`, `Refuse` | the agent's result and what it says of its knowledge, or an error of Stream |
| `LoadAudits`, `WriteAudit`, `RecordFails` | `FileAuditStore.SaveAudit`: the file is loaded, then written, with no lock (`internal/admin/audit_file_store.go:18`) |
| `Detect`, `Observe`, `DetectFails` | the answer repeats a repaired gap: it is recorded, once for a gap and a conversation, and handled in any case (`internal/admin/knowledge_recurrence.go:237`, `knowledge_recurrence_service.go:69`) |
| `Capture`, `LoadGaps`, `WriteGap`, `CaptureFails` | a gap is created unless an open one is listed; its file is loaded again, then replaced (`internal/admin/knowledge_phase14.go:393`) |
| `ReviewDocument`, `UpdateGap`, `WriteEdit` | operators review documents, resolve and reopen gaps; the latter is a load and a write, too |
| `Crash` | requests are lost, the files stay |

`lost` is a history variable: the audits that were not saved, or that a save beside theirs
dropped. Equal audits are one, as are the provider's failure and the guard's rejection, which
differ in a state that no store treats as weak. A gap's ID is its time of creation, which no two
share. One operator changes gaps at a time. Of the four statuses of a gap the two are kept that
a capture or a detection asks for. A torn file of audits is `AdminConsole`'s subject, a turn's
route and persistence those of `Experience` and `TurnStream`, which repairs are verified
`RepairLoop`'s: `Detect` may take any repaired gap of the answer's question, space and reason,
or none.

What the properties leave open is what the code leaves open. `WeakAnswersAreFollowedUp` speaks
of the moment a request ends: a gap that stands then may be dropped by the next save beside
another. A second weak answer of the same conversation adds nothing to its record, even if
an operator has decided it since, so the record a conversation is followed up by may be of an
earlier answer. `InboxKnowsTheAnswers` and `RecurrencesHaveAnswers` except an audit only if
that very one was lost.

`RepairInbox` is the inbox as a function of gaps, the audited answers (the timeline) and
documents: the projection of each gap, its priority and next action, filter, order and page.
The timeline is newest first, so the answer that counts is the first that matches (`Min`).

### ReleaseChecks, QualityTrends, ReviewHistory, Experience: pure functions

`ReleaseChecks`: the cases on file and the promoted repairs (`LoadCases`, `PromotedCase`,
`ExecutePromoted`), the seven evaluators (`Fails`), the runner, the observations written
of promoted cases, and the gate. Of the promoted repairs a run loads the active revisions of
the highest numbers, as many as the command asks for (`Promoted`, `PromotionLimit`, 100 in
`cmd/cli/main.go:212`); a release says nothing of the others. `QualityTrends`: the window of a
filter and the projection of gaps, verifications, recurrences and observations over it, of
which a store lists the newest 10000 (`Listed`); a moment is half a day, so that each edge of a
window has a moment before and after it. `ReviewHistory`: the request a review accepts, the
snapshot it keeps, the list and its comparison, of reviews of one scope, length and timezone.

`Experience`: both routers and the registry, the events Stream emits for a turn and the error
it may return (`StreamErrs`), what the stream sink makes of them (poses, text, captions), and
the whole of `/experience/stream`'s response (`Response`): to a stream that erred the handler
adds an `error` and a `done` of its own, without a number and unseen by the face
(`internal/server/server.go:1607`). A turn may be refused, not begin, be replayed, find no agent,
be canceled, fail, panic, or fail to commit. `Handle` and `Adapt` are the spoken path, which
answers an error in place of events (`Speak`).

### KnowledgeQueries, QualityQueries, TurnQueries: the questions asked of the functions

Each composes pure functions, states what they promise, and has a specification whose
behaviours are about one of the functions and take one input of it (`AlgorithmInput`): any
input of the right kind, which a named assumption describes.

`KnowledgeQueries` (`Retrieval` with `DocumentHealth`, `RepairInbox`, `ReleaseChecks`) takes a
search, a page of the inbox or a release (`InputsAssumption`). A search finds what a citation
test finds only if its threshold, which its caller sets, is at most the two points a whole
query gives. `QualityQueries` (`QualityTrends`, `ReviewHistory`) takes the records on file and
a window, or the reviews on file (`QualityAssumption`): an observation is of the space of its gap,
which nothing changes, and what a review keeps was projected from records.
`TurnQueries` (`ModelWindow`, `Experience`) takes a transcript, which grows message by message,
with a budget (`WindowAssumption`: estimates are natural numbers, a budget may be negative), or
a turn with the agents, its run and the face (`RunsAssumption`: an agent that returned no text
has streamed none, as `emitAssistantDelta` keeps of an answer what it sends and sends no
blank text, `internal/agents/experts.go:467-478`). `TurnsEndSettled` tells five outcomes of a turn
apart: completed, canceled, failed, panicked, and *hanging*, a turn that was refused, did not
begin, failed to commit, or was answered with blanks only. For each it says what the response ends
with and where the face comes to rest, or that it does not.

`MCAlgorithms` gives all three small inputs and runs them together, from one initial state for
each function.

## Runs

| Run | Module, configuration | Shows |
|---|---|---|
| `turn_safety` | `MCTurnStream`, `TurnStream_safety.cfg` | gate, no lost update, attempt ownership, transcript against ledger, durability of answers, the model's context, refinement of `TurnLedger` |
| `turn_live` | `TurnStream_live.cfg` | with fairness, every request that is served ends with `done`; a failed save is never announced |
| `gate_leak` | `TurnStream_gate_leak.cfg` | **violation**: a replayed turn keeps the conversation busy until the process restarts |
| `two_assistants` | `TurnStream_two_assistants.cfg` | **violation**: a late Fail un-completes a turn, the next retry appends a second answer |
| `persona_stream` | `MCPersonaStream`, `PersonaStream.cfg` | no text lost or doubled, what is committed is what was shown, one-word claims never get through |
| `review_retries` | `MCReviewCheckpoints`, `ReviewCheckpoints.cfg` | one checkpoint per key and one answer to all retries, through races, damage, faults and crashes, also when the ledger is full; refinement of `CheckpointRegister` |
| `repair_loop` | `MCRepairLoop`, `RepairLoop.cfg` | one pending recurrence of a gap that counts its audits exactly, also beside another gap's record of its ID; decisions stay, proofs are on the ledger, one history of promotions, through every overlap of two requests |
| `knowledge_base` | `MCKnowledgeBase`, `KnowledgeBase.cfg` | an import activates nothing, a closed job accounts for its sources, edits need a space that was open, a decision stands until requests overlap |
| `admin_console` | `MCAdminConsole`, `AdminConsole.cfg` | a published version stays as published and a gap single until requests overlap; a torn file is never taken for an empty one |
| `answer_loop` | `MCAnswerLoop`, `AnswerLoop.cfg` | an answer without a source ends as an open gap or a recurrence of its conversation, the inbox knows the answers behind a gap, a recurrence has the answer it counts, but for audits that overlapping saves lose |
| `space_ignored` | `AnswerLoop_space.cfg` | **violation**: a question asked in one space is answered from another |
| `algorithms` | `MCAlgorithms`, `Algorithms.cfg` | window, search and console, inbox, release, trends, reviews and the experience of a turn on every input of small sets |

The passing runs are exhaustive: 1.8 million distinct states for `turn_safety`, 1.4 million
for `answer_loop`, 1.2 million for `repair_loop`, 830 000 for `persona_stream`, 500 000 to
600 000 for `knowledge_base` and `admin_console`, 304 000 for `algorithms`, 137 000 for
`review_retries`. The
findings in `PROJECT.json` quote the sentence each violation contradicts. The type invariants
of the seven state machines are theorems and so not listed as a property of a run.

**Bounds of the turn runs.** The state space is finite because a turn's attempt is accepted
once (`HasAttempt`), so requests bound the transcript; no counter is cut off.
`turn_safety` uses two workers and three requests, a turn, its retry and a
second turn, with faults `cancel`, `panic` and `crash`. Two workers are enough
for what can go wrong between sessions: the gate admits one session, an ungated
Fail is a second writer, and a third request follows on either worker. Three
requests give a retry during and after its first attempt and a transcript in
which a retried turn stands before a later one. A canceled context makes every
store call of the request fail, so the store faults of that run are those of
`cancel`; the file system and the sink fail in `turn_live`, whose requests are a
turn, its retry, and the retry with changed content (the conflict path).
Workers are interchangeable (`WorkerSymmetry`); the run with fairness does not
use symmetry.

**Bounds of the other runs.** `persona_stream` streams texts of up to six characters
(`CandidateLimit`), in chunks that cut a one-word claim, end a sentence, or are blank; a
pending limit of three makes the guard switch to buffering in mid-answer. One answer is one
behaviour, which ends (`CHECK_DEADLOCK FALSE`, as in every run whose bounded requests or
inputs run out). `review_retries` has two workers, three keys and the requests that matter
to one key: a request, its key with other content, and two other keys, which fill its ledger
of two records. Its file stays below `MaxFileBytes`; the theorems about it hold for any
sizes and limits. `repair_loop` has two workers, two gaps and two audits: two detections at
once, or one beside a decision, are what the store's mutex orders, and one conversation that asks
the questions of both gaps makes two records of one ID. `MaxAttempts` 2 gives a newer attempt
that failed, or passed for other documents, beside an older one, or one for each gap;
`MaxObservations` 2 a record with two audits, or two records; `MaxPromotions` 2 a revision and the
next, or a retry. The statuses are `open` and `resolved`: the code tests no other.

`knowledge_base` has two workers and three requests in all (`MaxRequests`): a decision, a
move or a status change beside an import, and one request after the race. An import has two
sources (`MaxSources`), which is what a duplicate, a skipped one, and a failure after the
first need; one restart (`MaxCrashes`) ends it half way. `admin_console` gives the five stores
five requests on two workers (`MaxRequests`): three versions (`MaxVersions`) are drafted,
published and rolled back; two gaps of one question (`MaxGaps`) are a gap and its
duplicate. `answer_loop` asks two questions (`MaxAnswers`) of two workers in two conversations or
in one, in a space or in none: a short one that its one document does not answer, or one that
audits cut. A repaired gap of the short one is on file at the start (`Backlog`), with one fault
(`MaxFaults`): a second answer meets the gap, the recurrence, the half-written file or the fault of
the first.

`algorithms` enumerates: transcripts of at most five messages of three roles with estimates 0
to 2 (`MaxMessages`) and budgets around and below two messages (`Budgets`); two documents of
four fields with three queries, modes and indexes, and two limits and thresholds; three gaps
with every status, two of one question, and pages of one, two or all; up to two cases and three
active promoted repairs, of which a run loads two (`PromotionLimit`), with each check met, failed or
missing; windows of one day to more than the
most accepted, with up to two observations on their edges; three reviews of two lengths,
scopes and timezones; turns whose answer is any two characters (word, blank, end of a sentence) or a
longer one of several sentences and blanks, under each route, start, ending, face and voice. The
limit of 10000 listed records is beyond what a run fills; the theorems hold of any number. Nothing
follows an input (`CHECK_DEADLOCK FALSE`).

**Fairness.** `FairSpec` is weak fairness of each worker's own steps: a goroutine
that can run is scheduled, and an agent call ends because the provider's HTTP
client has a timeout (`internal/llm/factory.go:24-31`). Clients, cancellation,
panics, faults and crashes are under no obligation. Weak fairness of `Step(w)` as
a whole is enough, as a worker always has exactly one place to go on from.
`turn_live` leaves out `panic` and `crash`, which end a connection without an
answer.

## Proofs

`tlapm` checks eight modules to the last leaf, for any set of workers, requests and
faults, any texts, documents and limits. Those of the seven state machines begin with type
correctness: what a request holds at each place of its code is of the right kind.

`TurnStreamProofs` starts with what each edit of a document preserves: `BeginTurn`,
`CompleteTurn` and `FinishTurn` return a conversation, and each keeps `Transcript` (one
message per role and turn, every message recorded, every record backed by its messages)
under the condition its caller establishes. The inductive invariant of `GateIsExclusive`
adds that a worker holds the gate wherever the code assumes it does (`HeldWhereGated`):
between acquiring and the end of Complete. `NoUpdateIsLost`, `AttemptIsOwned`,
`TranscriptIsConsistent` and `AnswersAreDurable` are not inductive by themselves, and gate
exclusion does not give them either: a session also needs to know that what it loaded is
still what is on disk, that its own turn is still open with its attempt generating, and
that a turn opened after a crash is not somebody else's. `SafetyInv` says so: unless
`raced`, there is one session past Begin at a time (the holder of the gate, or a Fail that
lost it), the document on disk is a `Transcript`, and each worker satisfies `WorkerInv`,
which relates its place in the code to its copy of the document, to the disk, and to the
answer it announced. An answer stays because a save is the edit of the current document,
made by a session that owns an open turn, and a completed turn is not open. The proof has
one step per action; the step that sets `raced` is the only one that leaves the invariant.
`LedgerIsImplemented`: from the same invariant, each step is a step of `TurnLedger` or
leaves the ledger unchanged. `ContextsAreSettled`: what a model is shown is of the turn
itself or of completed turns. The window is chosen by message, so this needs that a
user-message ID names one turn; the theorem assumes it of the requests, which is the
clients' promise, and `FromInv` carries it to the document: every turn and every user
message of it comes from a request.

`ReviewCheckpointsProofs`: `KeysStayUnique`, `RetriesGetOneAnswer`,
`FullLedgerAnswersRetries` and `LedgerIsWriteOnce`, for any number of workers,
keys, retries and crashes and any limits. Uniqueness of keys needs only the
second lookup in Append, with the refusal to append past a damaged record;
agreement of retries also needs that whatever a worker is about to grant is on
file under its request's key (`GrantedIsOnFile`). `LedgerIsWriteOnce` maps an
append to a write of the one register whose key was not on file.

`RepairLoopProofs`: `PromotionsAreOneHistory`, `DetectionsAreCounted`,
`DecisionsAreFinal`, `LedgerIsTheProof` and `ConfirmationsReopened`. Type correctness
rests on the numbering of revisions, since the next number is the largest so far plus
one, so the two are proved together. The counts are inductive only with what links the
requests to the records (`RecordsInv`): every record's ID is an audit observed for its gap, so an
audit not observed for a gap makes an ID that is new to that gap, though not to the ledger.
A request that is about to save a decision holds a decided copy of the *oldest* record of its
ID (`OldestIs`), which the save replaces; no later record is older, so a save never replaces
another gap's record and never makes one pending, whatever was counted since the copy was read.
`RequestStep` says once what a
step can do to a worker's request; the three later invariants use it. `FirstExists`, a
nonempty set of positions has a first, comes from the well-founded ordering of finite
sets by inclusion.

`KnowledgeBaseProofs`: `ImportsAreGated`, `EditsAreInOpenSpaces`, `DecisionsAreKept` and
`JobsAccount`. Two of them hold through every race, because what they promise is kept by
each copy as well as by the file: an imported document that is active anywhere, on file,
in a request or in the file about to be written, was activated by a reviewer (`GateInv`);
and a request that needs a space saw it open while it ran (`SpaceInv`). `DecisionsAreKept`
holds until two requests overlap: then what a request read is still on file (`Fresh`), the
file it writes is the file with its one change, and no document of an import that is
still to come has been decided (`Undecided`). `JobsAccount` needs that the contents of a job's
documents differ: `AccountedSoFar` names them, one per imported document, all among
those the job knows, and each is from a source the job is done with.

`AdminConsoleProofs`: `LossStays`, `NoSecondGap` and `PublicationStays`. A torn file is
never loaded, so nobody past a load writes to it (`LossInv`). `NoSecondGap` is an action
property: a request on the gap file saves a gap only if none of its question is open,
and writes what is on file but for that gap (`GapInv`). `PublicationStays` is the one that
needs most: the versions on file are numbered without a hole, or else a draft may take the
number of a published version; the active version is a published one; and a request in
progress writes a file of which all this holds (`PersonaInv`).

`AlgorithmProofs` proves what the functions return for every input. The only
inductive steps over behaviours say that what was asked is an input of its kind
(`OneInput`, `OneTranscript`, `OneQuestion`, `OneTurn`); the rest are lemmas about the
operators. The library's induction takes an operator, which no prover here can instantiate,
so the module brings its own, over *sets*: `Counting` (what holds of 0, and of each next
number, holds of all) follows from the last number up to which it holds (`LastExists`), and
`Recursion` gives the function that a step defines, so that whatever the model defines by
recursion satisfies its equations (`OnlyReads`, `SumsExist`, `PresentationExists`);
`SameSteps`: two functions with one step are one.

- *Search, inbox, release.* `OrderedLists`: with a strict order of a finite set, counting what
  comes before each element puts one on each place, so `Ordered` lists every element once and
  in order; `BestFew`: what a cut keeps comes before what it leaves out. `SearchesAnswer` adds
  that each stage of the search keeps to the chunks of the documents open to it, and that a
  score of nothing is a stage that found nothing; `SearchEnds` tells the six endings of a
  search apart. `InboxesPutWorkFirst` compares items by their five keys (`SortedByKeys`) and
  shows that these never put settled work before open work. `ReleasesNeedEveryCheck` goes
  back from the gate: a permitted suite is the checks of all cases, of which no two have one
  name (`SuiteRuns`, `IdsTellApart`); each required one ran and passed (`CasePassed`); and a
  promoted repair that was loaded, and passes, was answered with documents a search of its space
  found (`PassedIsBacked`). `PromotedAreLoaded`: an active one is loaded, or as many are as the
  limit allows, none of a lower number.
- *The model window* (`WindowsAreLongest`). The loop's invariant is `Taking`: the messages
  after its index are whole turns, an even number of them before a last question, and what
  remains is the budget less their cost. Each round keeps it or changes nothing, and as many
  rounds as there are messages reach a place where no pair can be taken
  (`SelectionEnds`). From there nothing longer may be sent: a longer suffix would have the
  pair just refused at its front, and sums only grow (`NothingLonger`).
- *Trends* (`TrendsAlwaysAddUp`). An accepted window is a positive number of days, so its
  weeks are at most thirteen and each moment of it lies in one (`WeeksOfWindow`); the sum over the weeks
  counts the observations before the end of the last week, which `Counting` carries from
  week to week (`WeeksAddUp`). The two rankings of gaps hold at most five each, and each names
  a selected gap of its space, so all of them pass the review's limit of candidates and its
  checks (`CandidatesAreFew`, `RankedAreEligible`). What the stores list is on file
  (`ListedAreOnFile`).
- *Reviews* (`ReviewsAreComparable`): compared exactly when an earlier window of the scope, length
  and timezone was reviewed. The newest first and the predecessor's order are strict
  orders of a scope, so the head of the list is the latest and the predecessor the closest
  window before it; a rate stands in a snapshot exactly if it had a sample (`SnapshotsShow`).
- *A turn* (`TurnsSettle`). A stream has one of a few shapes (`StreamShape`): what goes before
  the ending shows no `done` and leaves the face thinking or speaking (`QuietStays`), and an ending
  shows one, with the pose of its status after it or just before (`StoppedEnds`, `CompletedEnds`).
  The response is what was shown and, if Stream or the sink erred, the handler's two events, which
  say "failed" after whatever the stream said and leave the face alone (`RawEndErrs`,
  `ErredKeepsPose`, `ErredStaysAwake`). `SentIsSettled` puts the two together for each outcome.
  Captions cover the text because trimming drops only blanks (`TrimSays`) and each character goes
  to one segment, in order (`SplitSays`), and each begins where the last ended (`TimelineSays`); a
  text with no word has nothing to say (`NothingToSay`). With an agent for each intent, whatever
  router decides finds one (`SomeoneAnswers`).

`AnswerLoopProofs` extends `AlgorithmProofs` for what it says of the search: `Search` finds chunks of
documents that are ready, reviewed and in the space, and finds nothing only with a reason
(`SearchFinds`). `ServeMoves` lists once what a step makes of a request's job, from which types
follow. `NoWeakAnswerIsDropped` needs that an answer
without a source is classified as weak and has a reason before it is recorded
(`ClassifiedInv`). `InboxRemembers` and `RecurrencesAreAnswered` share one invariant
(`MemoryInv`): the audit is on file, or lost, from the time its request has written it, for each
gap that is on file, in a file about to be written or in an operator's change, and for each
recurrence. An audit that leaves the file enters `lost` in the same step, so what is remembered
stays so (`MemoryGrows`); what a save writes back was on file when it was loaded (`FilesRemember`).

`PersonaStreamProofs`: `CommitsAreShown`, `NoTextIsLost`, `WordClaimsStayHidden` and
`GeneratedAnswersAreClean`. The agent keeps a text apart from what the
sink shows, and decides by the guard's `visible` whether it may still fall back. `ShownInv`
says that while the answer is streamed both texts are the same and `visible` holds exactly
if they are not blank. The lemmas about `Add` and `Finalize` say what a verdict may release:
nothing, or a text of which the guard knows whether it is blank. The other three are about
texts, and are shown by induction over their characters: the library's theorems take an
operator, but `TextInduction` asks for the set of texts of which something is to be shown,
and follows from the last position at which it holds (`LastExists`). `SqueezedMore` and
`InkMore` say what the recursive functions of the model make of one more character.
`Follows` relates two texts and a claim: whatever of the claim the one holds, or ends in, the
other does too; it survives any text that both take (`SqueezeFollows`), and a blank text that
only the other takes after the end of a sentence or line (`BlankFollows`). `TextInv` then
says that the provider's text is what was released and what is pending, that all but blanks
of the released text was shown, and that the complete text follows the shown one.

The assumptions are those named in the modules: `None` is none of the other values;
requests are well-formed; faults are among those the module names; IDs of imported
documents are not those clients give; limits and thresholds are numbers, and some limits at
least one; a library is a finite set of numbered documents, what is listed is a sequence, and
IDs and moments that are sorted are numbers; a gap on file at the start has an answer, which was
audited. `MCAlgorithms` and the other runs evaluate them all.

**Only model-checked.** `EveryRequestAnswered` is liveness under fairness, which the prover
does not reach. Every invariant, action property and refinement of the passing runs is a
theorem. That the three violated sentences are violated is a matter of a counterexample.

## Where code and documents differ

Three disagreements have a run and a finding: `gate_leak`, `two_assistants`, `space_ignored`.
The others were met while reading. The models do what the code does.

*Turns.*
- An agent failure puts `error` and `done` on the response twice: Stream emits and
  returns it (`O:204-210`), and the handler reports what it returns (`S:1557`);
  `docs/specs/phase-8-real-conversation-loop.md:246` says once.
- The window of a retried turn may lack the message to answer, when later turns completed
  (`internal/memory/short.go:83`; phase-8 spec, line 322).
- A claim of two words gets through when a line feed ends a segment between them
  (`internal/persona/stream_guard.go:70`; phase-8 spec, line 261), and so does a claim with a
  full stop inside when a blank segment follows it.
- Nothing marks an attempt of a dead process as abandoned
  (`docs/plans/phase-8-real-conversation-loop-plan.md:355`). A new turn may reuse a message
  ID with other content. A Fail without the gate overwrites an announced answer
  (`raced` says when).
- Without an agent for its intent, Stream ends a turn as failed and returns no error: the
  handler audits it as completed.
- A canceled turn ends twice, first with a `done` that says canceled and then with the handler's,
  which says failed.

*Presentation.*
- An answer that was not streamed (a fallback, a replay, an agent that answers in one
  piece) has neither text delta nor speaking pose, only a subtitle. A blank answer is
  committed, and ends as an error (`internal/presentation/stream_adapter.go:100`).
- The idle pose follows `done`. After an error of Begin, of the commit or of the adapter, which
  the handler itself reports without the adapter, the face keeps its last pose, thinking or
  speaking, and after a panic, too. A spoken turn ends in the pose `speaking`.
- `Adapt` skips a number in its sequence without a voice.
- The spoken path calls every attempt by the message's ID and `-attempt-1`.

*Knowledge.*
- `review_gated` is reported when nothing matching is gated, as long as some document is
  (`internal/knowledge/pipeline.go:106`), and users then read "Matching knowledge exists"
  (`internal/agents/experts.go:624`;
  `docs/design/phase-20-knowledge-evidence-answer-trust.md:282`).
- A closed empty space is "empty", not "disabled"
  (`internal/admin/knowledge_phase14.go:88`). A space whose documents all wait for review
  is "healthy", though no search finds anything in it.
- The document sources of an audited answer are lost once the audit is read from disk:
  `internal/admin/audit.go:213` expects a type JSON decoding never produces.
- A document that was rejected is active again when an Update that read it before is
  saved after.

*Gaps and repairs.*
- Audits keep 160 bytes of a question, gaps all of it. Neither the inbox, the timeline nor
  the recurrence detection ever matches a longer question;
  `docs/specs/phase-24-recurrence-watch.md:93-94` asks for a normalized bounded summary on
  both sides.
- An answer without a selected space belongs to a gap of the default space for the
  timeline, to none for the inbox, and is not looked for among the repairs.
- Two captures at once make two open gaps of one question. A question asked again after its
  gap was resolved, but not verified, makes a second gap. From then on the timeline,
  which requires exactly one (`S:1863`), links neither.
- Detection reports an answer as handled when its gap was observed by its conversation before,
  even if the record was confirmed or dismissed since: the answer is then neither counted nor
  captured. `docs/plans/phase-24-recurrence-watch-plan.md:112` says "handled true only when a
  suspicion was recorded".
- Records are named after audits, and audits after conversations. A conversation that meets two
  repaired gaps makes two records of one ID; Confirm and Dismiss find the older
  (`internal/admin/knowledge_recurrence.go:304`), so the other can never be decided, and as a
  pending one keeps its gap from being promoted.
- Audits and gaps are loaded and written back without a lock: of two answers at once the file may
  keep one audit, or one gap, though both saves succeed.
- A Confirm and a Dismiss of one record may both succeed; the later save decides.
- The inbox also counts answers given in local mode.

*Evaluations, trends, reviews.*
- The command runs at most 100 active promotions (`cmd/cli/main.go:212`), those of the highest
  revision numbers. With more, some repairs are never checked and a release may still be
  permitted. The trends likewise count the newest 10000 records of each ledger.
- A run of the command line without `-run-id` is always called `local-eval`, which is part
  of an observation's key: only the first such run is observed (`cmd/cli/main.go:119`).
- Of two calls of one tool, the evaluator sees the last (`internal/evals/evaluator.go:142`).
- The recurrence rate may exceed one: numerator and denominator are of different gaps
  (`docs/specs/phase-26-knowledge-quality-trends.md:171-177`).
- The checkpoint ledger may outgrow the 32 MiB its next load accepts
  (`docs/plans/phase-28-knowledge-quality-review-checkpoints-plan.md:1054`). What makes a
  promotion eligible is read before the write, not at it
  (`docs/specs/phase-25-repair-to-eval-promotion.md:94`).

## What is not modelled

- The event bus, the interruption controller, rollback and feedback, long-term memory and
  the vector index: nothing but tests calls them. `Retrieval` takes the index's answer as a
  parameter. `ReleaseChecks` includes the release gate, which only tests call too, because
  it is what the observations and the runner are for.
- Skills, configuration and wiring, event names, the recorder, counters and log lines, the
  web client: stateless, or filled once at start-up, or rendering.
- Of the server: routing and decoding, authentication, read-only handlers whose result no
  module's function gives, the per-key request counter; of `handleMockVoiceStream` all but the
  events it answers with (`Speak`). Of the retest and of the timeline their order and page: the
  search a retest makes is `Search`.
- Of the agents other than the persona agent: they answer in one piece and keep no state.
- Of the providers: HTTP requests, the retry of a non-streaming Chat, error categories.
- `AppendMessage` and the in-memory stores: outside the paths of a server with a data
  directory. Two processes on one data directory are not supported by the gate, and not
  modelled.
- Data no branch reads: names, descriptions, snippets, metadata, visemes, time stamps other
  than those that order records.
