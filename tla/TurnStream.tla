----------------------------- MODULE TurnStream -----------------------------
(***************************************************************************)
(* Concurrent streaming requests for one conversation: Orchestrator.Stream   *)
(* (internal/runtime/orchestrator.go) over the turn coordinator, its gate     *)
(* and the conversation store (internal/conversation, internal/store), up to *)
(* the lines handleChatStream adds to the response (internal/server).        *)
(*                                                                          *)
(* A worker is a goroutine of the HTTP server; it serves one request after   *)
(* another.  A load and a save of the document are separate steps, because   *)
(* only the gate keeps another worker from writing in between.  The gate is  *)
(* keyed by (tenant, user, conversation) and each conversation is a file of  *)
(* its own, so one conversation is the whole of what requests share.         *)
(***************************************************************************)
EXTENDS Turns

CONSTANTS
    Workers,    \* goroutines serving requests for this conversation
    Requests,   \* the requests clients send
    Faults      \* what goes wrong: "cancel", "store", "sink", "panic", "crash"

ASSUME RequestsAssumption == Requests \subseteq TurnRequest

ASSUME FaultsAssumption == Faults \subseteq {"cancel", "store", "sink", "panic", "crash"}

VARIABLES
    store,      \* the conversation document on disk
    active,     \* whether the conversation's key is in the gate's active set
    pc,         \* where each worker is
    req,        \* the request each worker serves, or served last
    held,       \* workers whose session took the gate and did not release it
    conv,       \* the document each worker loaded and edited
    code,       \* the error code a worker passes to Fail or Cancel
    canceled,   \* workers whose request context is canceled
    out,        \* the event names written to each worker's response
    shown,      \* the result a message_completed event carried, or None
    raced       \* history: a turn began while a Fail ran without the gate

vars == <<store, active, pc, req, held, conv, code, canceled, out, shown, raced>>

(* "finish" and "finishSave" are finishWithoutAssistant, "tail" what Stream
   does after it, "acked" what Stream does after a successful Complete. *)
Locations == {"idle", "begin", "load", "save", "replay", "route", "agent",
              "commit", "commitSave", "finish", "finishSave", "tail", "acked"}

Codes == {"sink_failed", "agent_not_found", "agent_failed", "commit_failed", "canceled"}

Events == {"request_started", "route_selected", "agent_selected",
           "message_completed", "canceled", "error", "done"}

TypeOK ==
    /\ store \in Conversation
    /\ active \in BOOLEAN
    /\ pc \in [Workers -> Locations]
    /\ req \in [Workers -> TurnRequest \cup {None}]
    /\ \A w \in Workers : pc[w] # "idle" => req[w] \in TurnRequest
    /\ held \in SUBSET Workers
    /\ conv \in [Workers -> Conversation]
    /\ code \in [Workers -> Codes \cup {None}]
    /\ canceled \in SUBSET Workers
    /\ out \in [Workers -> Seq(Events)]
    /\ shown \in [Workers -> Results \cup {None}]
    /\ raced \in BOOLEAN

Init ==
    /\ store = NewConversation
    /\ active = FALSE
    /\ pc = [w \in Workers |-> "idle"]
    /\ req = [w \in Workers |-> None]
    /\ held = {}
    /\ conv = [w \in Workers |-> NewConversation]
    /\ code = [w \in Workers |-> None]
    /\ canceled = {}
    /\ out = [w \in Workers |-> <<>>]
    /\ shown = [w \in Workers |-> None]
    /\ raced = FALSE

-----------------------------------------------------------------------------
(* Helpers. *)

Goto(w, l) == pc' = [pc EXCEPT ![w] = l]

Emit(w, events) == out' = [out EXCEPT ![w] = @ \o events]

SinkMayFail == "sink" \in Faults

(* A store call made with the request context fails when that context is
   canceled (LocalStore checks it first) or when the file system fails. *)
StoreMayFail(w) == w \in canceled \/ "store" \in Faults

(* TryAcquire: whether the key is taken. *)
NeverBusy == FALSE   \* mutant: the key is not looked up

Busy == active

(* TurnSession.Release: the first call deletes the key, later calls do
   nothing. *)
ReleaseEveryTime(w) ==   \* mutant: no sync.Once, a later call deletes the key again
    /\ active' = FALSE
    /\ held' = held \ {w}

Release(w) ==
    /\ active' = (active /\ w \notin held)
    /\ held' = held \ {w}

(* A session is forgotten without Release: the key stays in the gate. *)
Forget(w) == held' = held \ {w} /\ UNCHANGED active

(* The locals of a request end with it. *)
Discard(w) ==
    /\ conv' = [conv EXCEPT ![w] = NewConversation]
    /\ code' = [code EXCEPT ![w] = None]
    /\ canceled' = canceled \ {w}

(* Stream returns to handleChatStream with an error, which writes an error
   and a done event of its own; "before" is what the request emitted on its
   way out. *)
ReturnErrorSilently(w, before) ==   \* mutant: the server writes nothing of its own
    /\ Goto(w, "idle")
    /\ Emit(w, before)
    /\ Discard(w)

ReturnError(w, before) ==
    /\ Goto(w, "idle")
    /\ Emit(w, before \o <<"error", "done">>)
    /\ Discard(w)

ReturnOK(w, before) ==
    /\ Goto(w, "idle")
    /\ Emit(w, before)
    /\ Discard(w)

(* Begin gives up after it took the gate. *)
BeginError(w) == ReturnError(w, <<>>) /\ Release(w)

(* Stream calls Fail or Cancel. *)
GotoFinish(w, c) ==
    /\ Goto(w, "finish")
    /\ code' = [code EXCEPT ![w] = c]

-----------------------------------------------------------------------------
(* Stream starts: the request is valid, and request_started is emitted before
   Begin is called, unless the context is already canceled. *)
Arrive(w, r) ==
    /\ pc[w] = "idle"
    /\ req' = [req EXCEPT ![w] = r]
    /\ shown' = [shown EXCEPT ![w] = None]
    /\ \/ /\ Goto(w, "begin")
          /\ out' = [out EXCEPT ![w] = <<"request_started">>]
       \/ /\ SinkMayFail \/ "cancel" \in Faults
          /\ UNCHANGED pc
          /\ out' = [out EXCEPT ![w] = <<"error", "done">>]
    /\ UNCHANGED <<store, active, held, conv, code, canceled, raced>>

(* The client disconnects or aborts while its request is served. *)
ClientCancel(w) ==
    /\ "cancel" \in Faults
    /\ pc[w] # "idle"
    /\ w \notin canceled
    /\ canceled' = canceled \cup {w}
    /\ UNCHANGED <<store, active, pc, req, held, conv, code, out, shown, raced>>

(* A Fail that runs after Complete already released the gate. *)
FinishingUngated(w) == pc[w] \in {"finish", "finishSave"} /\ w \notin held

(* Begin: the context check and TryAcquire, which never waits. *)
Acquire(w) ==
    /\ pc[w] = "begin"
    /\ \/ /\ w \in canceled \/ Busy
          /\ ReturnError(w, <<>>)
          /\ UNCHANGED <<active, held, raced>>
       \/ /\ w \notin canceled /\ ~Busy
          /\ Goto(w, "load")
          /\ active' = TRUE
          /\ held' = held \cup {w}
          /\ raced' = (raced \/ \E v \in Workers : FinishingUngated(v))
          /\ UNCHANGED <<conv, code, canceled, out>>
    /\ UNCHANGED <<store, req, shown>>

(* Begin: load, then refuse, replay, or edit the document. *)
BeginLoad(w) ==
    /\ pc[w] = "load"
    /\ \/ StoreMayFail(w) /\ BeginError(w)
       \/ /\ w \notin canceled
          /\ Conflicts(store, req[w])
          /\ BeginError(w)
       \/ /\ w \notin canceled
          /\ Replayable(store, req[w])
          /\ Goto(w, "replay")
          /\ conv' = [conv EXCEPT ![w] = store]
          /\ UNCHANGED <<active, held, code, canceled, out>>
       \/ /\ w \notin canceled
          /\ ~Conflicts(store, req[w]) /\ ~Replayable(store, req[w])
          /\ Goto(w, "save")
          /\ conv' = [conv EXCEPT ![w] = BeginTurn(store, req[w])]
          /\ UNCHANGED <<active, held, code, canceled, out>>
    /\ UNCHANGED <<store, req, shown, raced>>

(* Begin: save, then build the model window.  The window fails when the
   context is canceled after the save: the generating attempt stays on disk
   although Begin returns an error. *)
BeginSave(w) ==
    /\ pc[w] = "save"
    /\ \/ /\ StoreMayFail(w) /\ BeginError(w)
          /\ UNCHANGED store
       \/ /\ w \notin canceled
          /\ store' = conv[w]
          /\ Goto(w, "route")
          /\ UNCHANGED <<active, held, conv, code, canceled, out>>
       \/ /\ "cancel" \in Faults /\ w \notin canceled
          /\ store' = conv[w]
          /\ BeginError(w)
    /\ UNCHANGED <<req, shown, raced>>

-----------------------------------------------------------------------------
(* The replay branch of Stream: emit the stored result and return.  No path
   of it calls Release. *)
Replay(w) ==
    /\ pc[w] = "replay"
    /\ Forget(w)
    /\ \/ /\ ReturnOK(w, <<"message_completed", "done">>)
          /\ shown' = [shown EXCEPT ![w] = conv[w].turns[req[w].turn].result]
       \/ /\ SinkMayFail
          /\ ReturnError(w, <<>>)
          /\ UNCHANGED shown
       \/ /\ SinkMayFail
          /\ ReturnError(w, <<"message_completed">>)
          /\ shown' = [shown EXCEPT ![w] = conv[w].turns[req[w].turn].result]
    /\ UNCHANGED <<store, req, raced>>

(* Routing always yields an intent (a router error falls back to persona
   chat); the agent lookup may fail; both selections are emitted. *)
Route(w) ==
    /\ pc[w] = "route"
    /\ \/ /\ SinkMayFail
          /\ GotoFinish(w, "sink_failed")
          /\ UNCHANGED out
       \/ /\ GotoFinish(w, "agent_not_found")
          /\ Emit(w, <<"route_selected">>)
       \/ /\ SinkMayFail
          /\ GotoFinish(w, "sink_failed")
          /\ Emit(w, <<"route_selected">>)
       \/ /\ Goto(w, "agent")
          /\ Emit(w, <<"route_selected", "agent_selected">>)
          /\ UNCHANGED code
    /\ UNCHANGED <<store, active, req, held, conv, canceled, shown, raced>>

(* The agent returns a result, an error (a failing sink included), or a
   cancellation or deadline error.  The text deltas it emits meanwhile are
   left out. *)
AgentReturn(w) ==
    /\ pc[w] = "agent"
    /\ \/ Goto(w, "commit") /\ UNCHANGED code
       \/ GotoFinish(w, "agent_failed")
       \/ GotoFinish(w, "canceled")
    /\ UNCHANGED <<store, active, req, held, conv, canceled, out, shown, raced>>

(* A panic unwinds Stream, which neither recovers nor defers a Release;
   net/http ends the connection. *)
AgentPanic(w) ==
    /\ "panic" \in Faults
    /\ pc[w] = "agent"
    /\ Goto(w, "idle")
    /\ Forget(w)
    /\ Discard(w)
    /\ UNCHANGED <<store, req, out, shown, raced>>

-----------------------------------------------------------------------------
(* Complete returns an error: its deferred Release runs first, then Stream
   calls Fail with "commit_failed". *)
CommitErrorIgnored(w) ==   \* mutant: the error of Complete is dropped
    /\ Goto(w, "acked")
    /\ Release(w)
    /\ UNCHANGED code

CommitError(w) ==
    /\ GotoFinish(w, "commit_failed")
    /\ Release(w)

(* Complete: load the document again and edit it. *)
CompleteLoad(w) ==
    /\ pc[w] = "commit"
    /\ \/ /\ \/ StoreMayFail(w)
             \/ ~Owns(store, req[w].turn, req[w].attempt)
          /\ CommitError(w)
          /\ UNCHANGED conv
       \/ /\ w \notin canceled
          /\ Owns(store, req[w].turn, req[w].attempt)
          /\ Goto(w, "commitSave")
          /\ conv' = [conv EXCEPT ![w] =
                         CompleteTurn(store, req[w].turn, req[w].attempt)]
          /\ UNCHANGED <<active, held, code>>
    /\ UNCHANGED <<store, req, canceled, out, shown, raced>>

(* Complete: save; the deferred Release follows. *)
CompleteSave(w) ==
    /\ pc[w] = "commitSave"
    /\ \/ /\ StoreMayFail(w)
          /\ CommitError(w)
          /\ UNCHANGED store
       \/ /\ w \notin canceled
          /\ store' = conv[w]
          /\ Goto(w, "acked")
          /\ Release(w)
          /\ UNCHANGED code
    /\ UNCHANGED <<req, conv, canceled, out, shown, raced>>

(* The answer is on disk; it is now announced. *)
Acked(w) ==
    LET result == AssistantID(req[w].turn, req[w].attempt)
    IN  /\ pc[w] = "acked"
        /\ \/ /\ ReturnOK(w, <<"message_completed", "done">>)
              /\ shown' = [shown EXCEPT ![w] = result]
           \/ /\ SinkMayFail
              /\ ReturnError(w, <<>>)
              /\ UNCHANGED shown
           \/ /\ SinkMayFail
              /\ ReturnError(w, <<"message_completed">>)
              /\ shown' = [shown EXCEPT ![w] = result]
        /\ UNCHANGED <<store, active, req, held, raced>>

-----------------------------------------------------------------------------
(* The status Fail and Cancel write. *)
FinalStatus(c) == IF c = "canceled" THEN "canceled" ELSE "failed"

(* finishWithoutAssistant loads with a context detached from the request's,
   so only the file system can fail it. *)
FinishLoad(w) ==
    /\ pc[w] = "finish"
    /\ \/ /\ \/ "store" \in Faults
             \/ ~Owns(store, req[w].turn, req[w].attempt)
          /\ Goto(w, "tail")
          /\ Release(w)
          /\ UNCHANGED conv
       \/ /\ Owns(store, req[w].turn, req[w].attempt)
          /\ Goto(w, "finishSave")
          /\ conv' = [conv EXCEPT ![w] =
                         FinishTurn(store, req[w].turn, req[w].attempt,
                                    FinalStatus(code[w]))]
          /\ UNCHANGED <<active, held>>
    /\ UNCHANGED <<store, req, code, canceled, out, shown, raced>>

FinishSave(w) ==
    /\ pc[w] = "finishSave"
    /\ \/ "store" \in Faults /\ UNCHANGED store
       \/ store' = conv[w]
    /\ Goto(w, "tail")
    /\ Release(w)
    /\ UNCHANGED <<req, conv, code, canceled, out, shown, raced>>

(* The outcome event each code announces on its own, before done. *)
Outcome(c) == IF c = "canceled" THEN "canceled" ELSE "error"

(* After Fail or Cancel.  sink_failed and commit_failed return their error at
   once; agent_not_found reports a failure and returns a safe result; the
   others report a failure and return the error as well. *)
AfterFinish(w) ==
    /\ pc[w] = "tail"
    /\ \/ /\ code[w] \in {"sink_failed", "commit_failed"}
          /\ ReturnError(w, <<>>)
       \/ /\ code[w] = "agent_not_found"
          /\ ReturnOK(w, <<"error", "done">>)
       \/ /\ code[w] \in {"agent_failed", "canceled"}
          /\ ReturnError(w, <<Outcome(code[w]), "done">>)
       \/ /\ code[w] \notin {"sink_failed", "commit_failed"}
          /\ SinkMayFail
          /\ \/ ReturnError(w, <<>>)
             \/ ReturnError(w, <<Outcome(code[w])>>)
    /\ UNCHANGED <<store, active, req, held, shown, raced>>

-----------------------------------------------------------------------------
(* The server dies and restarts.  The gate and the requests in flight are
   gone; the document and what clients were told remain. *)
Crash ==
    /\ "crash" \in Faults
    /\ active' = FALSE
    /\ held' = {}
    /\ pc' = [w \in Workers |-> "idle"]
    /\ conv' = [w \in Workers |-> NewConversation]
    /\ code' = [w \in Workers |-> None]
    /\ canceled' = {}
    /\ UNCHANGED <<store, req, out, shown, raced>>

(* The steps a worker takes by itself once it serves a request. *)
Step(w) ==
    \/ Acquire(w) \/ BeginLoad(w) \/ BeginSave(w)
    \/ Replay(w) \/ Route(w) \/ AgentReturn(w)
    \/ CompleteLoad(w) \/ CompleteSave(w) \/ Acked(w)
    \/ FinishLoad(w) \/ FinishSave(w) \/ AfterFinish(w)

Next ==
    \/ \E w \in Workers :
          \/ \E r \in Requests : Arrive(w, r)
          \/ ClientCancel(w)
          \/ AgentPanic(w)
          \/ Step(w)
    \/ Crash

Spec == Init /\ [][Next]_vars

(* A goroutine that can run is run, and a provider call ends (it has a
   timeout); clients and faults are under no obligation. *)
FairSpec == Spec /\ \A w \in Workers : WF_vars(Step(w))

-----------------------------------------------------------------------------
(* Properties.  "raced" names the one way a session meets a write it does not
   expect: Complete fails, releases the gate in its defer, and the Fail that
   Stream calls next loads and saves while another request may begin.  The
   properties below say what holds until that happens; the configurations
   that drop "raced" show what happens after. *)

(* The gate admits one session at a time, and a session that holds it keeps
   it until its own release: a late or repeated Release of another session
   never frees it (TryAcquire, TurnSession.Release with its sync.Once). *)
GateExclusive ==
    /\ held # {} => active
    /\ \A v, w \in held : v = w

(* Where a worker is between Begin's save and the end of its session. *)
InTurn(w) == pc[w] \in {"route", "agent", "commit", "commitSave", "finish", "finishSave"}

(* No lost update: the document a worker is about to save is its own edit of
   the document on disk, and the one it generates from is the one on disk
   (the load/save pairs of Begin, Complete, Fail and Cancel). *)
UpToDate(w) ==
    LET t == req[w].turn
        a == req[w].attempt
    IN  CASE pc[w] = "save" -> conv[w] = BeginTurn(store, req[w])
          [] pc[w] \in {"replay", "route", "agent", "commit"} -> conv[w] = store
          [] pc[w] = "commitSave" -> conv[w] = CompleteTurn(store, t, a)
          [] pc[w] = "finishSave" -> conv[w] = FinishTurn(store, t, a, FinalStatus(code[w]))
          [] OTHER -> TRUE

NoLostUpdate == raced \/ \A w \in Workers : UpToDate(w)

(* A session past Begin finds its turn open and its attempt generating until
   it settles them itself: Complete never meets a missing or settled attempt,
   and Fail never touches a turn that another attempt completed. *)
OwnsAttempt(w) ==
    /\ store.turns[req[w].turn].status = "open"
    /\ store.turns[req[w].turn].attempts[req[w].attempt] = "generating"

SessionOwnsAttempt == raced \/ \A w \in Workers : InTurn(w) => OwnsAttempt(w)

(* The document on disk is a consistent one (Transcript) after every step:
   retries, replays, cancellations, panics and restarts add no message that
   the ledger does not account for (Begin, Complete). *)
TranscriptMatchesLedger == raced \/ Transcript(store)

(* An answer a client was told is complete is on disk and stays there, across
   later requests, retries, replays and restarts, and every client that asks
   for the turn is told the same answer (Complete before message_completed,
   the replay branch). *)
Durable(w) ==
    shown[w] # None =>
        /\ store.turns[req[w].turn].status = "completed"
        /\ store.turns[req[w].turn].result = shown[w]

AnnouncedIsDurable == raced \/ \A w \in Workers : Durable(w)

(* The model is shown only what was settled: while a session generates, each
   message of its projected transcript belongs to its own turn or to a turn
   that is completed, never to one that failed, was canceled, or was left
   open by a crash or a panic (projectConversation).  It assumes that clients
   do not reuse message IDs. *)
Context(w) == Project(conv[w], req[w].turn)

ContextIsCommitted ==
    raced \/ \A w \in Workers : pc[w] \in {"route", "agent"} =>
        \A i \in Context(w) :
            LET t == conv[w].messages[i].turn
            IN  t = req[w].turn \/ store.turns[t].status = "completed"

Ledger == INSTANCE TurnLedger WITH
              status <- [t \in TurnIDs |-> store.turns[t].status],
              result <- [t \in TurnIDs |-> store.turns[t].result],
              transcript <- store.messages

(* Until the race, the document evolves as TurnLedger says: in particular no
   step changes a completed turn or rewrites the transcript. *)
ImplementsLedger == Ledger!Init /\ [][raced' \/ Ledger!Next]_(Ledger!ledger)

(* Every request that is served is answered: its response ends with done,
   whatever the agent, the store, the sink or the client does. *)
Answered(w) == pc[w] = "idle" /\ out[w] # <<>> /\ out[w][Len(out[w])] = "done"

EveryRequestAnswered == \A w \in Workers : pc[w] = "begin" ~> Answered(w)
=============================================================================
