------------------------------- MODULE Experience -------------------------------
(* From a question to the events a face is driven by: the routers and the agent *)
(* registry (internal/router, internal/core), the events Stream emits for a turn *)
(* (internal/runtime), and the poses, text and captions the presentation makes  *)
(* of them (internal/presentation, internal/avatar).  Pure functions of a turn. *)
(*                                                                              *)
(* A turn says whether it is a replay, the topics its question's keywords       *)
(* belong to, what a model router would reply, and its run: how it started       *)
(* ("refused" when the request is invalid or canceled already, "not_begun" when  *)
(* its turn cannot begin), the agent's deltas and result, how the agent ended    *)
(* and whether the commit succeeded.  A text is a sequence of words, Blank and   *)
(* Stop; confidences are in tenths.                                             *)
EXTENDS Integers, Sequences, SequencesExt, FiniteSetsExt

Blank == " "

Stop == "."

-----------------------------------------------------------------------------
(* Routing *)

Intents == {"knowledge_query", "memory_recall", "task_execution", "tool_call",
            "persona_chat", "safety_check"}

(* The first of the topics a question touches decides. *)
Rules == <<[topic |-> "knowledge", intent |-> "knowledge_query"],
           [topic |-> "memory",    intent |-> "memory_recall"],
           [topic |-> "task",      intent |-> "task_execution"],
           [topic |-> "tool",      intent |-> "tool_call"],
           [topic |-> "safety",    intent |-> "safety_check"]>>

Intent(name, confidence) == [name |-> name, confidence |-> confidence]

FallbackIntent == Intent("persona_chat", 3)

RuleRoute(topics) ==
  LET hits == {i \in DOMAIN Rules : Rules[i].topic \in topics}
  IN  IF hits = {} THEN Intent("persona_chat", 8) ELSE Intent(Rules[Min(hits)].intent, 9)

(* A reply's kind is "no_client", "failed", "malformed" or "intent". *)
LLMRoute(reply) ==
  CASE reply.kind # "intent" -> FallbackIntent
    [] reply.kind = "intent" /\ reply.confidence \notin 5..10 -> Intent("persona_chat", reply.confidence)
    [] OTHER -> IF reply.name \in Intents THEN Intent(reply.name, reply.confidence) ELSE FallbackIntent

(* Both routers' sure persona answers only stand when no other intent does.    *)
(* The reply's kind is "no_router" when there is no model router.              *)
HybridRoute(topics, reply) ==
  LET ruled    == RuleRoute(topics)
      modelled == LLMRoute(reply)
      Decides(intent) == intent.confidence >= 5 /\ intent.name # "persona_chat"
  IN  CASE Decides(ruled) -> ruled
        [] ~Decides(ruled) /\ reply.kind # "no_router" /\ Decides(modelled) -> modelled
        [] OTHER -> ruled

RouteOf(turn) ==
  LET intent == HybridRoute(turn.topics, turn.reply)
  IN  IF intent.confidence \in 0..4 THEN FallbackIntent ELSE intent

(* The registry: a sequence of agents in the order of their names.  Register   *)
(* refuses a name that is taken.                                               *)
Register(agents, agent) ==
  IF agent.name = "" \/ \E i \in DOMAIN agents : agents[i].name = agent.name
  THEN agents ELSE Append(agents, agent)

Finders(agents, intent) == {i \in DOMAIN agents : agents[i].handles = intent.name}

-----------------------------------------------------------------------------
(* The events of Stream                                                        *)

Event(name, value) == [name |-> name, value |-> value]

NoContent == <<>>

Deltas(agent, run) ==
  IF agent.streams THEN [i \in DOMAIN run.deltas |-> Event("assistant_delta", run.deltas[i])]
  ELSE << >>

(* After a commit that fails, or a panic, nothing more is sent. *)
Ending(run) ==
  CASE run.outcome = "canceled" -> <<Event("canceled", NoContent), Event("done", "canceled")>>
    [] run.outcome = "failed"   -> <<Event("error", NoContent), Event("done", "failed")>>
    [] run.outcome = "ok" /\ run.committed ->
         <<Event("message_completed", run.result), Event("done", "completed")>>
    [] OTHER -> << >>

StreamEvents(turn, agents) ==
  LET intent  == RouteOf(turn)
      finders == Finders(agents, intent)
      start   == turn.run.start
      started == <<Event("request_started", NoContent)>>
      routed  == started \o <<Event("route_selected", intent.name)>>
  IN  CASE start = "refused" -> << >>
        [] start = "not_begun" -> started
        [] start = "begun" /\ turn.replay ->
             started \o <<Event("message_completed", turn.run.result), Event("done", "completed")>>
        [] start = "begun" /\ ~turn.replay /\ finders = {} ->
             routed \o <<Event("error", NoContent), Event("done", "failed")>>
        [] OTHER ->
             LET agent == agents[Min(finders)]
             IN  routed \o <<Event("agent_selected", agent.name)>>
                   \o Deltas(agent, turn.run) \o Ending(turn.run)

(* Stream returns an error, also for an ending it has sent.  A panic it does not *)
(* recover: the connection breaks off.                                          *)
StreamErrs(turn, agents) ==
  \/ turn.run.start # "begun"
  \/ /\ ~turn.replay /\ Finders(agents, RouteOf(turn)) # {}
     /\ \/ turn.run.outcome \in {"canceled", "failed"}
        \/ turn.run.outcome = "ok" /\ ~turn.run.committed

-----------------------------------------------------------------------------
(* The avatar *)

Poses == {"idle", "listening", "thinking", "speaking", "error", "interrupted"}

ValidManifest(machine) == machine.supported # {} /\ machine.fallback \in machine.supported

PoseFor ==
  [runtime_thinking |-> "thinking", assistant_speaking |-> "speaking", runtime_error |-> "error",
   interrupted |-> "interrupted", done |-> "idle", user_input |-> "listening"]

NextPose(machine, signal) ==
  IF PoseFor[signal] \in machine.supported THEN PoseFor[signal] ELSE machine.fallback

-----------------------------------------------------------------------------
(* Captions: sentences one after the other, at 350 ms a word and 700 ms at     *)
(* least.                                                                      *)

TrimText(text) ==
  LET solid == {i \in DOMAIN text : text[i] # Blank}
  IN  IF solid = {} THEN << >> ELSE SubSeq(text, Min(solid), Max(solid))

WithSegment(segments, s) == IF TrimText(s) = << >> THEN segments ELSE Append(segments, TrimText(s))

SplitSubtitleText(text) ==
  LET t == TrimText(text)
      split[n \in 0..Len(t)] ==
        IF n = 0 THEN [segments |-> << >>, rest |-> << >>]
        ELSE LET before == split[n - 1]
                 rest   == Append(before.rest, t[n])
             IN  IF t[n] = Stop THEN [segments |-> WithSegment(before.segments, rest), rest |-> << >>]
                 ELSE [segments |-> before.segments, rest |-> rest]
  IN  WithSegment(split[Len(t)].segments, split[Len(t)].rest)

WordsOf(segment) ==
  Cardinality({i \in DOMAIN segment : segment[i] # Blank /\ (i = 1 \/ segment[i - 1] = Blank)})

SpeechDuration(segment) == IF WordsOf(segment) < 2 THEN 2 ELSE WordsOf(segment)

SpeechTimeline(text) ==
  LET segments == SplitSubtitleText(text)
      cursor[n \in 0..Len(segments)] == IF n = 0 THEN 0 ELSE cursor[n - 1] + SpeechDuration(segments[n])
  IN  [n \in DOMAIN segments |-> [text |-> segments[n], start |-> cursor[n - 1], end |-> cursor[n]]]

-----------------------------------------------------------------------------
(* The presentation of a stream.  face is the machine and the voice: "none",   *)
(* "ok" or "failing".  A state holds the events out, the text shown so far,    *)
(* whether a pose spoke, and whether the sink returned an error.               *)

Silence == [out |-> << >>, text |-> << >>, spoke |-> FALSE, broken |-> FALSE]

Show(state, name, value) ==
  [state EXCEPT !.out = Append(@, [name |-> name, value |-> value, sequence |-> Len(@) + 1])]

Pose(state, face, signal) == Show(state, "avatar_state", NextPose(face.machine, signal))

ShowDelta(state, face, text) ==
  LET shown == [Show(state, "assistant_text_delta", text) EXCEPT !.text = @ \o text]
  IN  IF state.spoke THEN shown
      ELSE [Pose(shown, face, "assistant_speaking") EXCEPT !.spoke = TRUE]

SpokenTextFromDeltas(state, content) ==   \* mutant: a result that was not streamed is not said
  state.text
SpokenText(state, content) == IF content = << >> THEN state.text ELSE content

ShowCompletion(state, face, content) ==
  LET text      == SpokenText(state, content)
      subtitled == Show(state, "subtitle", SpeechTimeline(text))
  IN  CASE SplitSubtitleText(text) = << >> -> [state EXCEPT !.broken = TRUE]
        [] SplitSubtitleText(text) # << >> /\ face.voice = "failing" -> Show(subtitled, "error", NoContent)
        [] OTHER -> IF face.voice = "none" THEN subtitled ELSE Show(subtitled, "audio_chunk", text)

ShowDone(state, face, status) ==
  LET done == Show(state, "done", status)
  IN  IF status = "completed" THEN Pose(done, face, "done") ELSE done

Present(state, event, face) ==
  CASE state.broken -> state
    [] ~state.broken /\ event.name = "request_started" ->
         Pose(Show(state, "conversation_started", NoContent), face, "runtime_thinking")
    [] ~state.broken /\ event.name = "assistant_delta" -> ShowDelta(state, face, event.value)
    [] ~state.broken /\ event.name = "message_completed" -> ShowCompletion(state, face, event.value)
    [] ~state.broken /\ event.name = "canceled" ->
         Pose(Show(state, "interrupted", NoContent), face, "interrupted")
    [] ~state.broken /\ event.name = "error" -> Pose(Show(state, "error", NoContent), face, "runtime_error")
    [] ~state.broken /\ event.name = "done" -> ShowDone(state, face, event.value)
    [] OTHER -> state

(* handleExperienceStream: raw error and done events, without a number, end a   *)
(* stream that erred, whatever it has shown.                                    *)
Response(turn, agents, face) ==
  LET events == StreamEvents(turn, agents)
      after[n \in 0..Len(events)] == IF n = 0 THEN Silence ELSE Present(after[n - 1], events[n], face)
      shown == after[Len(events)]
      raw(name, value) == [name |-> name, value |-> value, sequence |-> 0]
  IN  IF shown.broken \/ StreamErrs(turn, agents)
      THEN shown.out \o <<raw("error", NoContent), raw("done", "failed")>>
      ELSE shown.out

-----------------------------------------------------------------------------
(* The synchronous path of a spoken question, which knows no turns: Handle has  *)
(* a result unless the request is refused or the agent panics (recovered here), *)
(* and Adapt shows it in one piece, unless there is nothing to say.             *)

SafeResult == <<"recovered", Stop>>

Handled(result) == [err |-> FALSE, result |-> result]

HandleErr == [err |-> TRUE, result |-> << >>]

Handle(turn, agents) ==
  LET found == Finders(agents, RouteOf(turn)) # {}
      run   == turn.run
  IN  CASE run.start = "refused" -> HandleErr
        [] run.start # "refused" /\ found /\ run.outcome = "panicked" -> HandleErr
        [] run.start # "refused" /\ found /\ run.outcome = "ok" -> Handled(run.result)
        [] OTHER -> Handled(SafeResult)

Adapt(result, face) ==
  LET voiced   == CASE face.voice = "none" -> << >>
                    [] face.voice = "ok"   -> <<Event("audio_chunk", result)>>
                    [] OTHER               -> <<Event("error", NoContent)>>
  IN  IF SplitSubtitleText(result) = << >> THEN << >>
      ELSE <<Event("conversation_started", NoContent), Event("assistant_text_delta", result),
             Event("subtitle", SpeechTimeline(result))>>
           \o voiced
           \o <<Event("avatar_state", NextPose(face.machine, "assistant_speaking")),
                Event("done", "ok")>>

(* An error of either is answered in place of the events. *)
Speak(turn, agents, face) ==
  LET handled == Handle(turn, agents)
  IN  IF handled.err THEN << >> ELSE Adapt(handled.result, face)
=============================================================================
