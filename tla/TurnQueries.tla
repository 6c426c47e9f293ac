------------------------------ MODULE TurnQueries ------------------------------
(* What a turn sends to the model and what it shows, on any input: the window  *)
(* of a transcript that fits a budget, and the events a face is driven by.     *)
EXTENDS ModelWindow, Experience, AlgorithmInput

CONSTANTS
  Messages,      \* of a transcript
  Estimate,      \* the token estimate of each message
  Budgets,       \* of the window
  MaxMessages,   \* of a transcript
  Topics,        \* the keywords a rule router knows
  Replies,       \* of a model router
  Rosters,       \* of registered agents
  Runs,          \* of agents
  Faces          \* an avatar with its manifest, and a voice

ASSUME WindowAssumption == Estimate \in [Messages -> Nat] /\ Budgets \subseteq Int

(* An agent that has answered has not streamed what its answer does not say.   *)
IsRun(run) ==
  /\ run.start \in {"refused", "not_begun", "begun"}
  /\ IsSequence(run.result) /\ IsSequence(run.deltas)
  /\ run.outcome \in {"ok", "canceled", "failed", "panicked"} /\ run.committed \in BOOLEAN
  /\ run.outcome = "ok" /\ run.result = << >> => Range(run.deltas) \subseteq {<< >>}

ASSUME RunsAssumption == \A run \in Runs : IsRun(run)

-----------------------------------------------------------------------------
(* The model window *)

TakeTranscript ==
  /\ Choosing({"window"})
  /\ \E b \in Budgets : Take("window", [messages |-> << >>, budget |-> b])

AddMessage ==
  /\ algorithm = "window"
  /\ Len(input.messages) < MaxMessages
  /\ \E m \in Messages : input' = [input EXCEPT !.messages = Append(@, m)]
  /\ UNCHANGED algorithm

(* The loop of selectRecentTurns keeps exactly the longest suffix of whole
   turns that fits, and a trailing user message in any case. *)
WindowIsLongestSuffix ==
  algorithm = "window" =>
    LET others == CollectNonSystemMessages(input.messages)
    IN  Window(input.messages, Estimate, input.budget)
          = CollectSystemMessages(input.messages) \o LongestSuffix(others, Estimate, input.budget)

-----------------------------------------------------------------------------
(* The experience of a turn *)

ShowTurn ==
  /\ Choosing({"turn"})
  /\ \E replay \in BOOLEAN, topics \in SUBSET Topics, reply \in Replies,
        roster \in Rosters, run \in Runs, face \in Faces :
       Take("turn", [turn |-> [replay |-> replay, topics |-> topics, reply |-> reply, run |-> run],
                     agents |-> roster, face |-> face])

Solid(text) == Only(text, Range(text) \ {Blank})

Said(caption) ==
  LET said[n \in 0..Len(caption)] == IF n = 0 THEN << >> ELSE said[n - 1] \o Solid(caption[n].text)
  IN  said[Len(caption)]

(* What a turn comes to: "hanging" when it is refused or does not begin, the
   commit fails or the answer has nothing to say. *)
Outcome(turn, ran) ==
  CASE turn.run.start # "begun" -> "hanging"
    [] turn.run.start = "begun" /\ ~turn.replay /\ ~ran -> "failed"
    [] turn.run.start = "begun" /\ ~turn.replay /\ ran /\ turn.run.outcome # "ok" -> turn.run.outcome
    [] OTHER -> IF (turn.replay \/ turn.run.committed) /\ Solid(turn.run.result) # << >>
                THEN "completed" ELSE "hanging"

Places(events, name) == {i \in DOMAIN events : events[i].name = name}

LastOf(events, name) == events[Max(Places(events, name))].value

(* The pose a face rests in, by what the turn comes to. *)
Rest == [completed |-> "idle", canceled |-> "interrupted", failed |-> "error"]

Shows(machine, pose) == IF pose \in machine.supported THEN pose ELSE machine.fallback

(* The response ends with a done, which says "completed" of an answer and "failed"
   of all else; an agent that panics cuts it off before. *)
EndsWithDone(response, ending) ==
  IF ending = "panicked" THEN Places(response, "done") = {}
  ELSE /\ Places(response, "done") # {}
       /\ Max(Places(response, "done")) >= Len(response) - 1
       /\ LastOf(response, "done") = (IF ending = "completed" THEN ending ELSE "failed")

(* The face rests in the pose of the ending; of a turn that is left hanging it is
   told nothing, and goes on thinking or speaking. *)
FaceRests(response, ending, machine) ==
  IF ending \in DOMAIN Rest THEN LastOf(response, "avatar_state") = Shows(machine, Rest[ending])
  ELSE {response[i].value : i \in Places(response, "avatar_state")}
         \subseteq {Shows(machine, "thinking"), Shows(machine, "speaking")}

(* The last caption has every word, without gaps, and is what a spoken question
   is answered with. *)
Captioned(response, turn, spoken) ==
  LET caption == LastOf(response, "subtitle")
  IN  /\ Said(caption) = Solid(turn.run.result)
      /\ \A i \in 2..Len(caption) : caption[i].start = caption[i - 1].end
      /\ ~turn.replay => {e.value : e \in {x \in ToSet(spoken) : x.name = "subtitle"}} = {caption}

Settled(turn, agents, machine, ending, response, spoken) ==
  /\ (\A intent \in Intents : \E i \in DOMAIN agents : agents[i].handles = intent) =>
       Finders(agents, RouteOf(turn)) # {}
  /\ EndsWithDone(response, ending)
  /\ FaceRests(response, ending, machine)
  /\ ending = "completed" => Captioned(response, turn, spoken)

(* However a turn is routed, starts and ends, the whole response to it, with what
   the handler adds to a stream that errs, says how: unless the agent panics it
   ends with a done, completed exactly for an answer, new or replayed, that has
   something to say and is committed; such an answer is captioned word for word
   without overlaps, and spoken as it is streamed; the face rests in the pose of
   the ending, except after a panic and of a turn that is left hanging; and with an
   agent for each intent no question is left without one (HybridRouter.Route,
   AgentRegistry.Find, Stream, AdapterStreamSink.Emit, handleExperienceStream,
   Handle, Adapt). *)
TurnsEndSettled ==
  algorithm = "turn" =>
    Settled(input.turn, input.agents, input.face.machine,
            Outcome(input.turn, Finders(input.agents, RouteOf(input.turn)) # {}),
            Response(input.turn, input.agents, input.face),
            Speak(input.turn, input.agents, input.face))

TurnQuestions ==
  Choosing({"window", "turn"}) /\ [][TakeTranscript \/ AddMessage \/ ShowTurn]_called
=============================================================================
