---------------------------- MODULE PersonaStream ----------------------------
(***************************************************************************)
(* One streamed answer of the persona agent: the provider's stream           *)
(* (OpenAIClient.Stream, internal/llm/openai.go), the stream guard that       *)
(* decides which text may be shown (internal/persona), and the agent that     *)
(* shows it and ends with a generated answer, a fallback or an error          *)
(* (PersonaAgent.Stream, internal/agents/experts.go).                         *)
(*                                                                          *)
(* Text is a sequence of characters.  A claim is given in normalized form:    *)
(* lower case, words separated by single blanks.  Of the characters only      *)
(* these matter: sentence ends, blanks (a line feed is both), and the word    *)
(* "may", one character here, that stands for the markers of uncertainty.     *)
(***************************************************************************)
EXTENDS Naturals, SequencesExt

CONSTANTS
    Characters,       \* of a text
    Chunks,           \* pieces of text the provider may send
    Claims,           \* the persona's forbidden claims, normalized
    PendingLimit,     \* streamGuardPendingLimit
    CandidateLimit    \* streamGuardCandidateLimit

ASSUME PersonaAssumption ==
    /\ " " \in Characters
    /\ Chunks \subseteq Seq(Characters) /\ Claims \subseteq Seq(Characters)
    /\ PendingLimit \in Nat /\ CandidateLimit \in Nat

(* A normalized claim has no blank at its ends; one without a word forbids all. *)
ASSUME ClaimsAssumption ==
    \A claim \in Claims : claim = <<>> \/ {Head(claim), Last(claim)} \cap {" ", "\n"} = {}

VARIABLES
    guard,            \* the StreamGuard
    lowConfidence,    \* the intent's confidence is below 0.5
    failClosed,       \* the fallback policy is fail_closed
    sawContent,       \* the provider sent something that is not blank
    accepted,         \* the text the agent will return
    shown,            \* the text that reached the user
    result            \* "none" while streaming, then how Stream returned

vars == <<guard, lowConfidence, failClosed, sawContent, accepted, shown, result>>

-----------------------------------------------------------------------------
(* persona.Guard *)

IsBlank(c) == c \in {" ", "\n"}

IsInk(c) == ~IsBlank(c)

(* strings.TrimSpace(text) == "" *)
Blank(text) == \A i \in DOMAIN text : IsBlank(text[i])

(* normalizeText: runs of blanks become one blank, outer ones disappear. *)
Squeeze(before, c) ==
    IF IsInk(c) THEN Append(before, c)
    ELSE IF before = <<>> \/ Last(before) = " " THEN before
    ELSE Append(before, " ")

Squeezed(text) ==
    LET upTo[i \in 0..Len(text)] == IF i = 0 THEN <<>> ELSE Squeeze(upTo[i - 1], text[i])
    IN  upTo[Len(text)]

Normalize(text) ==
    LET all == Squeezed(text)
    IN  IF all # <<>> /\ Last(all) = " " THEN Front(all) ELSE all

(* strings.Contains *)
Holds(text, part) ==
    \E i \in 0..(Len(text) - Len(part)) : SubSeq(text, i + 1, i + Len(part)) = part

Forbidden(text) == \E claim \in Claims : Holds(Normalize(text), claim)

ContainsUncertainty(text) == Contains(text, "may")

(* Guard.Check, with the confidence as a truth value. *)
Allowed(text, low) == ~Forbidden(text) /\ (low => ContainsUncertainty(text))

-----------------------------------------------------------------------------
(* persona.StreamGuard *)

NewGuard(low) ==
    [pending |-> <<>>, complete |-> <<>>, fullBuffer |-> low, visible |-> FALSE]

(* lastSentenceBoundary: 0 when there is none. *)
LastSentenceBoundary(text) ==
    CHOOSE i \in 0..Len(text) :
        /\ i = 0 \/ text[i] \in {".", "\n"}
        /\ \A j \in (i + 1)..Len(text) : text[j] \notin {".", "\n"}

Verdict(g, segment, allowed) == [guard |-> g, segment |-> segment, allowed |-> allowed]

(* The part of the pending text up to "end" is released. *)
ReleaseKeepsPending(g, end) ==   \* mutant: released text stays pending
    LET segment == SubSeq(g.pending, 1, end)
    IN  Verdict([g EXCEPT !.visible = @ \/ ~Blank(segment)], segment, TRUE)

ReleaseText(g, end) ==
    LET segment == SubSeq(g.pending, 1, end)
    IN  Verdict([g EXCEPT !.pending = SubSeq(@, end + 1, Len(@)),
                          !.visible = @ \/ ~Blank(segment)],
                segment, TRUE)

AddChecksChunk(g, chunk) ==   \* mutant: only the new chunk is checked
    LET taken == [g EXCEPT !.pending = @ \o chunk, !.complete = @ \o chunk]
    IN  IF Forbidden(chunk)
        THEN Verdict(taken, <<>>, FALSE)
        ELSE ReleaseText(taken, LastSentenceBoundary(taken.pending))

Add(g, chunk) ==
    LET taken == [g EXCEPT !.pending = @ \o chunk, !.complete = @ \o chunk]
    IN  IF chunk = <<>> THEN Verdict(g, <<>>, TRUE)
        ELSE IF Len(taken.complete) > CandidateLimit THEN Verdict(taken, <<>>, FALSE)
        ELSE IF g.fullBuffer THEN Verdict(taken, <<>>, TRUE)
        ELSE IF ~Allowed(taken.pending, FALSE) THEN Verdict(taken, <<>>, FALSE)
        ELSE IF Len(taken.pending) > PendingLimit
             THEN Verdict([taken EXCEPT !.fullBuffer = TRUE], <<>>, TRUE)
        ELSE ReleaseText(taken, LastSentenceBoundary(taken.pending))

(* Finalize checks the whole text and releases what is pending. *)
FinalizePending(g, low) ==   \* mutant: only what was not released is checked
    IF Allowed(g.pending, low) THEN ReleaseText(g, Len(g.pending))
    ELSE Verdict(g, <<>>, FALSE)

Finalize(g, low) ==
    IF Allowed(g.complete, low) THEN ReleaseText(g, Len(g.pending))
    ELSE Verdict(g, <<>>, FALSE)

-----------------------------------------------------------------------------
(* PersonaAgent.Stream *)

Init ==
    /\ lowConfidence \in BOOLEAN
    /\ failClosed \in BOOLEAN
    /\ guard = NewGuard(lowConfidence)
    /\ sawContent = FALSE
    /\ accepted = <<>>
    /\ shown = <<>>
    /\ result = "none"

(* The stream failed or was rejected, and not by cancellation: a fallback
   only under the policy that allows it, and never after visible text. *)
FailedAnyway(g) == "fallback"   \* mutant: a fallback whatever was shown

Failed(g) == IF failClosed \/ g.visible THEN "error" ELSE "fallback"

(* emitAssistantDelta succeeds; a blank segment is neither shown nor kept. *)
Show(segment) ==
    IF Blank(segment)
    THEN UNCHANGED <<accepted, shown>>
    ELSE accepted' = accepted \o segment /\ shown' = shown \o segment

(* The sink refuses a segment, which may have reached the user. *)
ShowFails(segment) ==
    /\ ~Blank(segment)
    /\ shown' \in {shown, shown \o segment}
    /\ UNCHANGED accepted

(* The provider sends a chunk of content. *)
Receive(chunk) ==
    LET verdict == Add(guard, chunk)
    IN  /\ result = "none"
        /\ guard' = verdict.guard
        /\ sawContent' = (sawContent \/ ~Blank(chunk))
        /\ \/ /\ verdict.allowed
              /\ Show(verdict.segment)
              /\ UNCHANGED result
           \/ /\ verdict.allowed
              /\ ShowFails(verdict.segment)
              /\ result' = Failed(verdict.guard)
           \/ /\ ~verdict.allowed
              /\ result' = Failed(verdict.guard)
              /\ UNCHANGED <<accepted, shown>>
        /\ UNCHANGED <<lowConfidence, failClosed>>

(* The stream ends without the completion marker: a network error, a chunk
   that cannot be decoded, a truncated stream; or with the marker but without
   content. *)
BreakOff ==
    /\ result = "none"
    /\ result' = Failed(guard)
    /\ UNCHANGED <<guard, lowConfidence, failClosed, sawContent, accepted, shown>>

(* The request is canceled or its deadline passes. *)
Cancel ==
    /\ result = "none"
    /\ result' = "error"
    /\ UNCHANGED <<guard, lowConfidence, failClosed, sawContent, accepted, shown>>

(* The completion marker after content: the final check, then the rest of the
   text.  A rejection falls back even under fail_closed. *)
Finish ==
    LET verdict == Finalize(guard, lowConfidence)
    IN  /\ result = "none" /\ sawContent
        /\ guard' = verdict.guard
        /\ \/ /\ verdict.allowed
              /\ Show(verdict.segment)
              /\ result' = IF Blank(accepted') THEN "fallback" ELSE "generated"
           \/ /\ verdict.allowed
              /\ ShowFails(verdict.segment)
              /\ result' = "error"
           \/ /\ ~verdict.allowed
              /\ result' = IF guard.visible THEN "error" ELSE "fallback"
              /\ UNCHANGED <<accepted, shown>>
        /\ UNCHANGED <<lowConfidence, failClosed, sawContent>>

Next == (\E chunk \in Chunks : Receive(chunk)) \/ BreakOff \/ Cancel \/ Finish

Spec == Init /\ [][Next]_vars

-----------------------------------------------------------------------------
(* Properties. *)

(* What the provider wrote is what the user gets: while the stream goes on,
   the shown text followed by the pending text is the provider's text, except
   for blank segments, and a generated answer is all of it (Add, Finalize,
   emitAssistantDelta). *)
KeepInk(before, c) == IF IsInk(c) THEN Append(before, c) ELSE before

Ink(text) ==
    LET upTo[i \in 0..Len(text)] == IF i = 0 THEN <<>> ELSE KeepInk(upTo[i - 1], text[i])
    IN  upTo[Len(text)]

NoTextLost ==
    /\ result = "none" => Ink(guard.complete) = Ink(shown) \o Ink(guard.pending)
    /\ result = "generated" => Ink(guard.complete) = Ink(shown)

(* A committed answer is what the user saw: a generated answer is exactly the
   shown text, and a fallback is returned only if nothing was shown, whatever
   failed and whenever (HasVisibleOutput). *)
CommittedIsShown ==
    /\ result = "generated" => accepted = shown /\ ~Blank(shown)
    /\ result = "fallback" => shown = <<>>

(* A claim that is one unbroken word never reaches the user, however the
   provider cuts it into chunks (the pending text of StreamGuard.Add). *)
Unbroken(claim) == claim # <<>> /\ \A i \in DOMAIN claim : claim[i] \notin {" ", ".", "\n"}

WordClaimsNeverShown ==
    \A claim \in Claims : Unbroken(claim) => ~Holds(Normalize(shown), claim)

(* A generated answer holds no forbidden claim at all, also none that was cut at a
   line end (Finalize checks the complete text), unless the claim itself goes on
   after a sentence end: the blank text after one is checked but not shown. *)
OneSentence(claim) == \A i \in DOMAIN claim : claim[i] # "."

GeneratedIsClean ==
    result = "generated" =>
        /\ \A claim \in Claims : OneSentence(claim) => ~Holds(Normalize(shown), claim)
        /\ lowConfidence => ContainsUncertainty(shown)
=============================================================================
