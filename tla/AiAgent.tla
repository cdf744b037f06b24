-------------------------------- MODULE AiAgent --------------------------------
(***************************************************************************)
(* AiAgent: the board's assistant.  A round sends the conversation to the  *)
(* model, runs the tools it calls, puts their results into the             *)
(* conversation and asks again, until the model answers in words.          *)
(*                                                                         *)
(* Everything runs on the UI thread; the steps are its events: what the    *)
(* user does, the end of the HTTP request (AiClient) and its timer.  A     *)
(* tool call is known by its key, name and arguments; texts, tool results  *)
(* and what is shown to the user are left out.                             *)
(***************************************************************************)
EXTENDS Naturals, Sequences, FiniteSets

CONSTANTS
    Keys,           \* tool calls the model may make
    MaxCalls,       \* bound: calls in one reply
    MaxIterations,  \* kMaxIterations
    MaxTurns        \* kMaxHistoryTurns

ASSUME LimitsArePositive ==
    MaxCalls \in Nat /\ MaxIterations \in Nat \ {0} /\ MaxTurns \in Nat \ {0}

VARIABLES
    history,    \* history_
    busy,       \* busy_
    cancelled,  \* cancelled_
    iterations, \* iterations_
    calledKeys, \* calledKeys_
    reply,      \* AiClient::reply_: "none", "waiting", or "finished" with the
                \* signal still in the event queue
    ran         \* history: the tools run in this round, each with cancelled_

vars == <<history, busy, cancelled, iterations, calledKeys, reply, ran>>

User == [role |-> "user"]
Assistant(calls) == [role |-> "assistant", calls |-> calls]
Tool(key, done) == [role |-> "tool", key |-> key, done |-> done]

Replies == UNION {[1 .. n -> Keys] : n \in 1 .. MaxCalls}
Messages == {User} \cup {Assistant(s) : s \in Replies}
                   \cup {Tool(k, d) : k \in Keys, d \in BOOLEAN}

TypeOK ==
    /\ history \in Seq(Messages)
    /\ busy \in BOOLEAN /\ cancelled \in BOOLEAN
    /\ iterations \in 0 .. MaxIterations
    /\ calledKeys \in SUBSET Keys
    /\ reply \in {"none", "waiting", "finished"}
    /\ ran \in Seq([key : Keys, late : BOOLEAN])

Init ==
    /\ history = <<>> /\ busy = FALSE /\ cancelled = FALSE
    /\ iterations = 0 /\ calledKeys = {} /\ reply = "none" /\ ran = <<>>
-----------------------------------------------------------------------------
UserAt(h) == {i \in DOMAIN h : h[i].role = "user"}

\* The oldest turns go, each as a whole.  The mutant takes one message for each
\* turn too many.
TrimHistoryShort(h) ==
    IF Cardinality(UserAt(h)) <= MaxTurns THEN h
    ELSE SubSeq(h, Cardinality(UserAt(h)) - MaxTurns + 1, Len(h))
TrimHistory(h) ==
    IF Cardinality(UserAt(h)) <= MaxTurns THEN h
    ELSE LET first == CHOOSE i \in UserAt(h) :
                          Cardinality({j \in UserAt(h) : j >= i}) = MaxTurns
         IN  SubSeq(h, first, Len(h))

\* FinishRound and FinishWithError.
EndRound == busy' = FALSE /\ cancelled' = FALSE /\ iterations' = 0 /\ reply' = "none"

\* A request is posted, or SendChat answers at once that no key is configured.  The
\* mutant forgets to finish the round at the limit.
RequestNextMute(made) ==
    IF made >= MaxIterations THEN reply' = "none" /\ UNCHANGED <<busy, cancelled, iterations>>
    ELSE \/ /\ busy' = TRUE /\ cancelled' = FALSE
            /\ iterations' = made + 1 /\ reply' = "waiting"
         \/ EndRound
RequestNext(made) ==
    IF made >= MaxIterations THEN EndRound
    ELSE \/ /\ busy' = TRUE /\ cancelled' = FALSE
            /\ iterations' = made + 1 /\ reply' = "waiting"
         \/ EndRound

StartRound ==
    /\ ~busy
    /\ history' = TrimHistory(Append(history, User))
    /\ calledKeys' = {} /\ ran' = <<>>
    /\ RequestNext(0)

\* The first call of a reply that was made before in this round, one past the end
\* if there is none.
RepeatAt(calls) ==
    CHOOSE i \in 1 .. Len(calls) + 1 :
        /\ i <= Len(calls) => calls[i] \in calledKeys \/ \E j \in 1 .. i - 1 : calls[j] = calls[i]
        /\ \A j \in 1 .. i - 1 :
              calls[j] \notin calledKeys /\ \A k \in 1 .. j - 1 : calls[k] # calls[j]

\* ExecuteToolCalls: the calls before the repetition are run, the repetition is
\* refused, and what follows it gets no answer.
Results(calls) ==
    [i \in 1 .. IF RepeatAt(calls) > Len(calls) THEN Len(calls) ELSE RepeatAt(calls)
        |-> Tool(calls[i], i < RepeatAt(calls))]
ExecuteToolCalls(calls) ==
    LET new == 1 .. RepeatAt(calls) - 1 IN
    /\ history' = Append(history, Assistant(calls)) \o Results(calls)
    /\ calledKeys' = calledKeys \cup {calls[i] : i \in new}
    /\ ran' = ran \o [i \in new |-> [key |-> calls[i], late |-> cancelled]]

\* OnReply: a cancelled round ends, whatever was answered.  The mutant looks at
\* the answer first.
OnReplyFirst(calls) ==
    /\ ExecuteToolCalls(calls)
    /\ IF RepeatAt(calls) <= Len(calls) \/ cancelled THEN EndRound ELSE RequestNext(iterations)
OnToolCalls(calls) ==
    IF cancelled THEN EndRound /\ UNCHANGED <<history, calledKeys, ran>>
    ELSE /\ ExecuteToolCalls(calls)
         /\ IF RepeatAt(calls) <= Len(calls) THEN EndRound ELSE RequestNext(iterations)

\* OnReply with a text, which is shown and not kept, or with an error.
OnTextOrError == EndRound /\ UNCHANGED <<history, calledKeys, ran>>
-----------------------------------------------------------------------------
(* The events.                                                             *)

\* The answer is complete, or the network gave up; the signal is on its way.
Finished ==
    /\ reply = "waiting"
    /\ reply' = "finished"
    /\ UNCHANGED <<history, busy, cancelled, iterations, calledKeys, ran>>

OnReplyFinished ==
    /\ reply = "finished"
    /\ \/ OnTextOrError
       \/ \E calls \in Replies : OnToolCalls(calls)

\* The timer aborts the request, which finishes it on the spot; a request that
\* has finished is not touched.
Timeout == reply = "waiting" /\ OnTextOrError

\* A request that is on its way is aborted and the round ends here; one that has
\* finished ends the round when its signal is delivered.
Cancel ==
    /\ busy
    /\ IF reply = "finished" THEN cancelled' = TRUE /\ UNCHANGED <<busy, iterations, reply>>
                             ELSE EndRound
    /\ UNCHANGED <<history, calledKeys, ran>>

ClearHistory ==
    /\ ~busy
    /\ history' = <<>>
    /\ UNCHANGED <<busy, cancelled, iterations, calledKeys, reply, ran>>

Next == StartRound \/ Finished \/ OnReplyFinished \/ Timeout \/ Cancel \/ ClearHistory

Spec == Init /\ [][Next]_vars

\* The timer of a request fires, and signals are delivered.
FairSpec == Spec /\ WF_vars(Timeout) /\ WF_vars(OnReplyFinished)
-----------------------------------------------------------------------------
\* Message i answers the call it stands for: only results lie between the two.
StandsWithCall(h, i) ==
    \E j \in 1 .. i - 1 :
        /\ h[j].role = "assistant" /\ i - j \in DOMAIN h[j].calls
        /\ h[i].key = h[j].calls[i - j]
        /\ \A k \in j + 1 .. i : h[k].role = "tool"

\* Each call of message i is answered right after it, in order.
Answered(h, i) ==
    \A j \in DOMAIN h[i].calls :
        i + j \in DOMAIN h /\ h[i + j].role = "tool" /\ h[i + j].key = h[i].calls[j]

Asks(h) == {i \in DOMAIN h : h[i].role = "assistant"}
InRound(h, i) == \A j \in DOMAIN h : j > i => h[j].role # "user"

\* The agent is busy exactly while a request is in flight.  The conversation that
\* request carries begins with the user and has at most MaxTurns turns; whatever
\* was trimmed, no tool result has lost its call; and the calls of this round are
\* all answered (ExecuteToolCalls goes on only if none was refused).
RoundPaired ==
    /\ busy <=> reply # "none"
    /\ busy =>
        /\ Cardinality(UserAt(history)) <= MaxTurns
        /\ history # <<>> /\ history[1] = User
        /\ \A i \in DOMAIN history : history[i].role = "tool" => StandsWithCall(history, i)
        /\ \A i \in Asks(history) : InRound(history, i) => Answered(history, i)

\* Every call of the conversation a request carries is answered, those of earlier
\* rounds included (TrimHistory: assistant(tool_calls) and tool messages stay
\* completely paired).
PairsComplete == busy => \A i \in Asks(history) : Answered(history, i)

\* A tool call is run at most once in a round, and none after the user has
\* cancelled it, though the reply with the call may have arrived before.
ToolsOnce ==
    \A i, j \in DOMAIN ran : ~ran[i].late /\ (ran[i].key = ran[j].key => i = j)

\* Every round ends: the model may go on calling tools or never answer.
RoundEnds == busy ~> ~busy
=============================================================================
