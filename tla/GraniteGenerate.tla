--------------------------- MODULE GraniteGenerate ---------------------------
(***************************************************************************)
(* granite-llm-server/app/main.py and runtime_state.py: the /generate      *)
(* handler, the two streaming response bodies and the counter of running   *)
(* inferences, on top of the admission queue of InferenceQueue.            *)
(*                                                                         *)
(* Each request has a thread of the WSGI server, which runs the handler,   *)
(* then iterates the response body and calls its close(); `pc` is where    *)
(* that thread stands.  A thread stops at a yield of a body until the      *)
(* server asks for more, or finds the client gone and closes the body.     *)
(***************************************************************************)
EXTENDS InferenceQueue

CONSTANTS
    Streaming,   \* the requests that ask for a stream
    Heartbeat    \* QUEUE_HEARTBEAT_SECONDS, in ticks of the clock

ASSUME StreamingAssumption == Streaming \subseteq Tickets /\ Heartbeat \in Nat \ {0}

VARIABLES
    pc,          \* where each request's thread stands
    body,        \* the streaming body that answers the request, if any
    started,     \* QueuedGraniteStreamBody.inference_started
    upstream,    \* whether the request has an Ollama call open
    closed,      \* the body's closed flag
    inferences   \* runtime_state._active_inference_requests

queueVars == <<clock, queue, call>>
handlerVars == <<pc, body, started, upstream, closed, inferences>>
allVars == <<queueVars, handlerVars>>

\* "yielding" and "erring" are the yields of a queued body before admission
\* and of its last error event; "finished" is after the first close().
Places == {"new", "asked", "asking", "begin", "calling", "opening", "streaming",
           "yielding", "polling", "erring", "closing", "cancelling", "ending",
           "releasing", "finished", "done"}

GenerateInit ==
    /\ Init
    /\ pc = [t \in Tickets |-> "new"]
    /\ body = [t \in Tickets |-> "none"]
    /\ started = [t \in Tickets |-> FALSE]
    /\ upstream = [t \in Tickets |-> FALSE]
    /\ closed = [t \in Tickets |-> FALSE]
    /\ inferences = 0

Goto(t, place) == pc' = [pc EXCEPT ![t] = place]

-----------------------------------------------------------------------------
(***************************************************************************)
(* Admission.                                                              *)
(***************************************************************************)
Arrive(t) ==
    /\ pc[t] = "new"
    /\ RequestSlot(t)
    /\ Goto(t, "asked")
    /\ UNCHANGED <<body, started, upstream, closed, inferences>>

\* What the handler does with the result of its only wait(): a stream that
\* must wait gets a QueuedGraniteStreamBody, anything else not admitted a 503.
AfterFirstWait(t, status) ==
    CASE status = "admitted"                       -> "begin"
      [] status = "waiting" /\ t \in Streaming     -> "yielding"
      [] OTHER                                     -> "done"

\* What a queued body does with the result of a poll.
AfterPoll(status) ==
    CASE status = "admitted" -> "begin"
      [] status = "waiting"  -> "yielding"
      [] OTHER               -> "erring"

\* The thread of t goes where the result of its wait() sends it, or parks.
Waited(t, parkedAt, decided) ==
    IF call'[t].parked
    THEN Goto(t, parkedAt) /\ UNCHANGED body
    ELSE /\ Goto(t, decided)
         /\ body' = [body EXCEPT ![t] = IF decided = "yielding" THEN "queued" ELSE @]

\* ticket.wait(poll_seconds=0) for a stream, ticket.wait() otherwise.
Ask(t) ==
    /\ pc[t] = "asked"
    /\ Wait(t, IF t \in Streaming THEN 0 ELSE Forever)
    /\ Waited(t, "asking", AfterFirstWait(t, queue'.status[t]))
    /\ UNCHANGED <<started, upstream, closed, inferences>>

\* The server asks a queued body for its next item: it polls the ticket.
Poll(t) ==
    /\ pc[t] = "yielding"
    /\ Wait(t, Heartbeat)
    /\ Waited(t, "polling", AfterPoll(queue'.status[t]))
    /\ UNCHANGED <<started, upstream, closed, inferences>>

\* A parked thread wakes up, in the handler or in a queued body.
Wake(t) ==
    /\ Resume(t)
    /\ \/ pc[t] = "asking" /\ Waited(t, "asking", AfterFirstWait(t, queue'.status[t]))
       \/ pc[t] = "polling" /\ Waited(t, "polling", AfterPoll(queue'.status[t]))
    /\ UNCHANGED <<started, upstream, closed, inferences>>

-----------------------------------------------------------------------------
(***************************************************************************)
(* Inference.                                                              *)
(***************************************************************************)

\* begin_admitted_inference, and the call to Ollama that follows it.
Begin(t) ==
    /\ pc[t] = "begin"
    /\ inferences' = inferences + 1
    /\ started' = [started EXCEPT ![t] = body[t] = "queued"]
    /\ upstream' = [upstream EXCEPT ![t] = TRUE]
    /\ Goto(t, IF t \in Streaming THEN "opening" ELSE "calling")
    /\ UNCHANGED <<queueVars, body, closed>>

\* begin_inference raises: the slot goes back at once.  A queued body reports
\* the error as an event, the handler as a failed response.
BeginFails(t) ==
    /\ pc[t] = "begin"
    /\ Release(t)
    /\ Goto(t, IF body[t] = "queued" THEN "erring" ELSE "done")
    /\ UNCHANGED <<body, started, upstream, closed, inferences>>

\* call_ollama_chat returns or raises; either way end_admitted_inference runs.
CallReturns(t) ==
    /\ pc[t] = "calling"
    /\ upstream' = [upstream EXCEPT ![t] = FALSE]
    /\ Goto(t, "ending")
    /\ UNCHANGED <<queueVars, body, started, closed, inferences>>

\* call_ollama_chat_stream returns the stream that the body will iterate.
Opens(t) ==
    /\ pc[t] = "opening"
    /\ body' = [body EXCEPT ![t] = IF @ = "none" THEN "direct" ELSE @]
    /\ Goto(t, "streaming")
    /\ UNCHANGED <<queueVars, started, upstream, closed, inferences>>

\* call_ollama_chat_stream raises: the handler gives the slot back before it
\* answers, a queued body yields the error first.
OpenFails(t) ==
    /\ pc[t] = "opening"
    /\ upstream' = [upstream EXCEPT ![t] = FALSE]
    /\ Goto(t, IF body[t] = "queued" THEN "erring" ELSE "ending")
    /\ UNCHANGED <<queueVars, body, started, closed, inferences>>

-----------------------------------------------------------------------------
(***************************************************************************)
(* Closing.                                                                *)
(***************************************************************************)

\* The body's generator ends (its finally), or the server closes the body of
\* a client that went away while the generator was suspended at a yield.
Close(t) ==
    /\ pc[t] \in {"streaming", "yielding", "erring"}
    /\ closed' = [closed EXCEPT ![t] = TRUE]
    /\ Goto(t, "closing")
    /\ UNCHANGED <<queueVars, body, started, upstream, inferences>>

\* Mutant of CloseUpstream: the Ollama call of a closed body is left open.
CloseLeavesUpstream(t) ==
    /\ pc[t] = "closing"
    /\ Goto(t, IF body[t] = "direct" \/ started[t] THEN "ending" ELSE "cancelling")
    /\ UNCHANGED <<queueVars, body, started, upstream, closed, inferences>>

\* upstream.close(), whether or not it raises, and the branch after it.
CloseUpstream(t) ==
    /\ pc[t] = "closing"
    /\ upstream' = [upstream EXCEPT ![t] = FALSE]
    /\ Goto(t, IF body[t] = "direct" \/ started[t] THEN "ending" ELSE "cancelling")
    /\ UNCHANGED <<queueVars, body, started, closed, inferences>>

\* end_inference, the first half of end_admitted_inference.
EndInference(t) ==
    /\ pc[t] = "ending"
    /\ inferences' = IF inferences > 0 THEN inferences - 1 ELSE 0
    /\ Goto(t, "releasing")
    /\ UNCHANGED <<queueVars, body, started, upstream, closed>>

\* Mutant of CancelTicket: the ticket is left in line.
CancelTicketSkipped(t) ==
    /\ pc[t] = "cancelling"
    /\ Goto(t, "releasing")
    /\ UNCHANGED <<queueVars, body, started, upstream, closed, inferences>>

\* ticket.cancel() of a queued body that never began.
CancelTicket(t) ==
    /\ pc[t] = "cancelling"
    /\ IF queue.status[t] = "waiting" THEN Cancel(t) ELSE UNCHANGED queueVars
    /\ Goto(t, "releasing")
    /\ UNCHANGED <<body, started, upstream, closed, inferences>>

\* ticket.release(), the last act of every path that may hold a slot.
ReleaseTicket(t) ==
    /\ pc[t] = "releasing"
    /\ IF t \in Holders(queue) THEN Release(t) ELSE UNCHANGED queueVars
    /\ Goto(t, IF body[t] = "none" THEN "done" ELSE "finished")
    /\ UNCHANGED <<body, started, upstream, closed, inferences>>

\* Mutant of CloseAgain: close() does not look at the flag.
CloseAgainUnguarded(t) ==
    /\ pc[t] = "finished"
    /\ Goto(t, "closing")
    /\ UNCHANGED <<queueVars, body, started, upstream, closed, inferences>>

\* close() runs once more: the server closes a body that was exhausted, or the
\* generator of a body that the server closed is collected.
CloseAgain(t) ==
    /\ pc[t] = "finished"
    /\ Goto(t, IF closed[t] THEN "done" ELSE "closing")
    /\ UNCHANGED <<queueVars, body, started, upstream, closed, inferences>>

-----------------------------------------------------------------------------
Thread(t) ==
    \/ Ask(t) \/ Poll(t) \/ Wake(t)
    \/ Begin(t) \/ BeginFails(t) \/ CallReturns(t) \/ Opens(t) \/ OpenFails(t)
    \/ Close(t) \/ CloseUpstream(t) \/ EndInference(t)
    \/ CancelTicket(t) \/ ReleaseTicket(t) \/ CloseAgain(t)

\* The clock, and the snapshots that the telemetry and health routes take.
Surroundings == (Tick \/ Snapshot) /\ UNCHANGED handlerVars

GenerateNext == Surroundings \/ \E t \in Tickets : Arrive(t) \/ Thread(t)

GenerateSpec == GenerateInit /\ [][GenerateNext]_allVars

\* ENABLED <<Thread(t)>>_allVars: only a parked thread cannot go on.
Ready(t) ==
    /\ pc[t] \notin {"new", "done"}
    /\ call[t].parked => MayResume(t)

\* Time passes and every thread makes its next step: Ollama calls are bounded
\* by their read time-out, and a write to a client ends or fails.  The second
\* conjunct is WF_allVars(Thread(t)), with Ready for what is quick to evaluate.
GenerateFairSpec ==
    /\ GenerateSpec
    /\ WF_allVars(Tick /\ UNCHANGED handlerVars)
    /\ \A t \in Tickets : []<><<Thread(t)>>_allVars \/ []<>~Ready(t)

-----------------------------------------------------------------------------
(***************************************************************************)
(* Properties                                                              *)
(***************************************************************************)
RunsInference(t) ==
    \/ pc[t] \in {"calling", "opening", "streaming", "ending"}
    \/ pc[t] \in {"closing", "erring"} /\ (body[t] = "direct" \/ started[t])

\* The handler's variables keep their types; the counter that /hardware reports
\* stays within the configured concurrency.
GenerateTypeOK ==
    /\ pc \in [Tickets -> Places]
    /\ body \in [Tickets -> {"none", "direct", "queued"}]
    /\ started \in [Tickets -> BOOLEAN]
    /\ upstream \in [Tickets -> BOOLEAN]
    /\ closed \in [Tickets -> BOOLEAN]
    /\ inferences \in 0..MaxActive

\* runtime_state counts exactly the requests between begin_inference and
\* end_inference, so its clamp at zero never hides a second end, and each of
\* them has a slot of its own.
InferencesCounted ==
    /\ inferences = Cardinality({t \in Tickets : RunsInference(t)})
    /\ \A t \in Tickets : RunsInference(t) => t \in Holders(queue)

\* What every step of the handler preserves.
GenerateInvariant == QueueInvariant /\ GenerateTypeOK /\ InferencesCounted

\* Ollama never has more calls open than there are slots: a slot is given
\* back only after the call that used it is closed.
OllamaWithinCapacity ==
    /\ \A t \in Tickets : upstream[t] => t \in Holders(queue)
    /\ Cardinality({t \in Tickets : upstream[t]}) <= MaxActive

\* A request that is over holds no slot and no place in the line, by whatever
\* path it ended: answered, failed, closed before, at or after its admission.
NothingLeaks ==
    \A t \in Tickets :
        pc[t] \in {"finished", "done"} =>
            t \notin Holders(queue) /\ queue.status[t] # "waiting"

\* Every request that arrives is answered or abandoned, and then, by
\* NothingLeaks, its slot is free again.
EveryRequestEnds == \A t \in Tickets : pc[t] # "new" ~> pc[t] = "done"

=============================================================================
