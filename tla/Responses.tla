------------------------------ MODULE Responses ------------------------------
(***************************************************************************)
(* POST /v1/responses of the public API: rocky_api and PublicResponseStream*)
(* of api-rocky/api.py.  One request writes to three stores in turn: its   *)
(* telemetry record (module Telemetry), the chat messages of the web       *)
(* client, and the context that a later request may continue from.  It     *)
(* answers with one JSON body, or with a stream of frames while Granite is *)
(* still generating, and it takes back what it has stored when it cannot   *)
(* record the outcome.                                                     *)
(*                                                                         *)
(* Every call of a store may raise, with or without effect, and the client *)
(* may leave at any frame.  A process that dies takes no further step.     *)
(***************************************************************************)
EXTENDS Telemetry

CONSTANT Settings    \* what REQUIRE_REQUEST_LOGGING may be where a request is served

ASSUME SettingsAssumption == Settings \subseteq BOOLEAN
ASSUME FailedAssumption == "failed" \in Outcomes

VARIABLES
    asked,      \* what the request asks for, and what is to be kept of it
    handler,    \* where the handler of each request stands, and its locals
    docs,       \* the two chat messages, a failed copy of the reply, the context
    granite,    \* the HTTP response of Granite
    client,     \* what the client has got
    failed      \* history: the stores of which a call has raised

handlerVars == <<asked, handler, docs, granite, client, failed>>
responseVars == <<telemetryVars, handlerVars>>

Asks == [stream : BOOLEAN, keeps : {"chat", "context", "nothing"}, strict : Settings]
Bookkeeping == {"begin", "request", "identity", "admit", "input"}
Places == Bookkeeping \cup
    {"saveUser", "touchUser", "call", "modelFailed", "stream", "userSent", "saveReply",
     "touchReply", "saveContext", "finish", "dropContext", "failUser", "failReply",
     "copyReply", "touchCopy", "fail", "suffix", "errorFrame", "close", "answer", "done"}

NewHandler == [place |-> "begin", user |-> FALSE, reply |-> FALSE, context |-> FALSE,
               text |-> "none", incomplete |-> FALSE, recorded |-> FALSE,
               emitted |-> FALSE, answer |-> "error"]

ResponsesInit ==
    /\ TelemetryInit
    /\ asked \in [Requests -> Asks]
    /\ handler = [r \in Requests |-> NewHandler]
    /\ docs = [r \in Requests |->
          [user |-> "none", reply |-> "none", copy |-> FALSE, context |-> FALSE]]
    /\ granite = [r \in Requests |-> "idle"]
    /\ client = [r \in Requests |-> "waiting"]
    /\ failed = [r \in Requests |-> {}]

-----------------------------------------------------------------------------
\* A handler goes on once the counter that its last call owed is updated.
At(r, place) == handler[r].place = place /\ due[r] = "none"
Goto(r, place) == handler' = [handler EXCEPT ![r].place = place]
Noted(r, store, call) ==
    failed' = [failed EXCEPT ![r] = IF call = "done" THEN @ ELSE @ \cup {store}]

\* PublicResponseStream owns the request from the moment Granite answers.
Streaming(r) == granite[r] = "open"
Chats(r) == asked[r].keeps = "chat"
Strict(r) == asked[r].strict

\* One call of the chat store or of the context store that sets a field.
Stores(r, store, field, value, call) ==
    /\ docs' = IF TookEffect(call) THEN [docs EXCEPT ![r][field] = value] ELSE docs
    /\ Noted(r, store, call)
    /\ UNCHANGED <<telemetryVars, asked, granite, client>>

\* Where the repair of the messages starts, and where it ends: the buffered
\* compensation answers, everything else records the failure first.
AfterRepair(r) ==
    IF handler[r].recorded /\ ~Streaming(r) THEN "answer" ELSE "fail"
Repair(r) == IF handler[r].user THEN "failUser" ELSE AfterRepair(r)

\* What a finished generation has still to store.
FirstKept(r) ==
    CASE asked[r].keeps = "chat" -> "userSent"
      [] asked[r].keeps = "context" -> "saveContext"
      [] asked[r].keeps = "nothing" -> "finish"

-----------------------------------------------------------------------------
(***************************************************************************)
(* Before the model is called                                              *)
(***************************************************************************)
Begin(r, call) ==
    /\ handler[r].place = "begin"
    /\ RecordReceived(r, call)
    /\ Goto(r, IF call = "done" THEN "begin" ELSE IF Strict(r) THEN "answer" ELSE "request")
    /\ Noted(r, "audit", call)
    /\ UNCHANGED <<asked, docs, granite, client>>

CountBegin(r, call) ==
    /\ handler[r].place = "begin"
    /\ CountReceived(r, call)
    /\ Goto(r, "request")
    /\ UNCHANGED <<asked, docs, granite, client, failed>>

\* Mutant of Refuses: a record that could not be written is only logged.
RefusesNever(r, call) == FALSE

\* Whether a request is turned away because its record was not updated.
Refuses(r, call) == Strict(r) /\ ~Persists(r, call)

AfterEnrich(r) ==
    CASE handler[r].place = "request" -> "identity"
      [] handler[r].place = "identity" -> "admit"
      [] handler[r].place = "input" -> IF Chats(r) THEN "saveUser" ELSE "call"

\* enrich_telemetry_interaction, with the request, with the identity and with
\* the model input.
Enrich(r, call) ==
    /\ At(r, "request") \/ At(r, "identity") \/ At(r, "input")
    /\ Goto(r, IF Refuses(r, call) THEN "fail" ELSE AfterEnrich(r))
    /\ Noted(r, "audit", call)
    /\ UNCHANGED <<telemetryVars, asked, docs, granite, client>>

\* The rate limiter, the validation of the body, and the web chat's user or the
\* earlier context let the request pass.
Admit(r) ==
    /\ At(r, "admit")
    /\ Goto(r, "input")
    /\ UNCHANGED <<telemetryVars, asked, docs, granite, client, failed>>

\* The size of the body, the key, the limit, the body itself, the context or the
\* conversation is refused.
Reject(r) ==
    /\ At(r, "request") \/ At(r, "identity") \/ At(r, "admit") \/ At(r, "input")
    /\ Goto(r, "fail")
    /\ UNCHANGED <<telemetryVars, asked, docs, granite, client, failed>>

\* A read of a store raises.  The reads of the key and of the context are not
\* in the try statement: Flask answers 500, and nothing is recorded.
LookupFails(r) ==
    /\ At(r, "request") \/ At(r, "identity") \/ At(r, "admit") \/ At(r, "input")
    /\ Goto(r, IF handler[r].place = "input" THEN "fail" ELSE "answer")
    /\ Noted(r, "lookup", "lost")
    /\ UNCHANGED <<telemetryVars, asked, docs, granite, client>>

\* save_message inserts the user's message ...
SaveUser(r, call) ==
    /\ At(r, "saveUser")
    /\ Stores(r, "chat", "user", "pending", call)
    /\ Goto(r, IF call = "done" THEN "touchUser" ELSE "fail")

\* ... and then touches the conversation; only then is the message's id known.
TouchUser(r, call) ==
    /\ At(r, "touchUser")
    /\ Noted(r, "chat", call)
    /\ handler' = [handler EXCEPT ![r].user = call = "done",
                                  ![r].place = IF call = "done" THEN "call" ELSE "fail"]
    /\ UNCHANGED <<telemetryVars, asked, docs, granite, client>>

-----------------------------------------------------------------------------
(***************************************************************************)
(* The model                                                               *)
(***************************************************************************)
\* request_ai, or request_ai_stream, reports a failure.
ModelFails(r) ==
    /\ At(r, "call")
    /\ granite' = [granite EXCEPT ![r] = "closed"]
    /\ Goto(r, IF handler[r].user THEN "modelFailed" ELSE "fail")
    /\ UNCHANGED <<telemetryVars, asked, docs, client, failed>>

\* update_message_status; if that raises, the except clause tries once more.
MarkModelFailed(r, call) ==
    /\ At(r, "modelFailed")
    /\ Stores(r, "chat", "user", "failed", call)
    /\ Goto(r, IF call = "done" THEN "fail" ELSE "failUser")

\* request_ai returns an answer; a blank one has run out of tokens.
ModelAnswers(r, text, incomplete) ==
    /\ At(r, "call") /\ ~asked[r].stream
    /\ text = "some" \/ incomplete
    /\ granite' = [granite EXCEPT ![r] = "closed"]
    /\ handler' = [handler EXCEPT ![r].text = text, ![r].incomplete = incomplete,
                                  ![r].place = FirstKept(r)]
    /\ UNCHANGED <<telemetryVars, asked, docs, client, failed>>

StreamOpens(r) ==
    /\ At(r, "call") /\ asked[r].stream
    /\ granite' = [granite EXCEPT ![r] = "open"]
    /\ Goto(r, "stream")
    /\ UNCHANGED <<telemetryVars, asked, docs, client, failed>>

\* A piece of text, blank or not, goes out as one more frame.
Delta(r, text) ==
    /\ At(r, "stream")
    /\ handler' = [handler EXCEPT ![r].text = IF @ = "some" THEN @ ELSE text]
    /\ UNCHANGED <<telemetryVars, asked, docs, granite, client, failed>>

\* Mutant of Acceptable: blank answers are completed.
AcceptableBlank(r, incomplete) == TRUE

\* _complete refuses a blank answer unless the model has run out of tokens.
Acceptable(r, incomplete) == handler[r].text = "some" \/ incomplete

\* Granite's last event is "completed".
GraniteCompletes(r, incomplete) ==
    /\ At(r, "stream")
    /\ handler' = [handler EXCEPT
          ![r].incomplete = incomplete,
          ![r].place = IF Acceptable(r, incomplete) THEN FirstKept(r) ELSE Repair(r)]
    /\ UNCHANGED <<telemetryVars, asked, docs, granite, client, failed>>

\* It is another one, or the stream ends early, is malformed or times out.
GraniteFails(r) ==
    /\ At(r, "stream")
    /\ Goto(r, Repair(r))
    /\ UNCHANGED <<telemetryVars, asked, docs, granite, client, failed>>

\* A write finds the client gone while the generator is suspended: close.
ClientLeaves(r) ==
    /\ At(r, "stream") \/ At(r, "suffix")
    /\ client' = [client EXCEPT ![r] = "gone"]
    /\ Goto(r, IF handler[r].recorded THEN "close" ELSE Repair(r))
    /\ UNCHANGED <<telemetryVars, asked, docs, granite, failed>>

-----------------------------------------------------------------------------
(***************************************************************************)
(* Storing the outcome: the end of rocky_api, and _complete                *)
(***************************************************************************)
\* The status that both messages get.
Verdict(r) == IF handler[r].incomplete THEN "failed" ELSE "sent"

UserSent(r, call) ==
    /\ At(r, "userSent")
    /\ Stores(r, "chat", "user", Verdict(r), call)
    /\ Goto(r, IF call # "done" THEN Repair(r)
               ELSE IF handler[r].text = "some" THEN "saveReply" ELSE "finish")

SaveReply(r, call) ==
    /\ At(r, "saveReply")
    /\ Stores(r, "chat", "reply", Verdict(r), call)
    /\ Goto(r, IF call = "done" THEN "touchReply" ELSE Repair(r))

TouchReply(r, call) ==
    /\ At(r, "touchReply")
    /\ Noted(r, "chat", call)
    /\ handler' = [handler EXCEPT
          ![r].reply = call = "done",
          ![r].place = IF call = "done" THEN "finish" ELSE Repair(r)]
    /\ UNCHANGED <<telemetryVars, asked, docs, granite, client>>

SaveContext(r, call) ==
    /\ At(r, "saveContext")
    /\ Stores(r, "context", "context", TRUE, call)
    /\ handler' = [handler EXCEPT
          ![r].context = call = "done",
          ![r].place = IF call = "done" THEN "finish" ELSE Repair(r)]

\* finish_telemetry_interaction with the outcome of the model.  What was stored
\* is taken back if that must be recorded and is not; a buffered request does
\* not record a failure then.
Finish(r, call) ==
    /\ At(r, "finish")
    /\ RecordTerminal(r, IF handler[r].incomplete THEN "failed" ELSE "completed",
                      IF Streaming(r) THEN "pending" ELSE "none", call)
    /\ handler' = [handler EXCEPT
          ![r].recorded = ~Streaming(r) \/ ~Refuses(r, call),
          ![r].answer = IF Refuses(r, call) THEN "error"
                        ELSE IF handler[r].incomplete THEN "incomplete" ELSE "completed",
          ![r].place = IF Refuses(r, call)
                       THEN IF handler[r].context THEN "dropContext"
                            ELSE IF handler[r].user THEN "failUser"
                            ELSE IF Streaming(r) THEN "fail" ELSE "answer"
                       ELSE IF Streaming(r) THEN "suffix" ELSE "answer"]
    /\ Noted(r, "audit", call)
    /\ UNCHANGED <<asked, docs, granite, client>>

\* delete_response_context.
DropContext(r, call) ==
    /\ At(r, "dropContext")
    /\ Stores(r, "context", "context", FALSE, call)
    /\ Goto(r, Repair(r))

-----------------------------------------------------------------------------
(***************************************************************************)
(* Failing: the except clause and compensate_required_logging_failure,     *)
(* which try both messages, and _mark_web_message_failed, which stops at   *)
(* the first call that raises and keeps partial text as a failed message   *)
(***************************************************************************)
\* Mutant of AfterFailUser: the reply is left alone.
AfterFailUserOnly(r, call) == AfterRepair(r)

AfterFailUser(r, call) ==
    IF Streaming(r) /\ call # "done" THEN "fail"
    ELSE IF handler[r].reply THEN "failReply"
    ELSE IF Streaming(r) /\ handler[r].text # "none" THEN "copyReply"
    ELSE AfterRepair(r)

FailUser(r, call) ==
    /\ At(r, "failUser")
    /\ Stores(r, "chat", "user", "failed", call)
    /\ Goto(r, AfterFailUser(r, call))

FailReply(r, call) ==
    /\ At(r, "failReply")
    /\ Stores(r, "chat", "reply", "failed", call)
    /\ Goto(r, AfterRepair(r))

CopyReply(r, call) ==
    /\ At(r, "copyReply")
    /\ Stores(r, "chat", "copy", TRUE, call)
    /\ Goto(r, IF call = "done" THEN "touchCopy" ELSE "fail")

TouchCopy(r, call) ==
    /\ At(r, "touchCopy")
    /\ Noted(r, "chat", call)
    /\ Goto(r, "fail")
    /\ UNCHANGED <<telemetryVars, asked, docs, granite, client>>

\* The failure is recorded, or that is tried; a stream does not try again.
Fail(r, outcome, call) ==
    /\ At(r, "fail")
    /\ RecordTerminal(r, outcome, "none", call)
    /\ handler' = [handler EXCEPT
          ![r].recorded = TRUE,
          ![r].answer = "error",
          ![r].place = IF ~Streaming(r) THEN "answer"
                       ELSE IF client[r] = "gone" THEN "close" ELSE "errorFrame"]
    /\ Noted(r, "audit", call)
    /\ UNCHANGED <<asked, docs, granite, client>>

-----------------------------------------------------------------------------
(***************************************************************************)
(* Answering                                                               *)
(***************************************************************************)
\* The JSON body is written, to a client that may have gone.
Answer(r, got) ==
    /\ At(r, "answer")
    /\ got \in {handler[r].answer, "gone"}
    /\ client' = [client EXCEPT ![r] = got]
    /\ Goto(r, "done")
    /\ UNCHANGED <<telemetryVars, asked, docs, granite, failed>>

\* Mutant of Emitted: it never is.
EmittedNever(r) == FALSE

\* Whether the frame that is yielded now is noted as the last one.
Emitted(r) == handler[r].place = "suffix"

\* The last frame is noted as emitted and written; the write may fail.
LastFrame(r, got) ==
    /\ At(r, "suffix") \/ At(r, "errorFrame")
    /\ got \in {handler[r].answer, "gone"}
    /\ client' = [client EXCEPT ![r] = got]
    /\ handler' = [handler EXCEPT ![r].emitted = Emitted(r), ![r].place = "close"]
    /\ UNCHANGED <<telemetryVars, asked, docs, granite, failed>>

\* Mutant of GraniteAfterClose: the connection to Granite is left open.
GraniteLeftOpen(r) == granite

GraniteAfterClose(r) == [granite EXCEPT ![r] = "closed"]

\* close: the delivery is recorded and Granite's stream is closed.
Close(r, call) ==
    /\ At(r, "close")
    /\ RecordDelivery(r, IF handler[r].emitted THEN "completed" ELSE "client_disconnected", call)
    /\ granite' = GraniteAfterClose(r)
    /\ Goto(r, "done")
    /\ Noted(r, "audit", call)
    /\ UNCHANGED <<asked, docs, client>>

CountOutcome(r, call) == CountTerminal(r, call) /\ UNCHANGED handlerVars

-----------------------------------------------------------------------------
\* What the handler of a request does on its own.
Handle(r) ==
    \/ Admit(r) \/ Reject(r) \/ LookupFails(r) \/ ModelFails(r) \/ StreamOpens(r)
    \/ \E text \in {"blank", "some"}, incomplete \in BOOLEAN : ModelAnswers(r, text, incomplete)
    \/ \E call \in Calls :
          \/ Begin(r, call) \/ CountBegin(r, call) \/ Enrich(r, call)
          \/ SaveUser(r, call) \/ TouchUser(r, call) \/ MarkModelFailed(r, call)
          \/ UserSent(r, call) \/ SaveReply(r, call) \/ TouchReply(r, call)
          \/ SaveContext(r, call) \/ Finish(r, call) \/ DropContext(r, call)
          \/ FailUser(r, call) \/ FailReply(r, call) \/ CopyReply(r, call) \/ TouchCopy(r, call)
          \/ \E outcome \in Outcomes \ {"completed"} : Fail(r, outcome, call)
          \/ Close(r, call) \/ CountOutcome(r, call)
    \/ \E got \in {"error", "completed", "incomplete", "gone"} : Answer(r, got) \/ LastFrame(r, got)

\* The end of Granite's stream.
Ends(r) == GraniteFails(r) \/ \E incomplete \in BOOLEAN : GraniteCompletes(r, incomplete)

ResponsesNext ==
    \/ \E r \in Requests :
          \/ Handle(r) \/ Ends(r) \/ ClientLeaves(r)
          \/ \E text \in {"blank", "some"} : Delta(r, text)
    \/ Maintenance /\ UNCHANGED handlerVars

ResponsesSpec == ResponsesInit /\ [][ResponsesNext]_responseVars

\* A worker goes on running, a store and a socket answer or raise, and Granite
\* ends every stream: it gives each generation a time limit.
ResponsesFairSpec ==
    ResponsesSpec /\ \A r \in Requests : WF_responseVars(Handle(r)) /\ WF_responseVars(Ends(r))

-----------------------------------------------------------------------------
(***************************************************************************)
(* Properties                                                              *)
(***************************************************************************)
Over(r) == handler[r].place = "done"

\* "On success, response/context storage and required audit persistence complete
\* before Rocky emits response.completed": whoever is told that an answer is
\* complete can find its messages or its context, and its record (until that is
\* purged) says so too.
AnswersAreKept ==
    \A r \in Requests : client[r] = "completed" =>
        /\ Chats(r) => docs[r].user = "sent" /\ docs[r].reply = "sent"
        /\ asked[r].keeps = "context" => docs[r].context
        /\ Strict(r) /\ record[r] # Absent => record[r].outcome = "completed"

\* Logging that is required decides: while the chat and the context store
\* answer, a request that is over has left messages marked sent only if its
\* record says completed, and a context only if the record is closed.
NothingUnaudited ==
    \A r \in Requests :
        Strict(r) /\ Over(r) /\ failed[r] \cap {"chat", "context"} = {} /\ record[r] # Absent =>
            /\ "sent" \in {docs[r].user, docs[r].reply} => record[r].outcome = "completed"
            /\ docs[r].context => record[r].state = "terminal"

\* Whoever was refused, whatever became of the record, finds no answer later,
\* neither in the conversation nor as a context, while those two stores answer.
RefusedLeavesNoAnswer ==
    \A r \in Requests :
        Over(r) /\ client[r] = "error" /\ failed[r] \subseteq {"audit", "lookup"} =>
            /\ ~docs[r].context
            /\ docs[r].user \in {"none", "failed"} /\ docs[r].reply # "sent"

\* "If the initial audit insert or any required pre-inference update fails,
\* Rocky returns 503 without invoking the model."
NoCallUnlogged ==
    [][\A r \in Requests : Strict(r) /\ granite[r] = "idle" /\ granite'[r] # "idle" =>
          "audit" \notin failed[r] /\ handle[r].persisted]_responseVars

\* If nothing raises, the record of a request that is over tells what the client
\* was told, unless the client left: completed or not, and delivered or not.
RecordTellsOutcome ==
    \A r \in Requests : Over(r) /\ failed[r] = {} /\ record[r] # Absent =>
        /\ record[r].state = "terminal"
        /\ client[r] = "completed" => record[r].outcome = "completed"
        /\ client[r] \in {"error", "incomplete"} => record[r].outcome # "completed"
        /\ record[r].delivery = "client_disconnected" => client[r] = "gone"

\* Every request is answered, or its client leaves, and what it holds is freed.
RequestsEnd == \A r \in Requests : <>(Over(r) /\ granite[r] # "open")

=============================================================================
