---------------------------- MODULE Conversations ----------------------------
(***************************************************************************)
(* Turns that build on each other, in api-rocky/api.py: the messages of the *)
(* web chat, which a later turn reads again with all turns that were sent  *)
(* meanwhile, and the contexts of the public API, which a later request    *)
(* continues by previous_response_id, several of them from one and the     *)
(* same.  Each turn goes through the operators of Prompts.                 *)
(*                                                                         *)
(* The stores answer here; what becomes of a turn when they raise is       *)
(* modelled by Responses.  A restart kills the turns that are under way and *)
(* may bring other limits, for the API and for Granite alike.              *)
(***************************************************************************)
EXTENDS Prompts

CONSTANTS
    Requests,     \* the turns; a conversation and a context are named by the one that made it
    Asks,         \* what a turn may ask
    Replies,      \* the characters of an answer, 0 for a blank one
    Configs,      \* the limits in the order in which restarts bring them
    RecentLimit,  \* the messages of a chat that are read again: 20
    AtOnce,       \* bound: the turns under way at once
    None          \* no conversation, no context

\* A body that was parsed; the browser sends one message, with a text unless it is
\* blank, and then the images.
AskTypes ==
    [chat : BOOLEAN, input : Seq(Messages), instructions : Nat, tokens : Nat,
     wellFormed : BOOLEAN, store : BOOLEAN]
WebInput(input) ==
    /\ Len(input) = 1 /\ input[1].role = "user"
    /\ \A i \in DOMAIN input[1].content :
          IsImage(input[1].content[i]) \/ (i = 1 /\ IsWritten(input[1].content[i]))

\* A message as it is stored.
Documents ==
    [turn : Requests, role : {"user", "assistant"}, status : {"pending", "sent", "failed"},
     text : Nat, images : Seq(ImageBlocks)]

ASSUME NoneAssumption == None \notin Requests /\ None \notin Seq(Documents)
ASSUME AsksAssumption == Asks \subseteq AskTypes /\ \A ask \in Asks : ask.chat => WebInput(ask.input)
ASSUME RepliesAssumption == Replies \subseteq Nat /\ RecentLimit \in Nat

\* The API does not start unless an answer to images may be as long as another.
ASSUME ConfigsAssumption ==
    /\ Configs \in Seq(LimitSets) /\ Configs # <<>>
    /\ \A i \in DOMAIN Configs : 1 <= Configs[i].tokens /\ Configs[i].tokens <= Configs[i].imageTokens

VARIABLES
    config,       \* which of Configs is in force
    turn,         \* the locals of each turn's handler
    chats,        \* the messages of each conversation, in the order of created_at
    contexts,     \* the context stored for each response
    thread        \* history: all messages that led to each context

vars == <<config, turn, chats, contexts, thread>>

Limits == Configs[config]

NewTurn == [place |-> "new", ask |-> None, from |-> None, past |-> <<>>, kept |-> <<>>,
            payload |-> None, reply |-> 0, incomplete |-> FALSE]

Init ==
    /\ config = 1
    /\ turn = [r \in Requests |-> NewTurn]
    /\ chats = [r \in Requests |-> None]
    /\ contexts = [r \in Requests |-> None]
    /\ thread = [r \in Requests |-> <<>>]

-----------------------------------------------------------------------------
At(r, place) == turn[r].place = place
UnderWay == {r \in Requests : turn[r].place \notin {"new", "over"}}
Goto(r, place) == turn' = [turn EXCEPT ![r].place = place]
Chats(r) == turn[r].ask.chat

\* The conversation of a turn: the one it names, or its own.
Conversation(r) == IF turn[r].from = None THEN r ELSE turn[r].from

\* Whether what a turn continues is there.
Found(ask, from) ==
    from # None => IF ask.chat THEN chats[from] # None ELSE contexts[from] # None

\* The body is checked, and the context of an earlier response is loaded.
Receive(r, ask, from) ==
    /\ At(r, "new") /\ Cardinality(UnderWay) < AtOnce
    /\ LET continues == ~ask.chat /\ from # None /\ Found(ask, from) IN
       turn' = [turn EXCEPT
          ![r].ask = ask, ![r].from = from,
          ![r].past = IF continues THEN contexts[from] ELSE <<>>,
          ![r].place = IF ValidInput(ask, Limits) /\ ValidParameters(ask, Limits) /\ Found(ask, from)
                       THEN "read" ELSE "over"]
    /\ UNCHANGED <<config, chats, contexts, thread>>

\* get_or_create_conversation.
Opened(r) == IF Chats(r) /\ turn[r].from = None THEN [chats EXCEPT ![r] = <<>>] ELSE chats

\* The recent messages of a chat are read, and the payload is built.
Read(r) ==
    /\ At(r, "read")
    /\ chats' = Opened(r)
    /\ LET ask == turn[r].ask
           past == IF Chats(r)
                   THEN GraniteInput(RecentMessages(Opened(r)[Conversation(r)], RecentLimit))
                   ELSE turn[r].past
           payload == Payload(ask, past, Limits)
       IN  turn' = [turn EXCEPT
              ![r].past = past, ![r].payload = payload,
              ![r].kept = BoundedHistory(past, CurrentMessages(ask.input), ask.instructions, Limits),
              ![r].place = IF ~HasUserPrompt(payload) THEN "over"
                           ELSE IF ask.chat THEN "save" ELSE "call"]
    /\ UNCHANGED <<config, contexts, thread>>

-----------------------------------------------------------------------------
UserMessages(input) == Selected(input, LAMBDA m : m.role = "user")

\* extract_user_message_text: the texts of the last user message that has some.
UserText(input) ==
    LET written == Selected(UserMessages(input), LAMBDA m : CharacterCount(m) > 0)
    IN  IF written = <<>> THEN 0 ELSE CharacterCount(Last(written))

\* latest_user_image_blocks.
UserImages(input) == ImagesOf(<<Last(UserMessages(CurrentMessages(input)))>>)

\* save_message.
Saved(r, document) == [chats EXCEPT ![Conversation(r)] = Append(@, document)]

\* The messages of turn r that are marked, by update_message_status.
Marked(r, role, status) ==
    [chats EXCEPT ![Conversation(r)] =
        [i \in DOMAIN @ |-> IF @[i].turn = r /\ @[i].role = role
                            THEN [@[i] EXCEPT !.status = status] ELSE @[i]]]

SaveUser(r) ==
    /\ At(r, "save")
    /\ chats' = Saved(r, [turn |-> r, role |-> "user", status |-> "pending",
                          text |-> UserText(turn[r].ask.input),
                          images |-> UserImages(turn[r].ask.input)])
    /\ Goto(r, "call")
    /\ UNCHANGED <<config, contexts, thread>>

\* request_ai: Granite refuses the payload, or the model fails.
ModelFails(r) ==
    /\ At(r, "call")
    /\ chats' = IF Chats(r) THEN Marked(r, "user", "failed") ELSE chats
    /\ Goto(r, "over")
    /\ UNCHANGED <<config, contexts, thread>>

\* It answers; only an answer that was cut short may be blank.
ModelAnswers(r, reply, incomplete) ==
    /\ At(r, "call") /\ Serves(turn[r].payload, Limits)
    /\ reply > 0 \/ incomplete
    /\ turn' = [turn EXCEPT ![r].reply = reply, ![r].incomplete = incomplete,
                            ![r].place = IF Chats(r) THEN "userSent"
                                         ELSE IF turn[r].ask.store THEN "context" ELSE "over"]
    /\ UNCHANGED <<config, chats, contexts, thread>>

Verdict(r) == IF turn[r].incomplete THEN "failed" ELSE "sent"

MarkUser(r) ==
    /\ At(r, "userSent")
    /\ chats' = Marked(r, "user", Verdict(r))
    /\ Goto(r, IF turn[r].reply > 0 THEN "reply" ELSE "finish")
    /\ UNCHANGED <<config, contexts, thread>>

SaveReply(r) ==
    /\ At(r, "reply")
    /\ chats' = Saved(r, [turn |-> r, role |-> "assistant", status |-> Verdict(r),
                          text |-> turn[r].reply, images |-> <<>>])
    /\ Goto(r, "finish")
    /\ UNCHANGED <<config, contexts, thread>>

\* What a turn adds to its context: never an empty answer.
Added(r) ==
    CurrentMessages(turn[r].ask.input) \o
    IF turn[r].reply = 0 THEN <<>>
    ELSE <<[role |-> "assistant", content |-> <<Text(turn[r].reply)>>]>>

\* save_response_context.
SaveContext(r) ==
    /\ At(r, "context")
    /\ contexts' = [contexts EXCEPT ![r] = turn[r].kept \o Added(r)]
    /\ thread' = [thread EXCEPT
          ![r] = (IF turn[r].from = None THEN <<>> ELSE thread[turn[r].from]) \o Added(r)]
    /\ Goto(r, "finish")
    /\ UNCHANGED <<config, chats>>

-----------------------------------------------------------------------------
\* The outcome is recorded; if it must be and is not, what was stored is taken
\* back by compensate_required_logging_failure or _mark_web_message_failed.
Finish(r, recorded) ==
    /\ At(r, "finish")
    /\ Goto(r, IF recorded THEN "over" ELSE IF Chats(r) THEN "undoUser" ELSE "undoContext")
    /\ UNCHANGED <<config, chats, contexts, thread>>

UndoContext(r) ==
    /\ At(r, "undoContext")
    /\ contexts' = [contexts EXCEPT ![r] = None]
    /\ Goto(r, "over")
    /\ UNCHANGED <<config, chats, thread>>

UndoUser(r) ==
    /\ At(r, "undoUser")
    /\ chats' = Marked(r, "user", "failed")
    /\ Goto(r, "undoReply")
    /\ UNCHANGED <<config, contexts, thread>>

UndoReply(r) ==
    /\ At(r, "undoReply")
    /\ chats' = Marked(r, "assistant", "failed")
    /\ Goto(r, "over")
    /\ UNCHANGED <<config, contexts, thread>>

\* Both services start again with the next limits; the turns under way are gone.
Restart ==
    /\ config < Len(Configs)
    /\ config' = config + 1
    /\ turn' = [r \in Requests |->
          IF r \in UnderWay THEN [turn[r] EXCEPT !.place = "over"] ELSE turn[r]]
    /\ UNCHANGED <<chats, contexts, thread>>

Next ==
    \/ \E r \in Requests :
          \/ \E ask \in Asks, from \in Requests \cup {None} : Receive(r, ask, from)
          \/ Read(r) \/ SaveUser(r) \/ ModelFails(r)
          \/ \E reply \in Replies, incomplete \in BOOLEAN : ModelAnswers(r, reply, incomplete)
          \/ MarkUser(r) \/ SaveReply(r) \/ SaveContext(r)
          \/ \E recorded \in BOOLEAN : Finish(r, recorded)
          \/ UndoContext(r) \/ UndoUser(r) \/ UndoReply(r)
    \/ Restart

Spec == Init /\ [][Next]_vars

-----------------------------------------------------------------------------
(***************************************************************************)
(* Properties                                                              *)
(***************************************************************************)
\* What Ollama is given, block by block.
Flattened(messages) ==
    FlattenSeq([i \in DOMAIN messages |-> messages[i].texts \o messages[i].images])

\* "Granite independently checks", and never refuses what the API has let pass,
\* whatever messages of the history were put before it, but for the bound on the
\* bytes of the request's body, which is not modelled: two services agree on what a
\* servable turn is.  "Preserve the submitted order of text and image content
\* blocks": Ollama gets them in that order, none lost and none twice.
GraniteUnderstands ==
    \A r \in Requests : At(r, "call") =>
        /\ Serves(turn[r].payload, Limits)
        /\ Flattened(OllamaMessages(turn[r].payload)) = Blocks(turn[r].payload.input)

FitsTogether(messages, left) ==
    LET Used(field) == TotalOf(LAMBDA m : ImageUsage(m)[field], messages) IN
    /\ TotalOf(CharacterCount, messages) <= left.chars
    /\ Used("images") <= left.images
    /\ Used("bytes") <= left.bytes
    /\ Used("pixels") <= left.pixels

\* The history that goes to Granite is the longest end of the conversation, or of
\* the context, that fits with the new messages: never one with a hole.
HistoryIsLongestEnd ==
    \A r \in Requests : turn[r].place \in {"save", "call"} =>
        LET ask == turn[r].ask
            past == IF Limits.enabled THEN turn[r].past ELSE WithoutImages(turn[r].past)
            left == LeftBy(CurrentMessages(ask.input), ask.instructions, Limits)
            ends == {s \in Suffixes(past) : FitsTogether(s, left)}
        IN  turn[r].kept \in ends /\ \A s \in ends : Len(s) <= Len(turn[r].kept)

\* Whatever is continued is what was said: a context is an end of all that led
\* to it, through any number of continuations, branches and changes of limits,
\* but for images that were off meanwhile, and it has its own turn whole; a chat
\* message reads again as the browser sent it; and the model is told nothing of a
\* chat that its owner does not find in it.
PastIsTrue ==
    /\ \A r \in Requests : contexts[r] # None =>
          /\ IsSuffix(WithoutImages(contexts[r]), WithoutImages(thread[r]))
          /\ IsSuffix(Added(r), contexts[r])
    /\ \A c \in Requests : chats[c] # None =>
          \A i \in DOMAIN chats[c] : chats[c][i].role = "user" =>
              GraniteInput(<<[chats[c][i] EXCEPT !.status = "sent"]>>)
                  = CurrentMessages(turn[chats[c][i].turn].ask.input)
    /\ \A r \in Requests : At(r, "call") /\ Chats(r) /\ Limits.enabled =>
          ToSet(turn[r].kept) \subseteq {Shown(d) : d \in ToSet(chats[Conversation(r)])}

=============================================================================
