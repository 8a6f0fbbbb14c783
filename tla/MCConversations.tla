--------------------------- MODULE MCConversations ---------------------------
(* A small instance of Conversations for TLC. *)
EXTENDS Conversations, TLC

CONSTANTS r1, r2, r3

Images2(enabled, chars) ==
    [enabled |-> enabled, chars |-> chars, images |-> 2, imageBytes |-> 2, totalBytes |-> 3,
     imagePixels |-> 2, totalPixels |-> 3, tokens |-> 2, imageTokens |-> 3]

\* Images are switched on, off and on again, with less room for text.
MCConfigs == <<Images2(TRUE, 6), Images2(FALSE, 6), Images2(TRUE, 5)>>

Say(role, content) == [role |-> role, content |-> content]
Web(content) ==
    [chat |-> TRUE, input |-> <<Say("user", content)>>, instructions |-> 0, tokens |-> 0,
     wellFormed |-> TRUE, store |-> TRUE]
Api(input, instructions, tokens, store) ==
    [chat |-> FALSE, input |-> input, instructions |-> instructions, tokens |-> tokens,
     wellFormed |-> TRUE, store |-> store]

\* Messages of the browser: an image, or a text and then an image.
WebAsks ==
    {Web(<<Image(2, 1, TRUE)>>), Web(<<Text(2), Image(1, 2, TRUE)>>)}

\* Requests of the API: texts between images, more than one message, instructions,
\* limits of tokens that only images allow, nothing to be stored.
ApiAsks ==
    {Api(<<Say("user", <<Text(2)>>)>>, 1, 2, TRUE),
     Api(<<Say("developer", <<Text(1)>>),
           Say("user", <<Image(1, 1, TRUE), Text(1), Image(1, 2, TRUE), Text(1)>>)>>, 0, 3, TRUE),
     Api(<<Say("user", <<Text(1)>>), Say("assistant", <<Text(2)>>), Say("user", <<Text(1)>>)>>,
         0, 0, FALSE)}

\* Requests that are to be refused.
BadAsks ==
    {Api(<<Say("user", <<Text(1), Image(1, 1, FALSE)>>)>>, 0, 0, TRUE),
     Api(<<Say("user", <<Text(1)>>), Say("assistant", <<Image(1, 1, TRUE)>>)>>, 0, 0, TRUE),
     Api(<<Say("user", <<Image(2, 1, TRUE), Image(2, 1, TRUE)>>)>>, 0, 0, TRUE),
     Api(<<Say("user", <<Text(0), Text(1)>>)>>, 0, 0, TRUE),
     Api(<<Say("system", <<Text(1)>>)>>, 0, 0, TRUE)}

MCAsks == WebAsks \cup ApiAsks \cup BadAsks

\* The locals that nobody reads any more are forgotten: what a turn was built from once
\* the model has answered, its reply and verdict once they are stored.  The request of
\* a turn that is over is compared with what it has left, if anything.
Left(r) == contexts[r] # None \/
    \E c \in Requests : chats[c] # None /\ \E i \in DOMAIN chats[c] : chats[c][i].turn = r

Locals(r) ==
    CASE At(r, "over") ->
            [NewTurn EXCEPT !.place = "over", !.ask = IF Left(r) THEN turn[r].ask ELSE None,
                            !.reply = IF contexts[r] # None THEN turn[r].reply ELSE 0]
      [] turn[r].place \in {"userSent", "reply"} ->
            [turn[r] EXCEPT !.past = <<>>, !.kept = <<>>, !.payload = None]
      [] turn[r].place = "context" ->
            [turn[r] EXCEPT !.past = <<>>, !.payload = None, !.incomplete = FALSE]
      [] turn[r].place \in {"finish", "undoContext", "undoUser", "undoReply"} ->
            [turn[r] EXCEPT !.past = <<>>, !.kept = <<>>, !.payload = None, !.incomplete = FALSE,
                            !.from = IF Chats(r) THEN @ ELSE None,
                            !.reply = IF Chats(r) THEN 0 ELSE @]
      [] OTHER -> turn[r]

View == <<config, chats, contexts, thread, [r \in Requests |-> Locals(r)]>>

Symmetry == Permutations(Requests)

=============================================================================
