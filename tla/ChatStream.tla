------------------------------ MODULE ChatStream ------------------------------
(***************************************************************************)
(* How one generated answer reaches the browser:                           *)
(*                                                                         *)
(*   Ollama -> reader thread -> Granite server -> public API -> browser    *)
(*          pieces           lines              frames                     *)
(*                                                                         *)
(* Each stage is a generator of its own process, and translates what the   *)
(* stage before it yields: OllamaChatStream and the reader thread of       *)
(* iter_upstream_with_heartbeats, the stream bodies of main.py,            *)
(* GraniteEventStream and PublicResponseStream, and the decoder of         *)
(* responseStream.ts.  Either connection may be cut at any moment; SvelteKit*)
(* and nginx pass the frames on.  What is stored is in module Responses.   *)
(***************************************************************************)
EXTENDS Integers, Sequences

CONSTANTS
    MaxPieces,    \* bound on the pieces of text that Ollama generates
    InFlight      \* bound on the lines, and on the frames, between two processes

ASSUME BoundsAssumption == MaxPieces \in Nat /\ InFlight \in Nat \ {0}

VARIABLES
    produced,   \* the pieces of text that Ollama has generated
    reader,     \* the reader thread, and the item it wants to hand over
    pending,    \* the queue of one item between it and the generator
    body,       \* where Granite's generator stands
    lines,      \* NDJSON lines on their way to the public API
    upLink,     \* the connection that they travel on
    api,        \* GraniteEventStream and PublicResponseStream
    frames,     \* SSE frames on their way to the browser
    downLink,   \* the connection that they travel on
    browser     \* the decoder

streamVars == <<produced, reader, pending, body, lines, upLink, api, frames, downLink, browser>>

Pieces == {"blank", "word"}
IsBlank(text) == "word" \notin {text[i] : i \in DOMAIN text}

Prefix == <<"created", "in_progress", "item_added", "part_added">>
Suffix(incomplete) ==
    <<"text_done", "part_done", "item_done", IF incomplete THEN "incomplete" ELSE "completed">>

Item(kind, piece) == [kind |-> kind, piece |-> piece]
NoItem == Item("none", "none")
Frame(type, seq, text) == [type |-> type, seq |-> seq, text |-> text]
NotSeen == "none"

StreamInit ==
    /\ produced = <<>>
    /\ reader = [place |-> "reading", item |-> NoItem]
    /\ pending = <<>>
    /\ body = "queue"
    /\ lines = <<>> /\ frames = <<>>
    /\ upLink = "open" /\ downLink = "open"
    /\ api = [place |-> "prefix", seq |-> 0, text |-> <<>>, started |-> FALSE,
              terminal |-> NotSeen, incomplete |-> FALSE]
    /\ browser = [expected |-> 0, prefix |-> 0, suffix |-> 0, text |-> <<>>,
                  finished |-> NotSeen, result |-> "reading"]

-----------------------------------------------------------------------------
(***************************************************************************)
(* Ollama and the reader thread                                            *)
(***************************************************************************)
Holds(item, place) == reader' = [place |-> place, item |-> item]

ReadPiece(piece) ==
    /\ reader.place = "reading" /\ body = "loop"
    /\ Len(produced) < MaxPieces
    /\ produced' = Append(produced, piece)
    /\ Holds(Item("delta", piece), "handing")
    /\ UNCHANGED <<pending, body, lines, upLink, api, frames, downLink, browser>>

\* A stop without any text is an invalid response.
OllamaItem(how) ==
    Item(IF how = "stop" /\ produced = <<>> THEN "error" ELSE how, "none")

\* Ollama's last object, or an error, a timeout, or upstream.close.
OllamaEnds(how) ==
    /\ reader.place = "reading" /\ body \in {"loop", "over"}
    /\ Holds(OllamaItem(how), "handing")
    /\ UNCHANGED <<produced, pending, body, lines, upLink, api, frames, downLink, browser>>

\* The queue has room for one item.
Room == pending = <<>>

\* Mutant of Stopped: the thread does not look whether the generator is over.
StoppedNever == FALSE

Stopped == body = "over"

\* publish puts the item into the queue if it can, ...
Publish ==
    /\ reader.place = "handing" /\ ~Stopped /\ Room
    /\ pending' = Append(pending, reader.item)
    /\ Holds(NoItem, IF reader.item.kind = "delta" THEN "reading" ELSE "ended")
    /\ UNCHANGED <<produced, body, lines, upLink, api, frames, downLink, browser>>

\* ... tries again after a tenth of a second if it cannot, ...
Retry ==
    /\ reader.place = "handing" /\ ~Stopped /\ ~Room
    /\ UNCHANGED streamVars

\* ... and gives up when the generator is over.
GiveUp ==
    /\ reader.place = "handing" /\ Stopped
    /\ Holds(NoItem, "ended")
    /\ UNCHANGED <<produced, pending, body, lines, upLink, api, frames, downLink, browser>>

-----------------------------------------------------------------------------
(***************************************************************************)
(* Granite's generator                                                     *)
(***************************************************************************)
\* A line is written while the connection is up.
Writes(line) ==
    /\ upLink = "open" /\ Len(lines) < InFlight
    /\ lines' = Append(lines, line)

\* A blank line, while the ticket waits or Ollama is silent.
Heartbeat ==
    /\ body = "queue" \/ (body = "loop" /\ pending = <<>>)
    /\ Writes(Item("blank", "none"))
    /\ UNCHANGED <<produced, reader, pending, body, upLink, api, frames, downLink, browser>>

\* The ticket is admitted and Ollama is called, which opens its stream.
Started ==
    /\ body = "queue"
    /\ Writes(Item("started", "none"))
    /\ body' = "loop"
    /\ UNCHANGED <<produced, reader, pending, upLink, api, frames, downLink, browser>>

\* It is not, or Ollama fails at once.
NotStarted(kind) ==
    /\ body = "queue"
    /\ Writes(Item(kind, "none"))
    /\ body' = "end"
    /\ reader' = [reader EXCEPT !.place = "ended"]
    /\ UNCHANGED <<produced, pending, upLink, api, frames, downLink, browser>>

Pass ==
    /\ body = "loop" /\ pending # <<>> /\ Head(pending).kind = "delta"
    /\ Writes(Head(pending))
    /\ pending' = <<>>
    /\ UNCHANGED <<produced, reader, body, upLink, api, frames, downLink, browser>>

\* The last line; a reasoning request without reasoning is an error, unless the
\* tokens ran out first.
LastLine(kind) ==
    /\ body = "loop" /\ pending # <<>> /\ Head(pending).kind # "delta"
    /\ kind \in {Head(pending).kind} \cup IF Head(pending).kind = "stop" THEN {"error"} ELSE {}
    /\ Writes(Item(kind, "none"))
    /\ pending' = <<>>
    /\ body' = "end"
    /\ UNCHANGED <<produced, reader, upLink, api, frames, downLink, browser>>

\* The generator returns, and the chunked body ends.
EndOfLines ==
    /\ body = "end" /\ upLink = "open"
    /\ upLink' = "ended"
    /\ body' = "over"
    /\ UNCHANGED <<produced, reader, pending, lines, api, frames, downLink, browser>>

\* The next write fails, and the generator is closed.
BodyClosed ==
    /\ body # "over" /\ upLink = "cut"
    /\ body' = "over"
    /\ reader' = IF body = "queue" THEN [reader EXCEPT !.place = "ended"] ELSE reader
    /\ UNCHANGED <<produced, pending, lines, upLink, api, frames, downLink, browser>>

CutUpLink ==
    /\ upLink = "open"
    /\ upLink' = "cut"
    /\ \E n \in 0..Len(lines) : lines' = SubSeq(lines, 1, n)
    /\ UNCHANGED <<produced, reader, pending, body, api, frames, downLink, browser>>

-----------------------------------------------------------------------------
(***************************************************************************)
(* The public API: GraniteEventStream inside PublicResponseStream          *)
(***************************************************************************)
\* A frame is yielded, and the generator goes on to another place.
Yields(type, text, place) ==
    /\ downLink = "open" /\ Len(frames) < InFlight
    /\ frames' = Append(frames, Frame(type, api.seq, text))
    /\ api' = [api EXCEPT !.seq = @ + 1, !.place = place,
                          !.text = IF type = "delta" THEN @ \o text ELSE @]

WritePrefix ==
    /\ api.place = "prefix"
    /\ Yields(Prefix[api.seq + 1], <<>>, IF api.seq + 1 = Len(Prefix) THEN "read" ELSE "prefix")
    /\ UNCHANGED <<produced, reader, pending, body, lines, upLink, downLink, browser>>

\* What GraniteEventStream accepts after what it has seen.
Valid(line) ==
    /\ api.terminal = NotSeen
    /\ IF api.started THEN line.kind # "started" ELSE line.kind \in {"started", "error", "cancelled"}

\* A blank line is passed on as a comment that is no event.
ReadBlank ==
    /\ api.place = "read" /\ lines # <<>> /\ Head(lines).kind = "blank"
    /\ downLink = "open" /\ Len(frames) < InFlight
    /\ frames' = Append(frames, Frame("keepalive", 0, <<>>))
    /\ lines' = Tail(lines)
    /\ UNCHANGED <<produced, reader, pending, body, upLink, api, downLink, browser>>

ReadDelta ==
    /\ api.place = "read" /\ lines # <<>> /\ Head(lines).kind = "delta" /\ Valid(Head(lines))
    /\ Yields("delta", <<Head(lines).piece>>, "read")
    /\ lines' = Tail(lines)
    /\ UNCHANGED <<produced, reader, pending, body, upLink, downLink, browser>>

\* "started", or the terminal event, which is kept until the lines have ended;
\* an event out of order is an error.
ReadOther ==
    /\ api.place = "read" /\ lines # <<>>
    /\ Head(lines).kind # "blank" /\ (Head(lines).kind = "delta" => ~Valid(Head(lines)))
    /\ api' = IF ~Valid(Head(lines)) THEN [api EXCEPT !.place = "error"]
              ELSE IF Head(lines).kind = "started" THEN [api EXCEPT !.started = TRUE]
              ELSE [api EXCEPT !.terminal = Head(lines).kind]
    /\ lines' = Tail(lines)
    /\ UNCHANGED <<produced, reader, pending, body, upLink, frames, downLink, browser>>

\* Mutant of Completes: a blank answer is completed.
CompletesBlank == api.terminal \in {"stop", "length"}

\* Mutant of Completes: the end of the lines is the end of the answer.
CompletesAtEnd == ~IsBlank(api.text)

\* Whether the answer is complete, or incomplete because the tokens ran out:
\* GraniteEventStream demands a delta, _complete one that is not blank.
Completes == api.terminal = "length" \/ (api.terminal = "stop" /\ ~IsBlank(api.text))

\* The lines have ended: _complete, which may fail to store the answer.
ReadEnd ==
    /\ api.place = "read" /\ lines = <<>> /\ upLink = "ended"
    /\ api' \in {[api EXCEPT !.place = "error"]} \cup
                IF Completes
                THEN {[api EXCEPT !.place = "suffix", !.incomplete = api.terminal = "length"]}
                ELSE {}
    /\ UNCHANGED <<produced, reader, pending, body, lines, upLink, frames, downLink, browser>>

\* The connection to Granite is lost, or no line comes within the time limit.
ReadFails ==
    /\ api.place = "read" /\ lines = <<>> /\ upLink = "cut"
    /\ api' = [api EXCEPT !.place = "error"]
    /\ UNCHANGED <<produced, reader, pending, body, lines, upLink, frames, downLink, browser>>

\* The position of the next frame of the suffix.
SuffixAt == api.seq - Len(Prefix) - Len(api.text) + 1

WriteSuffix ==
    /\ api.place = "suffix"
    /\ Yields(Suffix(api.incomplete)[SuffixAt], api.text,
              IF SuffixAt = 4 THEN "close" ELSE "suffix")
    /\ UNCHANGED <<produced, reader, pending, body, lines, upLink, downLink, browser>>

WriteError ==
    /\ api.place = "error"
    /\ Yields("error", <<>>, "close")
    /\ UNCHANGED <<produced, reader, pending, body, lines, upLink, downLink, browser>>

\* What the API is about to write; a client that has left is noticed only then,
\* and that is what the comments are for.
WantsToWrite ==
    \/ api.place \in {"prefix", "suffix", "error"}
    \/ api.place = "read" /\ lines # <<>> /\ Head(lines).kind \in {"blank", "delta"}

\* The generator returns and closes Granite's response; so it does when a write
\* fails.
CloseApi ==
    /\ api.place = "close" \/ (downLink = "cut" /\ WantsToWrite)
    /\ api' = [api EXCEPT !.place = "over"]
    /\ downLink' = IF downLink = "open" THEN "ended" ELSE downLink
    /\ upLink' = IF upLink = "open" THEN "cut" ELSE upLink
    /\ UNCHANGED <<produced, reader, pending, body, lines, frames, browser>>

CutDownLink ==
    /\ downLink = "open"
    /\ downLink' = "cut"
    /\ \E n \in 0..Len(frames) : frames' = SubSeq(frames, 1, n)
    /\ UNCHANGED <<produced, reader, pending, body, lines, upLink, api, browser>>

-----------------------------------------------------------------------------
(***************************************************************************)
(* The browser: consumeEvent of consumeRockyResponseStream                 *)
(***************************************************************************)
\* What is demanded of the last frame.
LastIsSound(f) ==
    /\ f.text = browser.text
    /\ f.type = "completed" => ~IsBlank(browser.text)

\* Whether the decoder accepts an event that is not an error.
Accepts(f) ==
    /\ browser.finished = NotSeen
    /\ IF browser.prefix < Len(Prefix) THEN f.type = Prefix[browser.prefix + 1]
       ELSE \/ browser.suffix = 0 /\ f.type = "delta"
            \/ /\ f.type = Suffix(f.type = "incomplete")[browser.suffix + 1]
               /\ f.type = "text_done" => f.text = browser.text
               /\ f.type \in {"completed", "incomplete"} => LastIsSound(f)

\* Mutant of Grown: a piece of text replaces the ones before it.
GrownAlone(piece) == piece

\* outputText += delta.
Grown(piece) == browser.text \o piece

\* The decoder after an event that it accepts.
Taken(f) ==
    [browser EXCEPT
        !.expected = @ + 1,
        !.text = IF f.type = "delta" THEN Grown(f.text) ELSE @,
        !.prefix = IF @ < Len(Prefix) THEN @ + 1 ELSE @,
        !.suffix = IF browser.prefix < Len(Prefix) \/ f.type = "delta" THEN @ ELSE @ + 1,
        !.finished = IF f.type \in {"completed", "incomplete"} THEN f.type ELSE @]

Reads ==
    /\ browser.result = "reading" /\ frames # <<>>
    /\ LET f == Head(frames) IN
       browser' = IF f.type = "keepalive" THEN browser
                  ELSE IF f.seq # browser.expected THEN [browser EXCEPT !.result = "invalid"]
                  ELSE IF f.type = "error" THEN [browser EXCEPT !.result = "error"]
                  ELSE IF Accepts(f) THEN Taken(f)
                  ELSE [browser EXCEPT !.result = "invalid"]
    /\ frames' = Tail(frames)
    /\ UNCHANGED <<produced, reader, pending, body, lines, upLink, api, downLink>>

\* The body ends: the promise resolves if the answer was finished.
ReadsEnd ==
    /\ browser.result = "reading" /\ frames = <<>> /\ downLink # "open"
    /\ browser' = [browser EXCEPT !.result =
          IF downLink = "cut" THEN "lost"
          ELSE IF browser.finished # NotSeen THEN browser.finished ELSE "invalid"]
    /\ UNCHANGED <<produced, reader, pending, body, lines, upLink, api, frames, downLink>>

\* The user stops the answer, or an error has been thrown: the rest is not read.
Cancels ==
    /\ downLink = "open"
    /\ browser.result \in {"reading", "error", "invalid"}
    /\ browser' = [browser EXCEPT !.result = IF @ = "reading" THEN "lost" ELSE @]
    /\ downLink' = "cut"
    /\ frames' = <<>>
    /\ UNCHANGED <<produced, reader, pending, body, lines, upLink, api>>

-----------------------------------------------------------------------------
Thread ==
    \/ \E piece \in Pieces : ReadPiece(piece)
    \/ \E how \in {"stop", "length", "error"} : OllamaEnds(how)
    \/ Publish \/ Retry \/ GiveUp

Granite ==
    \/ Started \/ \E kind \in {"error", "cancelled"} : NotStarted(kind)
    \/ Pass \/ \E kind \in {"stop", "length", "error"} : LastLine(kind)
    \/ EndOfLines \/ BodyClosed

Api == WritePrefix \/ ReadBlank \/ ReadDelta \/ ReadOther \/ ReadEnd \/ ReadFails
       \/ WriteSuffix \/ WriteError \/ CloseApi

Decoder == Reads \/ ReadsEnd

Everything == body = "over" /\ reader.place = "ended" /\ api.place = "over" /\ browser.result # "reading"

StreamNext ==
    \/ Thread \/ Granite \/ Heartbeat \/ Api \/ Decoder
    \/ CutUpLink \/ CutDownLink \/ Cancels
    \/ Everything /\ UNCHANGED streamVars

StreamSpec == StreamInit /\ [][StreamNext]_streamVars

\* The processes go on, Ollama keeps its time limit, and the browser cancels
\* the stream that it has given up; no connection has to fail.
StreamFairSpec ==
    /\ StreamSpec
    /\ WF_streamVars(\E how \in {"stop", "length", "error"} : OllamaEnds(how))
    /\ WF_streamVars(Publish) /\ WF_streamVars(GiveUp)
    /\ SF_streamVars(Granite) /\ WF_streamVars(Api) /\ WF_streamVars(Decoder)
    /\ WF_streamVars(Cancels /\ browser.result # "reading")

-----------------------------------------------------------------------------
(***************************************************************************)
(* Properties                                                              *)
(***************************************************************************)
\* The decoder "fails closed on malformed, incomplete, or mismatched terminal
\* data", and what Rocky streams is never that, wherever Ollama, Granite, the
\* queue or the stores fail.
NeverMalformed == browser.result # "invalid"

\* What the user reads at any time is what Ollama has generated, in its order
\* and without gaps; an answer that ends as complete or as incomplete has all
\* of it.
PrefixOf(s, t) == Len(s) <= Len(t) /\ s = SubSeq(t, 1, Len(s))
TextIsTrue ==
    /\ PrefixOf(browser.text, produced)
    /\ browser.result \in {"completed", "incomplete"} => browser.text = produced

\* "Treat only response.completed as a finished answer": an answer is shown as
\* complete only if Granite has said so, and none is after a lost connection.
FinishedIsFinished ==
    /\ browser.finished = "completed" => api.terminal = "stop" /\ upLink # "open"
    /\ browser.finished = "incomplete" => api.terminal = "length"

\* Every answer ends for the user, and then nothing is left that generates it:
\* no thread that waits to hand over a piece, no generator, no open stream.
AllStagesEnd == <>[]Everything

=============================================================================
