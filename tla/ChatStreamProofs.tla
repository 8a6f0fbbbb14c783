-------------------------- MODULE ChatStreamProofs --------------------------
(***************************************************************************)
(* Proofs about ChatStream, for every number of pieces and every number of *)
(* lines and frames on their way.                                          *)
(*                                                                         *)
(* The argument is one of positions.  A piece of text keeps the position   *)
(* at which Ollama generated it on its whole way, although heartbeats lie  *)
(* between the lines and comments between the frames, and every event has  *)
(* the position that the API gave it.  What is under way is therefore      *)
(* described by numbering it: a line that carries text counts, a blank one *)
(* does not; a frame counts, a comment does not.                           *)
(***************************************************************************)
EXTENDS ChatStream, SequenceTheorems, TLAPS

LineKinds == {"none", "blank", "started", "delta", "stop", "length", "error", "cancelled"}
Lines == [kind : LineKinds, piece : Pieces \cup {"none"}]

EventTypes == {"created", "in_progress", "item_added", "part_added", "delta", "text_done",
               "part_done", "item_done", "incomplete", "completed", "error"}
FrameSet == [type : EventTypes \cup {"keepalive"}, seq : Nat, text : Seq(Pieces)]

ApiStates == [place : {"prefix", "read", "suffix", "error", "close", "over"}, seq : Nat,
              text : Seq(Pieces), started : BOOLEAN, terminal : LineKinds,
              incomplete : BOOLEAN]

DecoderStates == [expected : Nat, prefix : Nat, suffix : Nat, text : Seq(Pieces),
                  finished : {"completed", "incomplete", NotSeen},
                  result : {"reading", "invalid", "error", "lost", "completed", "incomplete"}]

StreamTypes ==
    /\ produced \in Seq(Pieces)
    /\ reader \in [place : {"reading", "handing", "ended"}, item : Lines]
    /\ pending \in Seq(Lines)
    /\ body \in {"queue", "loop", "end", "over"}
    /\ lines \in Seq(Lines)
    /\ upLink \in {"open", "ended", "cut"}
    /\ api \in ApiStates
    /\ frames \in Seq(FrameSet)
    /\ downLink \in {"open", "ended", "cut"}
    /\ browser \in DecoderStates

\* s is the beginning of t, element by element.
Agrees(s, t) == Len(s) <= Len(t) /\ \A i \in 1..Len(s) : s[i] = t[i]

\* at numbers the elements of s from a position on; only those in counted count.
Numbers(at, s, counted, from) ==
    /\ at \in [1..Len(s) + 1 -> Nat]
    /\ at[1] = from
    /\ \A i \in 1..Len(s) : at[i + 1] = IF s[i] \in counted THEN at[i] + 1 ELSE at[i]

(***************************************************************************)
(* The thread, its item and the queue of one item.                         *)
(***************************************************************************)
One(item) == IF item.kind = "delta" THEN 1 ELSE 0
InQueue == IF pending = <<>> THEN 0 ELSE One(Head(pending))

ThreadSound ==
    /\ Len(pending) <= 1
    /\ reader.place # "handing" => reader.item = NoItem
    /\ One(reader.item) = 1 => produced # <<>> /\ reader.item.piece = produced[Len(produced)]
    /\ InQueue = 1 /\ body # "over" =>
                      /\ Len(produced) > One(reader.item)
                      /\ Head(pending).piece = produced[Len(produced) - One(reader.item)]
    /\ pending # <<>> /\ InQueue = 0 => reader.place = "ended"
    /\ body = "queue" => produced = <<>> /\ pending = <<>> /\ reader.place = "reading"
    /\ body = "end" => pending = <<>> /\ reader.place = "ended"
    /\ upLink = "open" => body # "over"
    /\ upLink = "ended" => body = "over"

(***************************************************************************)
(* The lines, as long as the API reads them.                               *)
(***************************************************************************)
Deltas == {line \in Lines : line.kind = "delta"}

LinesNumbered(at) ==
    /\ Numbers(at, lines, Deltas, Len(api.text))
    /\ \A i \in 1..Len(lines) : lines[i] \in Deltas =>
          at[i] < Len(produced) /\ lines[i].piece = produced[at[i] + 1]
    /\ upLink = "open" =>
          at[Len(lines) + 1] + InQueue + One(reader.item) = Len(produced)
    /\ upLink = "ended" => at[Len(lines) + 1] = Len(produced)

LinesSound ==
    api.place \in {"prefix", "read"} => \E at \in [1..Len(lines) + 1 -> Nat] : LinesNumbered(at)

(***************************************************************************)
(* The API.  Sealed: it has decided that the answer is finished, and how.  *)
(***************************************************************************)
Sealed ==
    /\ api.place \in {"suffix", "close", "over"}
    /\ api.terminal = IF api.incomplete THEN "length" ELSE "stop"
    /\ ~api.incomplete => ~IsBlank(api.text)
    /\ upLink = "ended"
    /\ api.text = produced

AfterText == Len(Prefix) + Len(api.text)

Closing ==
    \/ api.seq = AfterText + 1
    \/ api.seq = AfterText + 4 /\ Sealed

ApiSound ==
    /\ Agrees(api.text, produced)
    /\ api.place = "prefix" => api.seq < Len(Prefix) /\ api.text = <<>>
    /\ api.place \in {"read", "error"} => api.seq = AfterText
    /\ api.place = "suffix" => Sealed /\ api.seq \in AfterText..AfterText + 3
    /\ api.place = "close" => Closing
    /\ api.place = "over" /\ downLink # "cut" => Closing
    /\ downLink = "ended" => api.place = "over"

\* It has written an error and nothing has been cut off.
Errored == downLink # "cut" /\ api.place \in {"close", "over"} /\ api.seq = AfterText + 1

(***************************************************************************)
(* The frames, as long as the decoder reads them: each is what belongs to  *)
(* its position.                                                           *)
(***************************************************************************)
Events == {f \in FrameSet : f.type # "keepalive"}

FrameFits(f, k) ==
    /\ f.seq = k /\ k < api.seq
    /\ k < Len(Prefix) => f.type = Prefix[k + 1]
    /\ k \in Len(Prefix)..AfterText - 1 =>
          f.type = "delta" /\ f.text = <<api.text[k - Len(Prefix) + 1]>>
    /\ k >= AfterText =>
          \/ f.type = "error" /\ api.place \in {"close", "over"}
          \/ /\ Sealed /\ ~Errored /\ k <= AfterText + 3
             /\ f.type = Suffix(api.incomplete)[k - AfterText + 1] /\ f.text = api.text

Fitting == {place \in FrameSet \X Nat : FrameFits(place[1], place[2])}

FramesNumbered(at) ==
    /\ Numbers(at, frames, Events, browser.expected)
    /\ \A i \in 1..Len(frames) : frames[i] \in Events => <<frames[i], at[i]>> \in Fitting
    /\ downLink # "cut" => at[Len(frames) + 1] = api.seq

FramesSound ==
    browser.result = "reading" =>
        \E at \in [1..Len(frames) + 1 -> Nat] : FramesNumbered(at)

(***************************************************************************)
(* The decoder: what it has taken follows from the position it expects.    *)
(***************************************************************************)
InText ==
    /\ browser.expected <= Len(Prefix) =>
          browser.prefix = browser.expected /\ browser.text = <<>>
    /\ browser.expected >= Len(Prefix) =>
          /\ browser.prefix = Len(Prefix)
          /\ Len(browser.text) = browser.expected - Len(Prefix)
    /\ browser.suffix = 0 /\ browser.finished = NotSeen

InSuffix ==
    /\ browser.prefix = Len(Prefix)
    /\ browser.text = api.text /\ Sealed /\ ~Errored
    /\ browser.suffix = browser.expected - AfterText /\ browser.suffix <= 4
    /\ (browser.finished = NotSeen) <=> (browser.suffix < 4)

Finished ==
    Sealed /\ browser.text = api.text /\ browser.finished = Suffix(api.incomplete)[4]

DecoderSound ==
    /\ Agrees(browser.text, api.text)
    /\ browser.finished # NotSeen => Finished
    /\ browser.result # "invalid"
    /\ browser.result \in {"completed", "incomplete"} => browser.finished = browser.result
    /\ browser.result = "reading" =>
          /\ browser.expected <= api.seq
          /\ browser.expected <= AfterText => InText
          /\ browser.expected > AfterText => InSuffix

StreamInvariant ==
    /\ StreamTypes
    /\ ThreadSound
    /\ LinesSound
    /\ ApiSound
    /\ FramesSound
    /\ DecoderSound

-----------------------------------------------------------------------------
(***************************************************************************)
(* Numberings of a sequence that loses its head, grows, or is cut off.     *)
(***************************************************************************)
Later(at, s) == [i \in 1..Len(s) |-> at[i + 1]]
Longer(at, s, last) == [i \in 1..Len(s) + 2 |-> IF i <= Len(s) + 1 THEN at[i] ELSE last]
Shorter(at, s) == [i \in 1..Len(s) + 1 |-> at[i]]

LEMMA NumbersOfTail ==
    ASSUME NEW S, NEW counted, NEW s \in Seq(S), s # <<>>, NEW from, NEW at,
           Numbers(at, s, counted, from)
    PROVE  /\ Numbers(Later(at, s), Tail(s), counted, at[2])
           /\ at[2] = IF Head(s) \in counted THEN from + 1 ELSE from
           /\ Tail(s) \in Seq(S) /\ Len(Tail(s)) = Len(s) - 1
           /\ \A i \in 1..Len(Tail(s)) : Tail(s)[i] = s[i + 1] /\ Later(at, s)[i] = at[i + 1]
           /\ Later(at, s)[Len(Tail(s)) + 1] = at[Len(s) + 1]
<1>1. /\ Tail(s) \in Seq(S) /\ Len(Tail(s)) = Len(s) - 1 /\ Len(s) \in Nat /\ Len(s) > 0
      /\ \A i \in 1..Len(Tail(s)) : Tail(s)[i] = s[i + 1]
      /\ Head(s) = s[1]
  BY HeadTailProperties, LenProperties
<1>2. Len(Tail(s)) + 1 = Len(s)
  BY <1>1
<1>3. \A i \in 1..Len(s) : Later(at, s)[i] = at[i + 1]
  BY DEF Later
<1>4. Later(at, s) \in [1..Len(Tail(s)) + 1 -> Nat]
  BY <1>1, <1>2 DEF Later, Numbers
<1>5. \A i \in 1..Len(Tail(s)) :
         Later(at, s)[i + 1] = IF Tail(s)[i] \in counted THEN Later(at, s)[i] + 1 ELSE Later(at, s)[i]
  BY <1>1, <1>3 DEF Numbers
<1>6. Later(at, s)[1] = at[2] /\ Later(at, s)[Len(Tail(s)) + 1] = at[Len(s) + 1]
  BY <1>1, <1>3
<1>7. at[2] = IF Head(s) \in counted THEN from + 1 ELSE from
  BY <1>1 DEF Numbers
<1> QED
  BY <1>1, <1>3, <1>4, <1>5, <1>6, <1>7 DEF Numbers

LEMMA NumbersOfAppend ==
    ASSUME NEW S, NEW counted, NEW s \in Seq(S), NEW item \in S, NEW from, NEW at,
           Numbers(at, s, counted, from), NEW last,
           last = IF item \in counted THEN at[Len(s) + 1] + 1 ELSE at[Len(s) + 1]
    PROVE  /\ Numbers(Longer(at, s, last), Append(s, item), counted, from)
           /\ Append(s, item) \in Seq(S) /\ Len(Append(s, item)) = Len(s) + 1
           /\ \A i \in 1..Len(s) : Append(s, item)[i] = s[i] /\ Longer(at, s, last)[i] = at[i]
           /\ Append(s, item)[Len(s) + 1] = item
           /\ Longer(at, s, last)[Len(s) + 1] = at[Len(s) + 1]
           /\ Longer(at, s, last)[Len(s) + 2] = last
<1>1. /\ Append(s, item) \in Seq(S) /\ Len(Append(s, item)) = Len(s) + 1 /\ Len(s) \in Nat
      /\ \A i \in 1..Len(s) : Append(s, item)[i] = s[i]
      /\ Append(s, item)[Len(s) + 1] = item
  BY AppendProperties, LenProperties
<1>2. /\ \A i \in 1..Len(s) + 1 : Longer(at, s, last)[i] = at[i]
      /\ Longer(at, s, last)[Len(s) + 2] = last
  BY <1>1 DEF Longer
<1>3. at[Len(s) + 1] \in Nat /\ last \in Nat
  BY <1>1 DEF Numbers
<1>4. Longer(at, s, last) \in [1..Len(Append(s, item)) + 1 -> Nat]
  <2>1. \A i \in 1..Len(s) + 2 : (IF i <= Len(s) + 1 THEN at[i] ELSE last) \in Nat
    BY <1>1, <1>3 DEF Numbers
  <2> QED
    BY <1>1, <2>1 DEF Longer
<1>5. \A i \in 1..Len(Append(s, item)) :
         Longer(at, s, last)[i + 1] =
            IF Append(s, item)[i] \in counted THEN Longer(at, s, last)[i] + 1
            ELSE Longer(at, s, last)[i]
  <2> SUFFICES ASSUME NEW i \in 1..Len(s) + 1
               PROVE  Longer(at, s, last)[i + 1] =
                         IF Append(s, item)[i] \in counted THEN Longer(at, s, last)[i] + 1
                         ELSE Longer(at, s, last)[i]
    BY <1>1
  <2>1. CASE i = Len(s) + 1
    BY <2>1, <1>1, <1>2
  <2>2. CASE i # Len(s) + 1
    BY <2>2, <1>1, <1>2 DEF Numbers
  <2> QED
    BY <2>1, <2>2
<1>6. Longer(at, s, last)[1] = from
  BY <1>1, <1>2 DEF Numbers
<1> QED
  BY <1>1, <1>2, <1>4, <1>5, <1>6 DEF Numbers

LEMMA NumbersOfBeginning ==
    ASSUME NEW S, NEW counted, NEW s \in Seq(S), NEW t \in Seq(S), Agrees(t, s), NEW from, NEW at,
           Numbers(at, s, counted, from)
    PROVE  Numbers(Shorter(at, t), t, counted, from)
<1>1. Len(s) \in Nat /\ Len(t) \in Nat /\ Len(t) <= Len(s) /\ \A i \in 1..Len(t) : t[i] = s[i]
  BY LenProperties DEF Agrees
<1>2. \A i \in 1..Len(t) + 1 : Shorter(at, t)[i] = at[i]
  BY DEF Shorter
<1>3. \A i \in 1..Len(t) + 1 : at[i] \in Nat
  BY <1>1 DEF Numbers
<1>4. Shorter(at, t) \in [1..Len(t) + 1 -> Nat]
  BY <1>3 DEF Shorter
<1>5. Shorter(at, t)[1] = from
  BY <1>1, <1>2 DEF Numbers
<1>6. ASSUME NEW i \in 1..Len(t)
      PROVE  Shorter(at, t)[i + 1] =
                IF t[i] \in counted THEN Shorter(at, t)[i] + 1 ELSE Shorter(at, t)[i]
  <2>1. i \in 1..Len(s) /\ i \in 1..Len(t) + 1 /\ i + 1 \in 1..Len(t) + 1
    BY <1>1
  <2>2. at[i + 1] = IF s[i] \in counted THEN at[i] + 1 ELSE at[i]
    BY <2>1 DEF Numbers
  <2> QED
    BY <1>1, <1>2, <2>1, <2>2
<1> QED
  BY <1>4, <1>5, <1>6 DEF Numbers

LEMMA NumbersOfEmpty ==
    ASSUME NEW counted, NEW from \in Nat
    PROVE  Numbers([i \in 1..1 |-> from], <<>>, counted, from)
BY DEF Numbers

-----------------------------------------------------------------------------
\* The events of the first and of the last frames.
LEMMA EventNames ==
    /\ Len(Prefix) = 4
    /\ \A k \in 1..4 : Prefix[k] \in EventTypes \ {"delta", "error", "completed", "incomplete"}
    /\ \A incomplete \in BOOLEAN : \A k \in 1..4 :
          Suffix(incomplete)[k] \in EventTypes \ {"delta", "error"}
    /\ \A incomplete \in BOOLEAN :
          /\ Suffix(incomplete)[1] = "text_done" /\ Suffix(incomplete)[2] = "part_done"
          /\ Suffix(incomplete)[3] = "item_done"
          /\ Suffix(incomplete)[4] = IF incomplete THEN "incomplete" ELSE "completed"
<1>1. Len(Prefix) = 4 /\ Prefix[1] = "created" /\ Prefix[2] = "in_progress"
      /\ Prefix[3] = "item_added" /\ Prefix[4] = "part_added"
  BY DEF Prefix
<1>2. \A incomplete \in BOOLEAN :
          /\ Suffix(incomplete)[1] = "text_done" /\ Suffix(incomplete)[2] = "part_done"
          /\ Suffix(incomplete)[3] = "item_done"
          /\ Suffix(incomplete)[4] = IF incomplete THEN "incomplete" ELSE "completed"
  BY DEF Suffix
<1>3. \A k \in 1..4 : k = 1 \/ k = 2 \/ k = 3 \/ k = 4
  OBVIOUS
<1> QED
  BY <1>1, <1>2, <1>3 DEF EventTypes

\* What the parts of a record and of a sequence are.
LEMMA Shapes ==
    ASSUME StreamTypes
    PROVE  /\ Len(produced) \in Nat /\ Len(api.text) \in Nat /\ Len(browser.text) \in Nat
           /\ api.seq \in Nat /\ browser.expected \in Nat /\ Len(Prefix) = 4
           /\ AfterText = 4 + Len(api.text) /\ AfterText \in Nat
           /\ Len(lines) \in Nat /\ Len(frames) \in Nat
BY EventNames, LenProperties DEF StreamTypes, ApiStates, DecoderStates, AfterText

LEMMA InitialInvariant == StreamInit => StreamInvariant
<1> SUFFICES ASSUME StreamInit PROVE StreamInvariant
  OBVIOUS
<1> USE DEF StreamInit
<1>1. StreamTypes
  BY DEF StreamTypes, ApiStates, DecoderStates, NoItem, Item, Lines, LineKinds, Pieces, NotSeen, EventTypes
<1>2. ThreadSound
  BY DEF ThreadSound, One, InQueue, NoItem, Item
<1>3. Len(Prefix) = 4 /\ AfterText = 4
  BY EventNames DEF AfterText
<1>4. LinesSound
  <2>1. LinesNumbered([i \in 1..1 |-> 0])
    <3>1. Numbers([i \in 1..1 |-> 0], <<>>, Deltas, 0)
      BY NumbersOfEmpty
    <3>2. lines = <<>> /\ Len(lines) = 0 /\ Len(api.text) = 0 /\ Len(produced) = 0
          /\ InQueue = 0 /\ One(reader.item) = 0
      BY DEF InQueue, One, NoItem, Item
    <3> QED
      BY <3>1, <3>2 DEF LinesNumbered
  <2>2. [i \in 1..1 |-> 0] \in [1..Len(lines) + 1 -> Nat]
    OBVIOUS
  <2> QED
    BY <2>1, <2>2 DEF LinesSound
<1>5. ApiSound
  BY <1>3 DEF ApiSound, Agrees
<1>6. FramesSound
  <2>1. FramesNumbered([i \in 1..1 |-> 0])
    <3>1. Numbers([i \in 1..1 |-> 0], <<>>, Events, 0)
      BY NumbersOfEmpty
    <3>2. frames = <<>> /\ Len(frames) = 0 /\ api.seq = 0 /\ browser.expected = 0
      OBVIOUS
    <3> QED
      BY <3>1, <3>2 DEF FramesNumbered
  <2>2. [i \in 1..1 |-> 0] \in [1..Len(frames) + 1 -> Nat]
    OBVIOUS
  <2> QED
    BY <2>1, <2>2 DEF FramesSound
<1>7. DecoderSound
  BY <1>3 DEF DecoderSound, Agrees, InText, InSuffix, NotSeen
<1> QED
  BY <1>1, <1>2, <1>4, <1>5, <1>6, <1>7 DEF StreamInvariant

-----------------------------------------------------------------------------
(***************************************************************************)
(* Every step keeps the types.                                             *)
(***************************************************************************)
LEMMA TypesOfThread ==
    ASSUME StreamTypes, Thread
    PROVE  StreamTypes'
<1> USE DEF StreamTypes, Holds, Item, NoItem, Lines, LineKinds
<1>1. ASSUME NEW piece \in Pieces, ReadPiece(piece) PROVE StreamTypes'
  <2>1. produced' \in Seq(Pieces)
    BY <1>1 DEF ReadPiece
  <2> QED
    BY <1>1, <2>1 DEF ReadPiece
<1>2. ASSUME NEW how \in {"stop", "length", "error"}, OllamaEnds(how) PROVE StreamTypes'
  <2>1. OllamaItem(how) \in Lines
    BY DEF OllamaItem
  <2> QED
    BY <1>2, <2>1 DEF OllamaEnds
<1>3. CASE Publish
  <2>1. pending' \in Seq(Lines)
    BY <1>3 DEF Publish
  <2> QED
    BY <1>3, <2>1 DEF Publish
<1>4. CASE Retry
  BY <1>4 DEF Retry, streamVars
<1>5. CASE GiveUp
  BY <1>5 DEF GiveUp
<1> QED
  BY <1>1, <1>2, <1>3, <1>4, <1>5 DEF Thread

LEMMA Written ==
    ASSUME StreamTypes, NEW line \in Lines, Writes(line)
    PROVE  /\ upLink = "open" /\ lines' = Append(lines, line)
           /\ lines' \in Seq(Lines)
BY DEF Writes, StreamTypes

LEMMA TypesOfGranite ==
    ASSUME StreamTypes, Granite \/ Heartbeat \/ CutUpLink
    PROVE  StreamTypes'
<1>0. \A kind \in LineKinds : Item(kind, "none") \in Lines
  BY DEF Item, Lines
<1>1. CASE Started
  <2>1. lines' \in Seq(Lines)
    BY <1>0, <1>1, Written DEF Started, LineKinds
  <2> QED
    BY <1>1, <2>1 DEF Started, StreamTypes
<1>2. ASSUME NEW kind \in {"error", "cancelled"}, NotStarted(kind) PROVE StreamTypes'
  <2>1. lines' \in Seq(Lines)
    BY <1>0, <1>2, Written DEF NotStarted, LineKinds
  <2> QED
    BY <1>2, <2>1 DEF NotStarted, StreamTypes
<1>3. CASE Pass
  <2>1. Head(pending) \in Lines
    BY <1>3 DEF Pass, StreamTypes
  <2>2. lines' \in Seq(Lines)
    BY <1>3, <2>1, Written DEF Pass
  <2> QED
    BY <1>3, <2>2 DEF Pass, StreamTypes
<1>4. ASSUME NEW kind \in {"stop", "length", "error"}, LastLine(kind) PROVE StreamTypes'
  <2>1. lines' \in Seq(Lines)
    BY <1>0, <1>4, Written DEF LastLine, LineKinds
  <2> QED
    BY <1>4, <2>1 DEF LastLine, StreamTypes
<1>5. CASE EndOfLines
  BY <1>5 DEF EndOfLines, StreamTypes
<1>6. CASE BodyClosed
  BY <1>6 DEF BodyClosed, StreamTypes
<1>7. CASE Heartbeat
  <2>1. lines' \in Seq(Lines)
    BY <1>0, <1>7, Written DEF Heartbeat, LineKinds
  <2> QED
    BY <1>7, <2>1 DEF Heartbeat, StreamTypes
<1>8. CASE CutUpLink
  <2>1. PICK n \in 0..Len(lines) : lines' = SubSeq(lines, 1, n)
    BY <1>8 DEF CutUpLink
  <2>2. lines' \in Seq(Lines)
    <3>1. \A i \in 1..n : lines[i] \in Lines
      BY LenProperties DEF StreamTypes
    <3>2. n \in Int
      BY LenProperties DEF StreamTypes
    <3> QED
      BY <2>1, <3>1, <3>2, SubSeqProperties
  <2> QED
    BY <1>8, <2>2 DEF CutUpLink, StreamTypes
<1> QED
  <2>1. CASE Granite
    BY <2>1, <1>1, <1>2, <1>3, <1>4, <1>5, <1>6 DEF Granite
  <2> QED
    BY <2>1, <1>7, <1>8

\* The position of a frame of the suffix.
LEMMA SuffixPosition ==
    ASSUME StreamTypes, ApiSound, api.place = "suffix"
    PROVE  SuffixAt \in 1..4 /\ SuffixAt = api.seq - AfterText + 1
<1>1. api.seq \in AfterText..AfterText + 3
  BY DEF ApiSound
<1>2. AfterText = Len(Prefix) + Len(api.text) /\ Len(Prefix) = 4 /\ Len(api.text) \in Nat
      /\ api.seq \in Nat
  BY Shapes DEF AfterText
<1> QED
  BY <1>1, <1>2 DEF SuffixAt

\* What a frame that is yielded changes.
LEMMA Yielded ==
    ASSUME StreamTypes, NEW type \in EventTypes, NEW text \in Seq(Pieces),
           NEW place \in {"prefix", "read", "suffix", "close"}, Yields(type, text, place)
    PROVE  /\ downLink = "open"
           /\ frames' = Append(frames, Frame(type, api.seq, text))
           /\ Frame(type, api.seq, text) \in FrameSet
           /\ frames' \in Seq(FrameSet)
           /\ api'.seq = api.seq + 1 /\ api'.place = place
           /\ api'.text = IF type = "delta" THEN api.text \o text ELSE api.text
           /\ api'.terminal = api.terminal /\ api'.incomplete = api.incomplete
           /\ api'.started = api.started /\ api' \in ApiStates
<1>1. Frame(type, api.seq, text) \in FrameSet
  BY DEF Frame, FrameSet, StreamTypes, ApiStates
<1>2. api.text \o text \in Seq(Pieces)
  BY ConcatProperties DEF StreamTypes, ApiStates
<1>3. frames' = Append(frames, Frame(type, api.seq, text)) /\ frames' \in Seq(FrameSet)
  <2>1. frames \in Seq(FrameSet) /\ frames' = Append(frames, Frame(type, api.seq, text))
    BY DEF Yields, StreamTypes
  <2> QED
    BY <1>1, <2>1, AppendProperties
<1>4. /\ api'.seq = api.seq + 1 /\ api'.place = place
      /\ api'.text = IF type = "delta" THEN api.text \o text ELSE api.text
      /\ api'.terminal = api.terminal /\ api'.incomplete = api.incomplete
      /\ api'.started = api.started
  BY DEF Yields, StreamTypes, ApiStates
<1>5. (IF type = "delta" THEN api.text \o text ELSE api.text) \in Seq(Pieces)
  BY <1>2 DEF StreamTypes, ApiStates
<1>6. api' \in ApiStates
  <2> DEFINE longer == IF type = "delta" THEN api.text \o text ELSE api.text
  <2>1. api' = [api EXCEPT !.seq = @ + 1, !.place = place, !.text = longer]
    BY DEF Yields
  <2>2. longer \in Seq(Pieces) /\ api \in ApiStates /\ api.seq + 1 \in Nat
        /\ place \in {"prefix", "read", "suffix", "error", "close", "over"}
    BY <1>5 DEF StreamTypes, ApiStates
  <2> HIDE DEF longer
  <2>3. [api EXCEPT !.seq = @ + 1, !.place = place, !.text = longer] \in ApiStates
    BY <2>2 DEF ApiStates
  <2> QED
    BY <2>1, <2>3
<1> QED
  BY <1>1, <1>3, <1>4, <1>6 DEF Yields

LEMMA TypesOfApi ==
    ASSUME StreamTypes, ApiSound, Api \/ CutDownLink,
           ReadDelta => Head(lines).piece \in Pieces
    PROVE  StreamTypes'
<1>0. <<>> \in Seq(Pieces) /\ api.text \in Seq(Pieces) /\ lines \in Seq(Lines) /\ api.seq \in Nat
  BY DEF StreamTypes, ApiStates
<1>1. ASSUME NEW type \in EventTypes, NEW text \in Seq(Pieces),
             NEW place \in {"prefix", "read", "suffix", "close"}, Yields(type, text, place)
      PROVE  frames' \in Seq(FrameSet) /\ api' \in ApiStates
  BY <1>1, Yielded
<1>2. lines # <<>> => Head(lines) \in Lines /\ Tail(lines) \in Seq(Lines)
  BY <1>0, HeadTailProperties
<1>3. CASE WritePrefix
  <2>1. Prefix[api.seq + 1] \in EventTypes
    <3>1. api.seq < 4
      BY <1>3, EventNames DEF ApiSound, WritePrefix
    <3>2. api.seq + 1 \in 1..4
      BY <1>0, <3>1
    <3> QED
      BY <3>2, EventNames
  <2>2. frames' \in Seq(FrameSet) /\ api' \in ApiStates
    <3>1. CASE api.seq + 1 = Len(Prefix)
      <4>1. Yields(Prefix[api.seq + 1], <<>>, "read")
        BY <1>3, <3>1 DEF WritePrefix
      <4> QED
        BY <4>1, <2>1, <1>0, <1>1
    <3>2. CASE api.seq + 1 # Len(Prefix)
      <4>1. Yields(Prefix[api.seq + 1], <<>>, "prefix")
        BY <1>3, <3>2 DEF WritePrefix
      <4> QED
        BY <4>1, <2>1, <1>0, <1>1
    <3> QED
      BY <3>1, <3>2
  <2> QED
    BY <1>3, <2>2 DEF WritePrefix, StreamTypes
<1>4. CASE ReadBlank
  <2>1. Frame("keepalive", 0, <<>>) \in FrameSet
    BY <1>0 DEF Frame, FrameSet
  <2>2. frames \in Seq(FrameSet) /\ frames' = Append(frames, Frame("keepalive", 0, <<>>))
    BY <1>4 DEF ReadBlank, StreamTypes
  <2>3. frames' \in Seq(FrameSet)
    BY <2>1, <2>2, AppendProperties
  <2>4. lines' \in Seq(Lines)
    BY <1>4, <1>2 DEF ReadBlank
  <2> QED
    BY <1>4, <2>3, <2>4 DEF ReadBlank, StreamTypes
<1>5. ASSUME ReadDelta, Head(lines).piece \in Pieces
      PROVE  StreamTypes'
  <2>1. <<Head(lines).piece>> \in Seq(Pieces) /\ "delta" \in EventTypes
    BY <1>5 DEF EventTypes
  <2>2. Yields("delta", <<Head(lines).piece>>, "read")
    BY <1>5 DEF ReadDelta
  <2>3. frames' \in Seq(FrameSet) /\ api' \in ApiStates
    BY <2>1, <2>2, <1>1
  <2>4. lines' \in Seq(Lines)
    BY <1>5, <1>2 DEF ReadDelta
  <2> QED
    BY <1>5, <2>3, <2>4 DEF ReadDelta, StreamTypes
<1>6. CASE ReadOther
  <2>1. lines' \in Seq(Lines) /\ Head(lines).kind \in LineKinds
    BY <1>6, <1>2 DEF ReadOther, Lines
  <2>2. api' \in ApiStates
    BY <1>6, <2>1 DEF ReadOther, StreamTypes, ApiStates
  <2> QED
    BY <1>6, <2>1, <2>2 DEF ReadOther, StreamTypes
<1>7. CASE ReadEnd
  <2>1. api' \in ApiStates
    BY <1>7 DEF ReadEnd, StreamTypes, ApiStates
  <2> QED
    BY <1>7, <2>1 DEF ReadEnd, StreamTypes
<1>8. CASE ReadFails
  BY <1>8 DEF ReadFails, StreamTypes, ApiStates
<1>9. CASE WriteSuffix
  <2>1. SuffixAt \in 1..4 /\ api.incomplete \in BOOLEAN
    BY <1>9, SuffixPosition DEF WriteSuffix, StreamTypes, ApiStates
  <2>2. Suffix(api.incomplete)[SuffixAt] \in EventTypes
    BY <2>1, EventNames
  <2>3. frames' \in Seq(FrameSet) /\ api' \in ApiStates
    <3>1. CASE SuffixAt = 4
      <4>1. Yields(Suffix(api.incomplete)[SuffixAt], api.text, "close")
        BY <1>9, <3>1 DEF WriteSuffix
      <4> QED
        BY <4>1, <2>2, <1>0, <1>1
    <3>2. CASE SuffixAt # 4
      <4>1. Yields(Suffix(api.incomplete)[SuffixAt], api.text, "suffix")
        BY <1>9, <3>2 DEF WriteSuffix
      <4> QED
        BY <4>1, <2>2, <1>0, <1>1
    <3> QED
      BY <3>1, <3>2
  <2> QED
    BY <1>9, <2>3 DEF WriteSuffix, StreamTypes
<1>10. CASE WriteError
  <2>1. Yields("error", <<>>, "close") /\ "error" \in EventTypes
    BY <1>10 DEF WriteError, EventTypes
  <2>2. frames' \in Seq(FrameSet) /\ api' \in ApiStates
    BY <2>1, <1>0, <1>1
  <2> QED
    BY <1>10, <2>2 DEF WriteError, StreamTypes
<1>11. CASE CloseApi
  BY <1>11 DEF CloseApi, StreamTypes, ApiStates
<1>12. CASE CutDownLink
  <2>1. PICK n \in 0..Len(frames) : frames' = SubSeq(frames, 1, n)
    BY <1>12 DEF CutDownLink
  <2>2. frames' \in Seq(FrameSet)
    <3>1. frames \in Seq(FrameSet)
      BY DEF StreamTypes
    <3>2. n \in Int /\ \A i \in 1..n : frames[i] \in FrameSet
      BY <3>1, LenProperties
    <3> QED
      BY <2>1, <3>2, SubSeqProperties
  <2> QED
    BY <1>12, <2>2 DEF CutDownLink, StreamTypes
<1> QED
  BY <1>3, <1>4, <1>5, <1>6, <1>7, <1>8, <1>9, <1>10, <1>11, <1>12 DEF Api

LEMMA TypesOfDecoder ==
    ASSUME StreamTypes, Decoder \/ Cancels
    PROVE  StreamTypes'
<1>1. CASE Reads
  <2>1. frames \in Seq(FrameSet) /\ frames # <<>>
    BY <1>1 DEF Reads, StreamTypes
  <2>2. frames' \in Seq(FrameSet) /\ Head(frames) \in FrameSet
    BY <1>1, <2>1, HeadTailProperties DEF Reads
  <2> DEFINE f == Head(frames)
  <2>3. f.text \in Seq(Pieces) /\ f.type \in EventTypes \cup {"keepalive"}
    BY <2>2 DEF FrameSet
  <2>4. Grown(f.text) \in Seq(Pieces)
    BY <2>3, ConcatProperties DEF Grown, StreamTypes, DecoderStates
  <2>5. browser' \in {browser, Taken(f)} \cup {[browser EXCEPT !.result = r] : r \in {"invalid", "error"}}
    BY <1>1 DEF Reads
  <2>6. browser' \in DecoderStates
    <3>1. CASE browser' = Taken(f)
      <4> DEFINE text == IF f.type = "delta" THEN Grown(f.text) ELSE browser.text
                 suffix == IF browser.prefix < Len(Prefix) \/ f.type = "delta" THEN browser.suffix
                           ELSE browser.suffix + 1
                 prefix == IF browser.prefix < Len(Prefix) THEN browser.prefix + 1
                           ELSE browser.prefix
                 finished == IF f.type \in {"completed", "incomplete"} THEN f.type
                             ELSE browser.finished
      <4>1. text \in Seq(Pieces) /\ suffix \in Nat /\ prefix \in Nat
        BY <2>4 DEF StreamTypes, DecoderStates
      <4>2. finished \in {"completed", "incomplete", NotSeen}
        BY DEF StreamTypes, DecoderStates
      <4>3. Taken(f) = [browser EXCEPT !.expected = @ + 1, !.text = text, !.prefix = prefix,
                                       !.suffix = suffix, !.finished = finished]
        BY DEF Taken
      <4> HIDE DEF text, suffix, prefix, finished
      <4>4. browser \in DecoderStates /\ browser.expected + 1 \in Nat
        BY DEF StreamTypes, DecoderStates
      <4>5. [browser EXCEPT !.expected = @ + 1, !.text = text, !.prefix = prefix,
                            !.suffix = suffix, !.finished = finished] \in DecoderStates
        BY <4>1, <4>2, <4>4 DEF DecoderStates
      <4> QED
        BY <3>1, <4>3, <4>5
    <3>2. CASE browser' # Taken(f)
      <4>1. PICK r \in {"invalid", "error", browser.result} :
               browser' = [browser EXCEPT !.result = r]
        BY <3>2, <2>5 DEF StreamTypes, DecoderStates
      <4> QED
        BY <4>1 DEF StreamTypes, DecoderStates
    <3> QED
      BY <3>1, <3>2
  <2> QED
    BY <1>1, <2>2, <2>6 DEF Reads, StreamTypes
<1>2. CASE ReadsEnd
  <2>1. browser.finished \in {"completed", "incomplete", NotSeen}
    BY DEF StreamTypes, DecoderStates
  <2> QED
    BY <1>2, <2>1 DEF ReadsEnd, StreamTypes, DecoderStates
<1>3. CASE Cancels
  <2>1. frames' \in Seq(FrameSet)
    BY <1>3 DEF Cancels
  <2>2. browser' \in DecoderStates
    BY <1>3 DEF Cancels, StreamTypes, DecoderStates
  <2> QED
    BY <1>3, <2>1, <2>2 DEF Cancels, StreamTypes
<1> QED
  BY <1>1, <1>2, <1>3 DEF Decoder

-----------------------------------------------------------------------------
(***************************************************************************)
(* The thread and the queue of one item.                                   *)
(***************************************************************************)
LEMMA OneIsBit == \A item : One(item) \in {0, 1} /\ (One(item) = 1 <=> item.kind = "delta")
BY DEF One

LEMMA PieceProduced ==
    ASSUME StreamTypes, NEW piece \in Pieces, ReadPiece(piece)
    PROVE  /\ Len(produced') = Len(produced) + 1
           /\ \A i \in 1..Len(produced) : produced'[i] = produced[i]
           /\ produced'[Len(produced) + 1] = piece
           /\ One(reader.item) = 0 \/ reader.item # NoItem
           /\ One(reader'.item) = 1 /\ reader'.item.piece = piece /\ reader'.place = "handing"
<1>1. produced \in Seq(Pieces) /\ produced' = Append(produced, piece)
  BY DEF ReadPiece, StreamTypes
<1>2. /\ Len(produced') = Len(produced) + 1
      /\ \A i \in 1..Len(produced) : produced'[i] = produced[i]
      /\ produced'[Len(produced) + 1] = piece
  BY <1>1, AppendProperties
<1>3. reader' = [place |-> "handing", item |-> [kind |-> "delta", piece |-> piece]]
  BY DEF ReadPiece, Holds, Item
<1> QED
  BY <1>2, <1>3 DEF One, NoItem, Item

LEMMA ThreadStaysSound ==
    ASSUME StreamInvariant, StreamNext
    PROVE  ThreadSound'
<1>0. StreamTypes /\ ThreadSound /\ Len(produced) \in Nat
  BY Shapes DEF StreamInvariant
<1>1. One(NoItem) = 0
  BY DEF One, NoItem, Item
<1>2. ASSUME NEW piece \in Pieces, ReadPiece(piece) PROVE ThreadSound'
  <2>1. reader.place = "reading" /\ reader.item = NoItem /\ One(reader.item) = 0
    BY <1>0, <1>1, <1>2 DEF ReadPiece, ThreadSound
  <2>2. /\ Len(produced') = Len(produced) + 1
        /\ \A i \in 1..Len(produced) : produced'[i] = produced[i]
        /\ produced'[Len(produced) + 1] = piece
        /\ One(reader'.item) = 1 /\ reader'.item.piece = piece /\ reader'.place = "handing"
    BY <1>0, <1>2, PieceProduced
  <2>3. pending' = pending /\ InQueue' = InQueue /\ body = "loop" /\ body' = body
        /\ upLink' = upLink
    BY <1>2 DEF ReadPiece, InQueue
  <2>4. InQueue = 1 /\ body # "over" =>
            /\ Len(produced) > 0 /\ Head(pending).piece = produced[Len(produced)]
    BY <1>0, <2>1 DEF ThreadSound
  <2>5. pending # <<>> => InQueue = 1
    BY <1>0, <2>1, OneIsBit DEF ThreadSound, InQueue
  <2>6. produced' # <<>>
    BY <1>0, <2>2
  <2> QED
    BY <1>0, <2>1, <2>2, <2>3, <2>4, <2>5, <2>6 DEF ThreadSound
<1>3. ASSUME NEW how \in {"stop", "length", "error"}, OllamaEnds(how) PROVE ThreadSound'
  <2>1. reader.place = "reading" /\ reader.item = NoItem /\ One(reader.item) = 0
    BY <1>0, <1>1, <1>3 DEF OllamaEnds, ThreadSound
  <2>2. reader'.place = "handing" /\ One(reader'.item) = 0
    BY <1>3 DEF OllamaEnds, Holds, OllamaItem, Item, One
  <2>3. InQueue' = InQueue
    BY <1>3 DEF OllamaEnds, InQueue
  <2>4. pending # <<>> => InQueue = 1
    BY <1>0, <2>1, OneIsBit DEF ThreadSound, InQueue
  <2> QED
    BY <1>0, <1>3, <2>1, <2>2, <2>3, <2>4 DEF ThreadSound, OllamaEnds
<1>4. CASE Publish
  <2>1. pending' = <<reader.item>> /\ Head(pending') = reader.item /\ Len(pending') = 1
    <3>1. pending = <<>> /\ pending' = Append(pending, reader.item)
      BY <1>4 DEF Publish, Room
    <3> QED
      BY <3>1
  <2>2. /\ reader'.item = NoItem
        /\ reader'.place = IF reader.item.kind = "delta" THEN "reading" ELSE "ended"
    BY <1>4 DEF Publish, Holds
  <2>3. InQueue' = One(reader.item)
    BY <2>1 DEF InQueue
  <2>4. body # "over" /\ reader.place = "handing"
    BY <1>4 DEF Publish, Stopped
  <2> QED
    BY <1>0, <1>1, <1>4, <2>1, <2>2, <2>3, <2>4, OneIsBit DEF ThreadSound, Publish
<1>5. CASE GiveUp
  <2>1. body = "over" /\ reader'.item = NoItem /\ reader'.place = "ended" /\ InQueue' = InQueue
    BY <1>5 DEF GiveUp, Stopped, Holds, InQueue
  <2> QED
    BY <1>0, <1>1, <1>5, <2>1 DEF ThreadSound, GiveUp
<1>6. CASE Started
  <2>1. InQueue' = InQueue /\ upLink = "open"
    BY <1>6 DEF Started, Writes, InQueue
  <2> QED
    BY <1>0, <1>6, <2>1 DEF ThreadSound, Started
<1>7. ASSUME NEW kind \in {"error", "cancelled"}, NotStarted(kind) PROVE ThreadSound'
  <2>1. InQueue' = InQueue /\ upLink = "open" /\ body = "queue" /\ reader.place = "reading"
    BY <1>0, <1>7 DEF NotStarted, Writes, InQueue, ThreadSound
  <2>2. reader'.place = "ended" /\ reader'.item = reader.item
    BY <1>0, <1>7 DEF NotStarted, StreamTypes
  <2> QED
    BY <1>0, <1>1, <1>7, <2>1, <2>2 DEF ThreadSound, NotStarted
<1>8. CASE Pass
  <2>1. pending' = <<>> /\ Len(pending') = 0 /\ InQueue' = 0
    BY <1>8 DEF Pass, InQueue
  <2> QED
    BY <1>0, <1>8, <2>1 DEF ThreadSound, Pass
<1>9. ASSUME NEW kind \in {"stop", "length", "error"}, LastLine(kind) PROVE ThreadSound'
  <2>1. pending' = <<>> /\ Len(pending') = 0 /\ InQueue' = 0 /\ upLink = "open"
    BY <1>9 DEF LastLine, InQueue, Writes
  <2>2. pending # <<>> /\ InQueue = 0
    BY <1>9 DEF LastLine, InQueue, One
  <2>3. reader.place = "ended"
    BY <1>0, <2>2 DEF ThreadSound
  <2> QED
    BY <1>0, <1>1, <1>9, <2>1, <2>3 DEF ThreadSound, LastLine
<1>10. CASE EndOfLines
  <2>1. InQueue' = InQueue
    BY <1>10 DEF EndOfLines, InQueue
  <2> QED
    BY <1>0, <1>10, <2>1 DEF ThreadSound, EndOfLines
<1>11. CASE BodyClosed
  <2>1. InQueue' = InQueue
    BY <1>11 DEF BodyClosed, InQueue
  <2>2. reader'.item = reader.item /\ reader'.place \in {reader.place, "ended"}
        /\ (reader.place # "handing" => reader'.place # "handing")
        /\ (reader.place = "ended" => reader'.place = "ended")
        /\ (reader'.place # "handing" => reader.place # "handing" \/ body = "queue")
    BY <1>0, <1>11 DEF BodyClosed, StreamTypes
  <2> QED
    BY <1>0, <1>11, <2>1, <2>2 DEF ThreadSound, BodyClosed
<1>12. CASE UNCHANGED <<produced, reader, pending, body>> /\ upLink' \in {upLink, "cut"}
  <2>1. InQueue' = InQueue
    BY <1>12 DEF InQueue
  <2> QED
    BY <1>0, <1>12, <2>1 DEF ThreadSound
<1>13. CASE Heartbeat \/ Api \/ Decoder \/ CutUpLink \/ CutDownLink \/ Cancels
            \/ UNCHANGED streamVars
  <2>1. UNCHANGED <<produced, reader, pending, body>> /\ upLink' \in {upLink, "cut"}
    BY <1>13 DEF Heartbeat, Api, Decoder, CutUpLink, CutDownLink, Cancels, streamVars, WritePrefix,
       ReadBlank, ReadDelta, ReadOther, ReadEnd, ReadFails, WriteSuffix, WriteError, CloseApi,
       Reads, ReadsEnd
  <2> QED
    BY <1>12, <2>1
<1>14. CASE Thread
  BY <1>14, <1>2, <1>3, <1>4, <1>5, <1>13 DEF Thread, Retry
<1>15. CASE Granite
  BY <1>15, <1>6, <1>7, <1>8, <1>9, <1>10, <1>11 DEF Granite
<1> QED
  BY <1>13, <1>14, <1>15 DEF StreamNext

-----------------------------------------------------------------------------
(***************************************************************************)
(* The API.                                                                *)
(***************************************************************************)
\* The text that is read next is the next that Ollama generated.
LEMMA NextPiece ==
    ASSUME StreamTypes, LinesSound, api.place = "read",
           lines # <<>>, Head(lines).kind = "delta"
    PROVE  /\ Len(api.text) < Len(produced)
           /\ Head(lines).piece = produced[Len(api.text) + 1]
           /\ Head(lines).piece \in Pieces
<1>1. PICK at \in [1..Len(lines) + 1 -> Nat] : LinesNumbered(at)
  BY DEF LinesSound
<1>2. lines \in Seq(Lines) /\ Head(lines) = lines[1] /\ 1 \in 1..Len(lines) /\ lines[1] \in Lines
  BY HeadTailProperties, LenProperties DEF StreamTypes
<1>3. lines[1] \in Deltas
  BY <1>2 DEF Deltas
<1>4. at[1] = Len(api.text) /\ at[1] < Len(produced) /\ lines[1].piece = produced[at[1] + 1]
  BY <1>1, <1>2, <1>3 DEF LinesNumbered, Numbers
<1>5. Len(api.text) \in Nat /\ Len(produced) \in Nat
  BY Shapes
<1>6. Len(api.text) + 1 \in 1..Len(produced)
  BY <1>4, <1>5
<1>7. produced[Len(api.text) + 1] \in Pieces
  BY <1>6, LenProperties DEF StreamTypes
<1> QED
  BY <1>2, <1>4, <1>7

LEMMA TypesStay ==
    ASSUME StreamInvariant, StreamNext
    PROVE  StreamTypes'
<1>0. StreamTypes /\ ApiSound /\ LinesSound
  BY DEF StreamInvariant
<1>1. ReadDelta => Head(lines).piece \in Pieces
  BY <1>0, NextPiece DEF ReadDelta
<1>2. CASE UNCHANGED streamVars
  BY <1>0, <1>2 DEF StreamTypes, streamVars
<1> QED
  BY <1>0, <1>1, <1>2, TypesOfThread, TypesOfGranite, TypesOfApi, TypesOfDecoder DEF StreamNext

(***************************************************************************)
(* How a step changes what the API knows: one step of it, or none.         *)
(***************************************************************************)
Yielding(type, text, place) ==
    /\ downLink = "open" /\ downLink' = downLink
    /\ frames' = Append(frames, Frame(type, api.seq, text)) /\ Frame(type, api.seq, text) \in FrameSet
    /\ type \in EventTypes
    /\ api'.seq = api.seq + 1 /\ api'.place = place
    /\ api'.terminal = api.terminal /\ api'.incomplete = api.incomplete
    /\ UNCHANGED <<produced, upLink, browser>>

ApiPrefix ==
    /\ api.place = "prefix" /\ api'.text = api.text
    /\ Yielding(Prefix[api.seq + 1], <<>>, IF api.seq + 1 = Len(Prefix) THEN "read" ELSE "prefix")

ApiDelta ==
    /\ api.place = "read"
    /\ lines # <<>> /\ Head(lines).kind = "delta" /\ lines' = Tail(lines)
    /\ api'.text = Append(api.text, Head(lines).piece)
    /\ Yielding("delta", <<Head(lines).piece>>, "read")

ApiDecides ==
    /\ api.place = "read"
    /\ api'.seq = api.seq /\ api'.text = api.text
    /\ \/ api'.place \in {"read", "error"}
       \/ Sealed'
    /\ api'.place \in {"read", "error", "suffix"}
    /\ UNCHANGED <<produced, frames, downLink, upLink, browser>>

ApiSuffix ==
    /\ api.place = "suffix" /\ api'.text = api.text
    /\ Yielding(Suffix(api.incomplete)[SuffixAt], api.text, IF SuffixAt = 4 THEN "close" ELSE "suffix")

ApiError ==
    /\ api.place = "error" /\ api'.text = api.text
    /\ Yielding("error", <<>>, "close")

ApiCloses ==
    /\ api.place = "close" \/ downLink = "cut"
    /\ api' = [api EXCEPT !.place = "over"]
    /\ downLink' = IF downLink = "open" THEN "ended" ELSE downLink
    /\ upLink' = IF upLink = "open" THEN "cut" ELSE upLink
    /\ UNCHANGED <<produced, frames, browser>>

LEMMA YieldsYielding ==
    ASSUME StreamTypes, NEW type \in EventTypes, NEW text \in Seq(Pieces),
           NEW place \in {"prefix", "read", "suffix", "close"}, Yields(type, text, place),
           UNCHANGED <<produced, upLink, downLink, browser>>
    PROVE  /\ Yielding(type, text, place)
           /\ api'.text = IF type = "delta" THEN api.text \o text ELSE api.text
BY Yielded DEF Yielding

LEMMA ApiSteps ==
    ASSUME StreamInvariant, Api
    PROVE  \/ ApiPrefix \/ ApiDelta \/ ApiDecides \/ ApiSuffix \/ ApiError \/ ApiCloses
           \/ ReadBlank
<1>0. StreamTypes /\ ThreadSound /\ LinesSound /\ ApiSound
  BY DEF StreamInvariant
<1>1. <<>> \in Seq(Pieces) /\ api.text \in Seq(Pieces) /\ api.seq \in Nat
  BY <1>0 DEF StreamTypes, ApiStates
<1>2. CASE WritePrefix
  <2>1. Prefix[api.seq + 1] \in EventTypes \ {"delta"}
    BY <1>0, <1>2, EventNames, Shapes DEF ApiSound, WritePrefix
  <2>2. (IF api.seq + 1 = Len(Prefix) THEN "read" ELSE "prefix") \in {"prefix", "read", "suffix", "close"}
    OBVIOUS
  <2>3. Yields(Prefix[api.seq + 1], <<>>, IF api.seq + 1 = Len(Prefix) THEN "read" ELSE "prefix")
        /\ UNCHANGED <<produced, upLink, downLink, browser>>
    BY <1>2 DEF WritePrefix
  <2>4. /\ Yielding(Prefix[api.seq + 1], <<>>, IF api.seq + 1 = Len(Prefix) THEN "read" ELSE "prefix")
        /\ api'.text = api.text
    BY <1>0, <1>1, <2>1, <2>2, <2>3, YieldsYielding
  <2> QED
    BY <1>2, <2>4 DEF WritePrefix, ApiPrefix
<1>3. CASE ReadDelta
  <2> DEFINE piece == Head(lines).piece
  <2>1. piece \in Pieces
    BY <1>0, <1>3, NextPiece DEF ReadDelta
  <2>2. Yields("delta", <<piece>>, "read") /\ UNCHANGED <<produced, upLink, downLink, browser>>
    BY <1>3 DEF ReadDelta
  <2>3. <<piece>> \in Seq(Pieces) /\ "delta" \in EventTypes
    BY <2>1 DEF EventTypes
  <2>4. Yielding("delta", <<piece>>, "read") /\ api'.text = api.text \o <<piece>>
    BY <1>0, <2>2, <2>3, YieldsYielding
  <2>5. api'.text = Append(api.text, piece)
    BY <1>1, <2>1, <2>4, AppendIsConcat
  <2> QED
    BY <1>3, <2>4, <2>5 DEF ReadDelta, ApiDelta
<1>4. CASE ReadOther
  BY <1>0, <1>4 DEF ReadOther, ApiDecides, StreamTypes, ApiStates
<1>5. CASE ReadFails
  BY <1>0, <1>5 DEF ReadFails, ApiDecides, StreamTypes, ApiStates
<1>6. CASE ReadEnd
  <2>1. CASE api' = [api EXCEPT !.place = "error"]
    BY <1>0, <1>6, <2>1 DEF ReadEnd, ApiDecides, StreamTypes, ApiStates
  <2>2. CASE /\ Completes
             /\ api' = [api EXCEPT !.place = "suffix", !.incomplete = api.terminal = "length"]
    <3>1. lines = <<>> /\ api.place = "read" /\ upLink = "ended"
          /\ UNCHANGED <<produced, lines, upLink, frames, downLink, browser>>
      BY <1>6 DEF ReadEnd
    <3>2. /\ api'.place = "suffix" /\ api'.incomplete = (api.terminal = "length")
          /\ api'.text = api.text /\ api'.terminal = api.terminal /\ api'.seq = api.seq
      BY <1>0, <2>2 DEF StreamTypes, ApiStates
    <3>3. api.text = produced
      <4>1. PICK at \in [1..Len(lines) + 1 -> Nat] : LinesNumbered(at)
        BY <1>0, <3>1 DEF LinesSound
      <4>2. Len(api.text) = Len(produced)
        BY <3>1, <4>1 DEF LinesNumbered, Numbers
      <4>3. \A i \in 1..Len(api.text) : api.text[i] = produced[i]
        BY <1>0 DEF ApiSound, Agrees
      <4> QED
        BY <1>0, <1>1, <4>2, <4>3, SeqEqual DEF StreamTypes
    <3>4. Sealed'
      BY <2>2, <3>1, <3>2, <3>3 DEF Sealed, Completes, IsBlank
    <3> QED
      BY <3>1, <3>2, <3>4 DEF ApiDecides
  <2> QED
    BY <1>6, <2>1, <2>2 DEF ReadEnd
<1>7. CASE WriteSuffix
  <2>1. SuffixAt \in 1..4 /\ api.incomplete \in BOOLEAN
    BY <1>0, <1>7, SuffixPosition DEF WriteSuffix, StreamTypes, ApiStates
  <2>2. Suffix(api.incomplete)[SuffixAt] \in EventTypes \ {"delta"}
    BY <2>1, EventNames
  <2>3. (IF SuffixAt = 4 THEN "close" ELSE "suffix") \in {"prefix", "read", "suffix", "close"}
    OBVIOUS
  <2>4. Yields(Suffix(api.incomplete)[SuffixAt], api.text, IF SuffixAt = 4 THEN "close" ELSE "suffix")
        /\ UNCHANGED <<produced, upLink, downLink, browser>>
    BY <1>7 DEF WriteSuffix
  <2>5. /\ Yielding(Suffix(api.incomplete)[SuffixAt], api.text,
                    IF SuffixAt = 4 THEN "close" ELSE "suffix")
        /\ api'.text = api.text
    BY <1>0, <1>1, <2>2, <2>3, <2>4, YieldsYielding
  <2> QED
    BY <1>7, <2>5 DEF WriteSuffix, ApiSuffix
<1>8. CASE WriteError
  <2>1. Yields("error", <<>>, "close") /\ UNCHANGED <<produced, upLink, downLink, browser>>
        /\ "error" \in EventTypes \ {"delta"}
    BY <1>8 DEF WriteError, EventTypes
  <2>2. Yielding("error", <<>>, "close") /\ api'.text = api.text
    BY <1>0, <1>1, <2>1, YieldsYielding
  <2> QED
    BY <1>8, <2>2 DEF WriteError, ApiError
<1>9. CASE CloseApi
  BY <1>9 DEF CloseApi, ApiCloses
<1> QED
  BY <1>2, <1>3, <1>4, <1>5, <1>6, <1>7, <1>8, <1>9 DEF Api

(***************************************************************************)
(* A step of another process leaves the API alone, and what it can change  *)
(* of the rest.                                                            *)
(***************************************************************************)
LEMMA OtherSteps ==
    ASSUME StreamInvariant, StreamNext, ~Api
    PROVE  /\ api' = api
           /\ \/ produced' = produced
              \/ /\ upLink # "ended" /\ Len(produced') = Len(produced) + 1
                 /\ \A i \in 1..Len(produced) : produced'[i] = produced[i]
           /\ upLink = "ended" => upLink' = "ended"
           /\ downLink' \in {downLink, "cut"}
           /\ downLink = "ended" => downLink' = "ended"
<1>0. StreamTypes /\ ThreadSound
  BY DEF StreamInvariant
<1>1. CASE \E piece \in Pieces : ReadPiece(piece)
  <2>1. PICK piece \in Pieces : ReadPiece(piece)
    BY <1>1
  <2>2. /\ Len(produced') = Len(produced) + 1
        /\ \A i \in 1..Len(produced) : produced'[i] = produced[i]
    BY <1>0, <2>1, PieceProduced
  <2>3. upLink # "ended"
    BY <1>0, <2>1 DEF ReadPiece, ThreadSound
  <2> QED
    BY <2>1, <2>2, <2>3 DEF ReadPiece
<1>2. CASE Thread /\ ~\E piece \in Pieces : ReadPiece(piece)
  BY <1>2 DEF Thread, OllamaEnds, Publish, Retry, GiveUp, streamVars
<1>3. CASE Granite
  <2>1. api' = api /\ produced' = produced /\ downLink' = downLink
    BY <1>3 DEF Granite, Started, NotStarted, Pass, LastLine, EndOfLines, BodyClosed
  <2>2. upLink = "ended" => upLink' = "ended"
    BY <1>3 DEF Granite, Started, NotStarted, Pass, LastLine, EndOfLines, BodyClosed
  <2> QED
    BY <2>1, <2>2
<1>4. CASE Heartbeat \/ Decoder \/ CutUpLink \/ CutDownLink \/ Cancels \/ UNCHANGED streamVars
  BY <1>4 DEF Heartbeat, Decoder, Reads, ReadsEnd, CutUpLink, CutDownLink, Cancels, streamVars
<1> QED
  BY <1>1, <1>2, <1>3, <1>4 DEF StreamNext

(***************************************************************************)
(* What is known stays known: the text grows, a sealed answer stays as it  *)
(* is, and only an error makes the answer one that has failed.             *)
(***************************************************************************)
TextGrows ==
    /\ Len(api.text) <= Len(api'.text)
    /\ \A i \in 1..Len(api.text) : api'.text[i] = api.text[i]
    /\ api'.text = api.text \/ api.place = "read"

LEMMA KnowledgeGrows ==
    ASSUME StreamInvariant, StreamNext
    PROVE  /\ TextGrows
           /\ api.seq <= api'.seq
           /\ Sealed => /\ Sealed' /\ api'.text = api.text /\ produced' = produced
                        /\ api'.incomplete = api.incomplete
           /\ Sealed /\ ~Errored => ~Errored'
           /\ api.place \in {"close", "over"} => api'.place \in {"close", "over"}
<1>0. StreamTypes /\ StreamTypes' /\ ApiSound /\ Len(api.text) \in Nat /\ api.seq \in Nat
      /\ AfterText \in Nat /\ AfterText = 4 + Len(api.text)
  BY Shapes, TypesStay DEF StreamInvariant
<1>1. ASSUME api' = api, produced' = produced \/ upLink # "ended",
             upLink = "ended" => upLink' = "ended",
             Errored' => Errored
      PROVE  /\ TextGrows
             /\ api.seq <= api'.seq
             /\ Sealed => /\ Sealed' /\ api'.text = api.text /\ produced' = produced
                          /\ api'.incomplete = api.incomplete
             /\ Sealed /\ ~Errored => ~Errored'
             /\ api.place \in {"close", "over"} => api'.place \in {"close", "over"}
  <2>1. TextGrows
    BY <1>0, <1>1 DEF TextGrows
  <2>2. Sealed => Sealed'
    BY <1>1 DEF Sealed
  <2> QED
    BY <1>0, <1>1, <2>1, <2>2 DEF Sealed
<1>2. CASE ~Api
  <2>1. /\ api' = api
        /\ produced' = produced \/ upLink # "ended"
        /\ upLink = "ended" => upLink' = "ended"
        /\ downLink' \in {downLink, "cut"}
    BY <1>2, OtherSteps
  <2>2. Errored' => Errored
    <3>1. AfterText' = AfterText
      BY <2>1 DEF AfterText
    <3> QED
      BY <2>1, <3>1 DEF Errored
  <2> QED
    BY <1>1, <2>1, <2>2
<1>3. CASE ReadBlank
  <2>1. /\ api' = api /\ produced' = produced /\ upLink' = upLink /\ downLink' = downLink
    BY <1>3 DEF ReadBlank
  <2>2. Errored' => Errored
    BY <2>1 DEF Errored, AfterText
  <2> QED
    BY <1>1, <2>1, <2>2
<1>4. CASE ApiPrefix \/ ApiError
  <2>1. api'.text = api.text /\ api'.seq = api.seq + 1 /\ api.place \in {"prefix", "error"}
    BY <1>4 DEF ApiPrefix, ApiError, Yielding
  <2>2. TextGrows /\ ~Sealed
    BY <1>0, <2>1 DEF TextGrows, Sealed
  <2> QED
    BY <1>0, <2>1, <2>2
<1>5. CASE ApiDelta
  <2>1. api.place = "read" /\ api'.text = Append(api.text, Head(lines).piece)
        /\ api'.seq = api.seq + 1
    BY <1>5 DEF ApiDelta, Yielding
  <2>2. Head(lines).piece \in Pieces
    BY <1>5, NextPiece DEF ApiDelta, StreamInvariant
  <2>3. TextGrows
    <3>1. api.text \in Seq(Pieces)
      BY <1>0 DEF StreamTypes, ApiStates
    <3>2. /\ Len(api'.text) = Len(api.text) + 1
          /\ \A i \in 1..Len(api.text) : api'.text[i] = api.text[i]
      BY <2>1, <2>2, <3>1, AppendProperties
    <3> QED
      BY <1>0, <2>1, <3>2 DEF TextGrows
  <2> QED
    BY <1>0, <2>1, <2>3 DEF Sealed
<1>6. CASE ApiDecides
  <2>1. api'.text = api.text /\ api'.seq = api.seq /\ api.place = "read"
    BY <1>6 DEF ApiDecides
  <2>2. TextGrows /\ ~Sealed
    BY <1>0, <2>1 DEF TextGrows, Sealed
  <2> QED
    BY <1>0, <2>1, <2>2
<1>7. CASE ApiSuffix
  <2>1. /\ api'.text = api.text /\ api'.seq = api.seq + 1 /\ api.place = "suffix"
        /\ api'.place = (IF SuffixAt = 4 THEN "close" ELSE "suffix")
        /\ api'.terminal = api.terminal /\ api'.incomplete = api.incomplete
        /\ UNCHANGED <<produced, upLink>>
    BY <1>7 DEF ApiSuffix, Yielding
  <2>2. TextGrows
    BY <1>0, <2>1 DEF TextGrows
  <2>3. Sealed => Sealed'
    BY <2>1 DEF Sealed, IsBlank
  <2>4. ~Errored'
    <3>1. SuffixAt = api.seq - AfterText + 1 /\ SuffixAt \in 1..4
      BY <1>0, <2>1, SuffixPosition
    <3>2. AfterText' = AfterText
      BY <2>1 DEF AfterText
    <3>3. SuffixAt = 4 => api'.seq = AfterText + 4
      BY <1>0, <2>1, <3>1
    <3> QED
      BY <1>0, <2>1, <3>2, <3>3 DEF Errored
  <2> QED
    BY <1>0, <2>1, <2>2, <2>3, <2>4
<1>8. CASE ApiCloses
  <2>1. /\ api'.text = api.text /\ api'.seq = api.seq /\ api'.place = "over"
        /\ api'.terminal = api.terminal /\ api'.incomplete = api.incomplete
        /\ produced' = produced
        /\ upLink = "ended" => upLink' = "ended"
        /\ downLink = "cut" => downLink' = "cut"
        /\ api.place = "close" \/ downLink = "cut"
    BY <1>0, <1>8 DEF ApiCloses, StreamTypes, ApiStates
  <2>2. TextGrows
    BY <1>0, <2>1 DEF TextGrows
  <2>3. Sealed => Sealed'
    BY <2>1 DEF Sealed, IsBlank
  <2>4. Errored' => Errored
    <3>1. AfterText' = AfterText
      BY <2>1 DEF AfterText
    <3> QED
      BY <2>1, <3>1 DEF Errored
  <2> QED
    BY <1>0, <2>1, <2>2, <2>3, <2>4
<1> QED
  BY <1>2, <1>3, <1>4, <1>5, <1>6, <1>7, <1>8, ApiSteps

LEMMA ApiStaysSound ==
    ASSUME StreamInvariant, StreamNext
    PROVE  ApiSound'
<1>0. StreamTypes /\ StreamTypes' /\ ApiSound /\ Len(api.text) \in Nat /\ api.seq \in Nat
      /\ AfterText \in Nat /\ AfterText = 4 + Len(api.text) /\ Len(Prefix) = 4
      /\ Len(produced) \in Nat
  BY Shapes, TypesStay DEF StreamInvariant
<1>1. Sealed => Sealed'
  BY KnowledgeGrows
<1>2. CASE ~Api
  <2>1. /\ api' = api
        /\ \/ produced' = produced
           \/ /\ Len(produced') = Len(produced) + 1
              /\ \A i \in 1..Len(produced) : produced'[i] = produced[i]
        /\ downLink' \in {downLink, "cut"}
        /\ downLink = "ended" => downLink' = "ended"
    BY <1>2, OtherSteps
  <2>2. Agrees(api.text, produced)'
    BY <1>0, <2>1 DEF ApiSound, Agrees
  <2>3. AfterText' = AfterText
    BY <2>1 DEF AfterText
  <2>4. Closing => Closing'
    BY <1>1, <2>1, <2>3 DEF Closing
  <2> QED
    BY <1>0, <1>1, <2>1, <2>2, <2>3, <2>4 DEF ApiSound
<1>3. CASE ReadBlank
  <2>1. UNCHANGED <<api, produced, downLink, upLink>>
    BY <1>3 DEF ReadBlank
  <2>2. AfterText' = AfterText
    BY <2>1 DEF AfterText
  <2>3. Closing => Closing'
    BY <1>1, <2>1, <2>2 DEF Closing
  <2> QED
    BY <1>0, <1>1, <2>1, <2>2, <2>3 DEF ApiSound
<1>4. CASE ApiPrefix
  <2>1. /\ api'.text = api.text /\ api.text = <<>> /\ api'.seq = api.seq + 1 /\ api.seq < 4
        /\ api'.place = IF api.seq + 1 = 4 THEN "read" ELSE "prefix"
        /\ produced' = produced /\ downLink' = "open"
    BY <1>0, <1>4 DEF ApiPrefix, Yielding, ApiSound
  <2>2. AfterText' = AfterText /\ AfterText = 4
    BY <1>0, <2>1 DEF AfterText
  <2> QED
    BY <1>0, <2>1, <2>2 DEF ApiSound
<1>5. CASE ApiDelta
  <2>1. /\ api.place = "read" /\ api'.place = "read" /\ api'.seq = api.seq + 1
        /\ api'.text = Append(api.text, Head(lines).piece)
        /\ produced' = produced /\ downLink' = "open"
    BY <1>5 DEF ApiDelta, Yielding
  <2>2. /\ Head(lines).piece \in Pieces /\ Len(api.text) < Len(produced)
        /\ Head(lines).piece = produced[Len(api.text) + 1]
    BY <1>5, NextPiece DEF ApiDelta, StreamInvariant
  <2>3. /\ Len(api'.text) = Len(api.text) + 1
        /\ \A i \in 1..Len(api.text) : api'.text[i] = api.text[i]
        /\ api'.text[Len(api.text) + 1] = Head(lines).piece
    <3>1. api.text \in Seq(Pieces)
      BY <1>0 DEF StreamTypes, ApiStates
    <3> QED
      BY <2>1, <2>2, <3>1, AppendProperties
  <2>4. Agrees(api.text, produced)'
    <3>1. \A i \in 1..Len(api.text) : api.text[i] = produced[i]
      BY <1>0 DEF ApiSound, Agrees
    <3>2. Len(api.text) \in Nat /\ Len(produced) \in Nat
      BY <1>0, Shapes
    <3>3. Len(api'.text) <= Len(produced)
      BY <2>2, <2>3, <3>2
    <3>4. ASSUME NEW i \in 1..Len(api'.text) PROVE api'.text[i] = produced[i]
      <4>1. i = Len(api.text) + 1 \/ i \in 1..Len(api.text)
        BY <2>3, <3>2
      <4> QED
        BY <2>2, <2>3, <3>1, <4>1
    <3> QED
      BY <2>1, <3>3, <3>4 DEF Agrees
  <2>5. AfterText' = AfterText + 1
    BY <1>0, <2>3 DEF AfterText
  <2> QED
    BY <1>0, <2>1, <2>4, <2>5 DEF ApiSound
<1>6. CASE ApiDecides
  <2>1. /\ api.place = "read" /\ api'.seq = api.seq /\ api'.text = api.text
        /\ api'.place \in {"read", "error"} \/ (Sealed' /\ api'.place = "suffix")
        /\ produced' = produced /\ downLink' = downLink
    BY <1>6 DEF ApiDecides
  <2>2. AfterText' = AfterText
    BY <2>1 DEF AfterText
  <2> QED
    BY <1>0, <2>1, <2>2 DEF ApiSound
<1>7. CASE ApiSuffix
  <2>1. /\ api.place = "suffix" /\ api'.seq = api.seq + 1 /\ api'.text = api.text
        /\ api'.place = (IF SuffixAt = 4 THEN "close" ELSE "suffix")
        /\ produced' = produced /\ downLink' = "open"
    BY <1>7 DEF ApiSuffix, Yielding
  <2>2. AfterText' = AfterText
    BY <2>1 DEF AfterText
  <2>3. SuffixAt \in 1..4 /\ SuffixAt = api.seq - AfterText + 1 /\ Sealed'
    BY <1>0, <1>1, <2>1, SuffixPosition DEF ApiSound
  <2>4. SuffixAt = 4 => Closing'
    BY <1>0, <2>1, <2>2, <2>3 DEF Closing
  <2>5. SuffixAt # 4 => api'.seq \in AfterText'..AfterText' + 3
    <3>1. SuffixAt # 4 => api.seq + 1 \in AfterText..AfterText + 3
      <4>1. \A a, n \in Nat, k \in 1..4 :
               k = n - a + 1 /\ k # 4 => n + 1 \in a..a + 3
        OBVIOUS
      <4> QED
        BY <1>0, <2>3, <4>1
    <3> QED
      BY <2>1, <2>2, <3>1
  <2> QED
    BY <1>0, <2>1, <2>2, <2>3, <2>4, <2>5 DEF ApiSound
<1>8. CASE ApiError
  <2>1. /\ api.place = "error" /\ api'.seq = api.seq + 1 /\ api'.text = api.text
        /\ api'.place = "close" /\ produced' = produced /\ downLink' = "open"
    BY <1>8 DEF ApiError, Yielding
  <2>2. AfterText' = AfterText
    BY <2>1 DEF AfterText
  <2>3. Closing'
    BY <1>0, <2>1, <2>2 DEF ApiSound, Closing
  <2> QED
    BY <1>0, <2>1, <2>2, <2>3 DEF ApiSound
<1>9. CASE ApiCloses
  <2>1. /\ api'.text = api.text /\ api'.seq = api.seq /\ api'.place = "over"
        /\ produced' = produced
        /\ api.place = "close" \/ downLink = "cut"
        /\ downLink = "cut" => downLink' = "cut"
    BY <1>0, <1>9 DEF ApiCloses, StreamTypes, ApiStates
  <2>2. AfterText' = AfterText
    BY <2>1 DEF AfterText
  <2>3. Closing => Closing'
    BY <1>1, <2>1, <2>2 DEF Closing
  <2> QED
    BY <1>0, <2>1, <2>2, <2>3 DEF ApiSound
<1> QED
  BY <1>2, <1>3, <1>4, <1>5, <1>6, <1>7, <1>8, <1>9, ApiSteps

-----------------------------------------------------------------------------
(***************************************************************************)
(* The lines.                                                              *)
(***************************************************************************)
\* A line is written: what it carries has left the queue.
LEMMA LineWritten ==
    ASSUME StreamTypes, NEW at \in [1..Len(lines) + 1 -> Nat], LinesNumbered(at),
           NEW line \in Lines, Writes(line),
           UNCHANGED <<produced, upLink>>, api'.text = api.text,
           One(line) + InQueue' + One(reader'.item) = InQueue + One(reader.item),
           One(line) = 1 => /\ at[Len(lines) + 1] < Len(produced)
                            /\ line.piece = produced[at[Len(lines) + 1] + 1]
    PROVE  \E next \in [1..Len(lines') + 1 -> Nat] : LinesNumbered(next)'
<1> DEFINE last == IF line \in Deltas THEN at[Len(lines) + 1] + 1 ELSE at[Len(lines) + 1]
<1>1. lines' = Append(lines, line) /\ upLink = "open" /\ lines \in Seq(Lines) /\ Len(lines) \in Nat
  BY Shapes DEF Writes, StreamTypes
<1>2. Numbers(at, lines, Deltas, Len(api.text))
  BY DEF LinesNumbered
<1>3. /\ Numbers(Longer(at, lines, last), lines', Deltas, Len(api.text))
      /\ Len(lines') = Len(lines) + 1
      /\ \A i \in 1..Len(lines) : lines'[i] = lines[i] /\ Longer(at, lines, last)[i] = at[i]
      /\ lines'[Len(lines) + 1] = line
      /\ Longer(at, lines, last)[Len(lines) + 1] = at[Len(lines) + 1]
      /\ Longer(at, lines, last)[Len(lines) + 2] = last
  BY <1>1, <1>2, NumbersOfAppend
<1> DEFINE next == Longer(at, lines, last)
<1>4. next \in [1..Len(lines') + 1 -> Nat]
  BY <1>3 DEF Numbers
<1>5. (line \in Deltas <=> One(line) = 1) /\ (line \notin Deltas <=> One(line) = 0)
  BY OneIsBit DEF Deltas
<1>6. at[Len(lines) + 1] \in Nat
  BY <1>1
<1>7. last = at[Len(lines) + 1] + One(line)
  BY <1>5, <1>6
<1> HIDE DEF last, next
<1>8. ASSUME NEW i \in 1..Len(lines'), lines'[i] \in Deltas
      PROVE  next[i] < Len(produced) /\ lines'[i].piece = produced[next[i] + 1]
  <2>1. CASE i = Len(lines) + 1
    BY <1>3, <1>5, <1>8, <2>1 DEF next
  <2>2. CASE i \in 1..Len(lines)
    BY <1>3, <1>8, <2>2 DEF next, LinesNumbered
  <2> QED
    BY <1>1, <1>3, <2>1, <2>2
<1>9. next[Len(lines') + 1] + InQueue' + One(reader'.item) = Len(produced)
  <2>1. at[Len(lines) + 1] + InQueue + One(reader.item) = Len(produced)
    BY <1>1 DEF LinesNumbered
  <2>2. next[Len(lines') + 1] = at[Len(lines) + 1] + One(line)
    BY <1>1, <1>3, <1>7 DEF next
  <2>3. One(line) \in Nat /\ One(reader.item) \in Nat /\ One(reader'.item) \in Nat
        /\ InQueue \in Nat /\ InQueue' \in Nat
    BY OneIsBit DEF InQueue
  <2>4. One(line) + InQueue' + One(reader'.item) = InQueue + One(reader.item)
    BY <1>1
  <2>5. PICK n \in Nat, a \in Nat, b \in Nat, c \in Nat, d \in Nat, e \in Nat :
           /\ n = at[Len(lines) + 1] /\ a = One(line) /\ b = InQueue' /\ c = One(reader'.item)
           /\ d = InQueue /\ e = One(reader.item)
    BY <1>6, <2>3
  <2>6. a + b + c = d + e /\ n + d + e = Len(produced)
    BY <2>1, <2>4, <2>5
  <2>7. n + a + b + c = Len(produced)
    BY <2>6
  <2> QED
    BY <2>2, <2>5, <2>7
<1> QED
  BY <1>1, <1>3, <1>4, <1>8, <1>9 DEF LinesNumbered, next

\* A line is read: the text has what it carries.
LEMMA LineRead ==
    ASSUME StreamTypes, NEW at \in [1..Len(lines) + 1 -> Nat], LinesNumbered(at),
           lines # <<>>, lines' = Tail(lines),
           UNCHANGED <<produced, reader, pending, upLink>>,
           Len(api'.text) = IF Head(lines) \in Deltas THEN Len(api.text) + 1 ELSE Len(api.text)
    PROVE  \E next \in [1..Len(lines') + 1 -> Nat] : LinesNumbered(next)'
<1>1. Numbers(at, lines, Deltas, Len(api.text)) /\ lines \in Seq(Lines) /\ Len(lines) \in Nat
  BY Shapes DEF LinesNumbered, StreamTypes
<1> DEFINE next == Later(at, lines)
<1>2. /\ Numbers(next, lines', Deltas, Len(api'.text))
      /\ Len(lines') = Len(lines) - 1
      /\ \A i \in 1..Len(lines') : lines'[i] = lines[i + 1] /\ next[i] = at[i + 1]
      /\ next[Len(lines') + 1] = at[Len(lines) + 1]
  <2>1. /\ Numbers(next, Tail(lines), Deltas, at[2])
        /\ at[2] = IF Head(lines) \in Deltas THEN Len(api.text) + 1 ELSE Len(api.text)
        /\ Len(Tail(lines)) = Len(lines) - 1
        /\ \A i \in 1..Len(Tail(lines)) : Tail(lines)[i] = lines[i + 1] /\ next[i] = at[i + 1]
        /\ next[Len(Tail(lines)) + 1] = at[Len(lines) + 1]
    BY <1>1, NumbersOfTail
  <2> QED
    BY <2>1
<1> HIDE DEF next
<1>3. next \in [1..Len(lines') + 1 -> Nat]
  BY <1>2 DEF Numbers
<1>4. ASSUME NEW i \in 1..Len(lines'), lines'[i] \in Deltas
      PROVE  next[i] < Len(produced) /\ lines'[i].piece = produced[next[i] + 1]
  <2>1. i + 1 \in 1..Len(lines)
    BY <1>1, <1>2
  <2> QED
    BY <1>2, <1>4, <2>1 DEF LinesNumbered
<1>5. InQueue' = InQueue
  BY DEF InQueue
<1> QED
  BY <1>2, <1>3, <1>4, <1>5 DEF LinesNumbered

\* The lines and the text stay, and what is on its way to them adds up.
LEMMA LinesKept ==
    ASSUME StreamTypes, StreamTypes', NEW at \in [1..Len(lines) + 1 -> Nat], LinesNumbered(at),
           lines' = lines, api'.text = api.text,
           /\ Len(produced) <= Len(produced')
           /\ \A i \in 1..Len(produced) : produced'[i] = produced[i],
           upLink' = "open" =>
              /\ upLink = "open"
              /\ \A written \in Nat : written + InQueue + One(reader.item) = Len(produced) =>
                                       written + InQueue' + One(reader'.item) = Len(produced'),
           upLink' = "ended" =>
              /\ Len(produced') = Len(produced)
              /\ upLink = "ended" \/ (upLink = "open" /\ InQueue = 0 /\ One(reader.item) = 0)
    PROVE  \E next \in [1..Len(lines') + 1 -> Nat] : LinesNumbered(next)'
<1>1. Len(lines) \in Nat /\ Len(produced) \in Nat /\ Len(lines) + 1 \in 1..Len(lines) + 1
  BY Shapes
<1>2. \A i \in 1..Len(lines) + 1 : at[i] \in Nat
  OBVIOUS
<1>3. One(reader.item) \in Nat /\ One(reader'.item) \in Nat /\ InQueue \in Nat /\ InQueue' \in Nat
  BY OneIsBit DEF InQueue
<1>4. \A i \in 1..Len(lines) : lines[i] \in Deltas =>
         at[i] < Len(produced') /\ lines[i].piece = produced'[at[i] + 1]
  <2> SUFFICES ASSUME NEW i \in 1..Len(lines), lines[i] \in Deltas
               PROVE  at[i] < Len(produced') /\ lines[i].piece = produced'[at[i] + 1]
    OBVIOUS
  <2>1. at[i] < Len(produced) /\ lines[i].piece = produced[at[i] + 1]
    BY DEF LinesNumbered
  <2>2. at[i] \in Nat /\ at[i] + 1 \in 1..Len(produced) /\ Len(produced') \in Nat
    <3>1. Len(produced') \in Nat
      BY LenProperties DEF StreamTypes
    <3>2. at[i] \in Nat
      BY <1>1, <1>2
    <3> QED
      BY <1>1, <2>1, <3>1, <3>2
  <2>3. produced'[at[i] + 1] = produced[at[i] + 1]
    BY <2>2
  <2>4. at[i] < Len(produced')
    BY <1>1, <2>1, <2>2
  <2> QED
    BY <2>1, <2>3, <2>4
<1>5. Numbers(at, lines', Deltas, Len(api'.text))
  BY DEF LinesNumbered
<1>6. at[Len(lines) + 1] \in Nat /\ Len(produced') \in Nat
  <2>1. Len(produced') \in Nat
    BY LenProperties DEF StreamTypes
  <2> QED
    BY <1>1, <1>2, <2>1
<1>7. ASSUME upLink' = "open"
      PROVE  at[Len(lines) + 1] + InQueue' + One(reader'.item) = Len(produced')
  <2>1. at[Len(lines) + 1] + InQueue + One(reader.item) = Len(produced)
    BY <1>7 DEF LinesNumbered
  <2> QED
    BY <1>6, <1>7, <2>1
<1>8. ASSUME upLink' = "ended"
      PROVE  at[Len(lines) + 1] = Len(produced')
  <2>1. at[Len(lines) + 1] = Len(produced)
    BY <1>1, <1>3, <1>6, <1>8 DEF LinesNumbered
  <2> QED
    BY <1>8, <2>1
<1>9. LinesNumbered(at)'
  BY <1>4, <1>5, <1>7, <1>8 DEF LinesNumbered
<1>10. at \in [1..Len(lines') + 1 -> Nat]
  OBVIOUS
<1> QED
  BY <1>9, <1>10

LEMMA LinesStaySound ==
    ASSUME StreamInvariant, StreamNext
    PROVE  LinesSound'
<1>0. StreamTypes /\ StreamTypes' /\ ThreadSound /\ LinesSound /\ ApiSound
      /\ Len(produced) \in Nat /\ Len(api.text) \in Nat /\ Len(lines) \in Nat
  BY Shapes, TypesStay DEF StreamInvariant
<1> SUFFICES ASSUME api'.place \in {"prefix", "read"}
             PROVE  \E next \in [1..Len(lines') + 1 -> Nat] : LinesNumbered(next)'
  BY DEF LinesSound
<1>1. ~ApiSuffix /\ ~ApiError /\ ~ApiCloses
  BY <1>0 DEF ApiSuffix, ApiError, ApiCloses, Yielding, StreamTypes, ApiStates
<1>2. api.place \in {"prefix", "read"}
  <2>1. CASE ~Api
    BY <2>1, OtherSteps
  <2>2. CASE ApiPrefix \/ ApiDelta \/ ApiDecides \/ ReadBlank
    BY <2>2 DEF ApiPrefix, ApiDelta, ApiDecides, ReadBlank
  <2> QED
    BY <1>1, <2>1, <2>2, ApiSteps
<1>3. PICK at \in [1..Len(lines) + 1 -> Nat] : LinesNumbered(at)
  BY <1>0, <1>2 DEF LinesSound
<1>4. One(NoItem) = 0 /\ One(reader.item) \in {0, 1} /\ InQueue \in {0, 1}
      /\ at[Len(lines) + 1] \in Nat
  BY <1>0, OneIsBit DEF InQueue, One, NoItem, Item
<1>5. \A kind \in LineKinds \ {"delta"} : Item(kind, "none") \in Lines /\ One(Item(kind, "none")) = 0
  BY DEF Item, Lines, One
<1>6. ASSUME NEW piece \in Pieces, ReadPiece(piece)
      PROVE  \E next \in [1..Len(lines') + 1 -> Nat] : LinesNumbered(next)'
  <2>1. /\ Len(produced') = Len(produced) + 1
        /\ \A i \in 1..Len(produced) : produced'[i] = produced[i]
        /\ One(reader'.item) = 1
    BY <1>0, <1>6, PieceProduced
  <2>2. One(reader.item) = 0 /\ InQueue' = InQueue /\ lines' = lines /\ api' = api
        /\ upLink' = upLink /\ upLink # "ended"
    BY <1>0, <1>4, <1>6 DEF ReadPiece, ThreadSound, InQueue
  <2>3. \A written \in Nat : written + InQueue + One(reader.item) = Len(produced) =>
                               written + InQueue' + One(reader'.item) = Len(produced')
    <3>1. \A written \in Nat : written + InQueue + 0 = Len(produced) =>
                                 written + InQueue + 1 = Len(produced) + 1
      BY <1>0, <1>4
    <3> QED
      BY <2>1, <2>2, <3>1
  <2> QED
    BY <1>0, <1>3, <2>1, <2>2, <2>3, LinesKept
<1>7. ASSUME UNCHANGED <<produced, lines, upLink>>, api'.text = api.text,
             upLink = "open" => InQueue' + One(reader'.item) = InQueue + One(reader.item)
      PROVE  \E next \in [1..Len(lines') + 1 -> Nat] : LinesNumbered(next)'
  <2>1. One(reader'.item) \in {0, 1} /\ InQueue' \in {0, 1}
    BY OneIsBit DEF InQueue
  <2>2. upLink = "open" =>
           \A written \in Nat : written + InQueue + One(reader.item) = Len(produced) =>
                                written + InQueue' + One(reader'.item) = Len(produced')
    BY <1>0, <1>4, <1>7, <2>1
  <2> QED
    BY <1>0, <1>3, <1>7, <2>2, LinesKept
<1>8. ASSUME NEW how \in {"stop", "length", "error"}, OllamaEnds(how)
      PROVE  \E next \in [1..Len(lines') + 1 -> Nat] : LinesNumbered(next)'
  <2>1. One(reader.item) = 0 /\ One(reader'.item) = 0
    BY <1>0, <1>4, <1>8 DEF OllamaEnds, ThreadSound, Holds, OllamaItem, Item, One
  <2>2. InQueue' = InQueue
    BY <1>8 DEF OllamaEnds, InQueue
  <2> QED
    BY <1>7, <1>8, <2>1, <2>2 DEF OllamaEnds
<1>9. CASE Publish
  <2>1. pending = <<>> /\ pending' = <<reader.item>> /\ Head(pending') = reader.item
    BY <1>9 DEF Publish, Room
  <2>2. InQueue = 0 /\ InQueue' = One(reader.item) /\ One(reader'.item) = 0
    BY <1>4, <1>9, <2>1 DEF InQueue, Publish, Holds
  <2> QED
    BY <1>4, <1>7, <1>9, <2>2 DEF Publish
<1>10. CASE GiveUp
  <2>1. upLink # "open"
    BY <1>0, <1>10 DEF GiveUp, Stopped, ThreadSound
  <2> QED
    BY <1>7, <1>10, <2>1 DEF GiveUp
<1>11. ASSUME NEW kind \in LineKinds \ {"delta"}, Writes(Item(kind, "none")),
              UNCHANGED <<produced, upLink, api>>, InQueue' = InQueue, reader'.item = reader.item
       PROVE  \E next \in [1..Len(lines') + 1 -> Nat] : LinesNumbered(next)'
  <2>1. One(Item(kind, "none")) + InQueue' + One(reader'.item) = InQueue + One(reader.item)
    BY <1>4, <1>5, <1>11
  <2> QED
    BY <1>0, <1>3, <1>5, <1>11, <2>1, LineWritten
<1>12. CASE Started
  BY <1>11, <1>12 DEF Started, InQueue, LineKinds
<1>13. ASSUME NEW kind \in {"error", "cancelled"}, NotStarted(kind)
       PROVE  \E next \in [1..Len(lines') + 1 -> Nat] : LinesNumbered(next)'
  <2>1. reader'.item = reader.item /\ InQueue' = InQueue
    BY <1>0, <1>13 DEF NotStarted, InQueue, StreamTypes
  <2> QED
    BY <1>11, <1>13, <2>1 DEF NotStarted, LineKinds
<1>14. CASE Heartbeat
  BY <1>11, <1>14 DEF Heartbeat, InQueue, LineKinds
<1>15. ASSUME NEW kind \in {"stop", "length", "error"}, LastLine(kind)
       PROVE  \E next \in [1..Len(lines') + 1 -> Nat] : LinesNumbered(next)'
  <2>1. InQueue = 0 /\ InQueue' = 0 /\ reader' = reader
    BY <1>15 DEF LastLine, InQueue, One
  <2> QED
    BY <1>11, <1>15, <2>1 DEF LastLine, LineKinds
<1>16. CASE Pass
  <2> DEFINE line == Head(pending)
  <2>1. line \in Lines /\ line.kind = "delta" /\ One(line) = 1 /\ InQueue = 1 /\ InQueue' = 0
    BY <1>0, <1>16 DEF Pass, InQueue, One, StreamTypes
  <2>2. body # "over" /\ upLink = "open" /\ Writes(line)
        /\ UNCHANGED <<produced, reader, upLink, api>>
    BY <1>16 DEF Pass, Writes
  <2>3. Len(produced) > One(reader.item) /\ line.piece = produced[Len(produced) - One(reader.item)]
    BY <1>0, <2>1, <2>2 DEF ThreadSound
  <2>4. at[Len(lines) + 1] + InQueue + One(reader.item) = Len(produced)
    BY <1>3, <2>2 DEF LinesNumbered
  <2>5. at[Len(lines) + 1] + 1 = Len(produced) - One(reader.item)
    BY <1>0, <1>4, <2>1, <2>4
  <2>6. at[Len(lines) + 1] < Len(produced) /\ line.piece = produced[at[Len(lines) + 1] + 1]
    BY <1>0, <1>4, <2>3, <2>5
  <2>7. One(line) + InQueue' + One(reader'.item) = InQueue + One(reader.item)
    BY <1>4, <2>1, <2>2
  <2> HIDE DEF line
  <2> QED
    BY <1>0, <1>3, <2>1, <2>2, <2>6, <2>7, LineWritten
<1>17. CASE EndOfLines
  <2>1. reader.item = NoItem /\ InQueue = 0 /\ upLink = "open" /\ upLink' = "ended"
        /\ UNCHANGED <<produced, lines, api>>
    BY <1>0, <1>17 DEF EndOfLines, ThreadSound, InQueue
  <2> QED
    BY <1>0, <1>3, <1>4, <2>1, LinesKept
<1>18. CASE BodyClosed
  BY <1>0, <1>3, <1>18, LinesKept DEF BodyClosed
<1>19. CASE CutUpLink
  <2> DEFINE next == Shorter(at, lines')
  <2>1. upLink' = "cut" /\ UNCHANGED <<produced, api>>
    BY <1>19 DEF CutUpLink
  <2>2. lines \in Seq(Lines) /\ lines' \in Seq(Lines) /\ Numbers(at, lines, Deltas, Len(api.text))
    BY <1>0, <1>3 DEF StreamTypes, LinesNumbered
  <2>3. Agrees(lines', lines)
    <3>1. PICK n \in 0..Len(lines) : lines' = SubSeq(lines, 1, n)
      BY <1>19 DEF CutUpLink
    <3>2. /\ Len(SubSeq(lines, 1, n)) = n
          /\ \A i \in 1..n : SubSeq(lines, 1, n)[i] = lines[i]
      BY <1>0, <2>2
    <3> QED
      BY <1>0, <3>1, <3>2 DEF Agrees
  <2>4. /\ Numbers(next, lines', Deltas, Len(api.text))
        /\ \A i \in 1..Len(lines') : next[i] = at[i]
    <3>1. Numbers(next, lines', Deltas, Len(api.text))
      BY <2>2, <2>3, NumbersOfBeginning
    <3>2. \A i \in 1..Len(lines') : i \in 1..Len(lines') + 1
      BY <2>2, LenProperties
    <3> QED
      BY <3>1, <3>2 DEF Shorter
  <2> HIDE DEF next
  <2>5. next \in [1..Len(lines') + 1 -> Nat]
    BY <2>4 DEF Numbers
  <2>6. \A i \in 1..Len(lines') : i \in 1..Len(lines) /\ lines'[i] = lines[i]
    <3>1. Len(lines') \in Nat
      BY <2>2, LenProperties
    <3> QED
      BY <1>0, <2>3, <3>1 DEF Agrees
  <2> QED
    BY <1>3, <2>1, <2>4, <2>5, <2>6 DEF LinesNumbered
<1>20. CASE Decoder \/ CutDownLink \/ Cancels \/ UNCHANGED streamVars
  <2>1. UNCHANGED <<produced, reader, pending, lines, upLink, api>>
    BY <1>20 DEF Decoder, Reads, ReadsEnd, CutDownLink, Cancels, streamVars
  <2>2. InQueue' = InQueue
    BY <2>1 DEF InQueue
  <2> QED
    BY <1>7, <2>1, <2>2
<1>21. CASE WritePrefix
  <2>1. UNCHANGED <<produced, reader, pending, lines, upLink>>
    BY <1>21 DEF WritePrefix
  <2>2. api.place = "prefix"
    BY <1>21 DEF WritePrefix
  <2>3. api'.text = api.text
    <3>1. ~ApiDelta /\ ~ApiDecides /\ ~ReadBlank
      BY <2>2 DEF ApiDelta, ApiDecides, ReadBlank
    <3> QED
      BY <1>1, <1>21, <3>1, ApiSteps DEF Api, ApiPrefix
  <2>4. InQueue' = InQueue
    BY <2>1 DEF InQueue
  <2> QED
    BY <1>7, <2>1, <2>3, <2>4
<1>22. CASE ReadBlank
  <2>1. Head(lines) \notin Deltas
    BY <1>22 DEF ReadBlank, Deltas
  <2> QED
    BY <1>0, <1>3, <1>22, <2>1, LineRead DEF ReadBlank
<1>23. CASE ReadDelta
  <2> DEFINE piece == Head(lines).piece
  <2>1. piece \in Pieces /\ api.text \in Seq(Pieces)
    BY <1>0, <1>23, NextPiece DEF ReadDelta, StreamTypes, ApiStates
  <2>2. api'.text = api.text \o <<piece>>
    <3>1. Yields("delta", <<piece>>, "read")
      BY <1>23 DEF ReadDelta
    <3> QED
      BY <1>0, <3>1 DEF Yields, StreamTypes, ApiStates
  <2>3. Len(api'.text) = Len(api.text) + 1
    <3>1. <<piece>> \in Seq(Pieces) /\ Len(<<piece>>) = 1
      BY <2>1
    <3> QED
      BY <2>1, <2>2, <3>1, ConcatProperties
  <2>4. Head(lines) \in Deltas
    <3>1. lines \in Seq(Lines) /\ lines # <<>> /\ Head(lines).kind = "delta"
      BY <1>0, <1>23 DEF ReadDelta, StreamTypes
    <3> QED
      BY <3>1, HeadTailProperties DEF Deltas
  <2> QED
    BY <1>0, <1>3, <1>23, <2>3, <2>4, LineRead DEF ReadDelta
<1>24. CASE ReadOther
  <2>1. api'.text = api.text /\ Head(lines).kind # "delta"
    BY <1>0, <1>24 DEF ReadOther, StreamTypes, ApiStates
  <2>2. Head(lines) \notin Deltas
    BY <2>1 DEF Deltas
  <2> QED
    BY <1>0, <1>3, <1>24, <2>1, <2>2, LineRead DEF ReadOther
<1>25. ~ReadEnd /\ ~ReadFails /\ ~WriteSuffix /\ ~WriteError /\ ~CloseApi
  BY <1>0, <1>2 DEF ReadEnd, ReadFails, WriteSuffix, WriteError, CloseApi, StreamTypes, ApiStates
<1>26. CASE Thread
  BY <1>6, <1>8, <1>9, <1>10, <1>20, <1>26 DEF Thread, Retry
<1>27. CASE Granite
  BY <1>12, <1>13, <1>15, <1>16, <1>17, <1>18, <1>27 DEF Granite
<1>28. CASE Api
  BY <1>21, <1>22, <1>23, <1>24, <1>25, <1>28 DEF Api
<1> QED
  BY <1>14, <1>19, <1>20, <1>26, <1>27, <1>28 DEF StreamNext

-----------------------------------------------------------------------------
(***************************************************************************)
(* The frames.                                                             *)
(***************************************************************************)
\* What belongs to a position that has been written does not change.
LEMMA FrameStays ==
    ASSUME StreamInvariant, StreamNext, NEW f, NEW k \in Nat, FrameFits(f, k)
    PROVE  FrameFits(f, k)'
<1>0. StreamTypes /\ StreamTypes' /\ ApiSound
      /\ Len(api.text) \in Nat /\ Len(api'.text) \in Nat /\ api.seq \in Nat /\ api'.seq \in Nat
      /\ AfterText = 4 + Len(api.text) /\ Len(Prefix) = 4
  BY Shapes, TypesStay, LenProperties DEF StreamInvariant, StreamTypes, ApiStates
<1>1. AfterText' = 4 + Len(api'.text)
  BY <1>0 DEF AfterText
<1>2. /\ Len(api.text) <= Len(api'.text)
      /\ \A i \in 1..Len(api.text) : api'.text[i] = api.text[i]
      /\ api'.text = api.text \/ api.place = "read"
      /\ api.seq <= api'.seq
      /\ Sealed => /\ Sealed' /\ api'.text = api.text /\ api'.incomplete = api.incomplete
      /\ Sealed /\ ~Errored => ~Errored'
      /\ api.place \in {"close", "over"} => api'.place \in {"close", "over"}
  BY KnowledgeGrows DEF TextGrows
<1>3. f.seq = k /\ k < api.seq /\ k < api'.seq
  BY <1>0, <1>2 DEF FrameFits
<1>4. k < Len(Prefix) => f.type = Prefix[k + 1]
  BY DEF FrameFits
<1>5. ASSUME k \in Len(Prefix)..AfterText' - 1
      PROVE  f.type = "delta" /\ f.text = <<api'.text[k - Len(Prefix) + 1]>>
  <2>1. k < AfterText
    <3>1. CASE api'.text = api.text
      BY <1>0, <1>1, <1>5, <3>1
    <3>2. CASE api.place = "read"
      <4>1. api.seq = AfterText
        BY <1>0, <3>2 DEF ApiSound
      <4> QED
        BY <1>3, <4>1
    <3> QED
      BY <1>2, <3>1, <3>2
  <2>2. k \in Len(Prefix)..AfterText - 1 /\ k - Len(Prefix) + 1 \in 1..Len(api.text)
    BY <1>0, <1>5, <2>1
  <2>3. f.type = "delta" /\ f.text = <<api.text[k - Len(Prefix) + 1]>>
    BY <2>2 DEF FrameFits
  <2>4. api'.text[k - Len(Prefix) + 1] = api.text[k - Len(Prefix) + 1]
    BY <1>2, <2>2
  <2> QED
    BY <2>3, <2>4
<1>6. ASSUME k >= AfterText'
      PROVE  \/ f.type = "error" /\ api'.place \in {"close", "over"}
             \/ /\ Sealed' /\ ~Errored' /\ k <= AfterText' + 3
                /\ f.type = Suffix(api'.incomplete)[k - AfterText' + 1] /\ f.text = api'.text
  <2>1. k >= AfterText
    BY <1>0, <1>1, <1>2, <1>6
  <2>2. CASE f.type = "error" /\ api.place \in {"close", "over"}
    BY <1>2, <2>2
  <2>3. CASE /\ Sealed /\ ~Errored /\ k <= AfterText + 3
             /\ f.type = Suffix(api.incomplete)[k - AfterText + 1] /\ f.text = api.text
    <3>1. Sealed' /\ ~Errored' /\ api'.text = api.text /\ api'.incomplete = api.incomplete
      BY <1>2, <2>3
    <3>2. AfterText' = AfterText
      BY <3>1 DEF AfterText
    <3> QED
      BY <2>3, <3>1, <3>2
  <2> QED
    BY <2>1, <2>2, <2>3 DEF FrameFits
<1> QED
  BY <1>3, <1>4, <1>5, <1>6 DEF FrameFits

LEMMA FittingStays ==
    ASSUME StreamInvariant, StreamNext
    PROVE  \A f, k : <<f, k>> \in Fitting => <<f, k>> \in Fitting'
<1> SUFFICES ASSUME NEW f, NEW k, <<f, k>> \in Fitting PROVE <<f, k>> \in Fitting'
  OBVIOUS
<1>1. f \in FrameSet /\ k \in Nat /\ FrameFits(f, k)
  BY DEF Fitting
<1>2. FrameFits(f, k)'
  BY <1>1, FrameStays
<1> QED
  BY <1>1, <1>2 DEF Fitting

\* A frame is written, and it is what belongs to the next position.
LEMMA FrameWritten ==
    ASSUME StreamInvariant, StreamNext, browser.result = "reading", browser' = browser,
           NEW f \in FrameSet, frames' = Append(frames, f), downLink = "open",
           \/ f.type = "keepalive" /\ api'.seq = api.seq
           \/ f.type # "keepalive" /\ api'.seq = api.seq + 1 /\ <<f, api.seq>> \in Fitting'
    PROVE  FramesSound'
<1>1. PICK at \in [1..Len(frames) + 1 -> Nat] : FramesNumbered(at)
  BY DEF StreamInvariant, FramesSound
<1>2. frames \in Seq(FrameSet) /\ Len(frames) \in Nat /\ api.seq \in Nat
  BY Shapes DEF StreamInvariant, StreamTypes
<1>3. Numbers(at, frames, Events, browser.expected) /\ at[Len(frames) + 1] = api.seq
  BY <1>1 DEF FramesNumbered
<1>4. PICK last \in Nat :
         last = IF f \in Events THEN at[Len(frames) + 1] + 1 ELSE at[Len(frames) + 1]
  BY <1>2, <1>3
<1>5. PICK next : next = Longer(at, frames, last)
  OBVIOUS
<1>6. /\ Numbers(next, frames', Events, browser.expected)
      /\ Len(frames') = Len(frames) + 1
      /\ \A i \in 1..Len(frames) : frames'[i] = frames[i] /\ next[i] = at[i]
      /\ frames'[Len(frames) + 1] = f
      /\ next[Len(frames) + 1] = at[Len(frames) + 1]
      /\ next[Len(frames) + 2] = last
  <2> HIDE DEF Events
  <2>1. /\ Numbers(Longer(at, frames, last), Append(frames, f), Events, browser.expected)
        /\ Len(Append(frames, f)) = Len(frames) + 1
        /\ \A i \in 1..Len(frames) : /\ Append(frames, f)[i] = frames[i]
                                     /\ Longer(at, frames, last)[i] = at[i]
        /\ Append(frames, f)[Len(frames) + 1] = f
        /\ Longer(at, frames, last)[Len(frames) + 1] = at[Len(frames) + 1]
        /\ Longer(at, frames, last)[Len(frames) + 2] = last
    BY <1>2, <1>3, <1>4, NumbersOfAppend
  <2> QED
    BY <1>5, <2>1
<1>7. f \in Events <=> f.type # "keepalive"
  BY DEF Events
<1>8. last = api'.seq
  BY <1>2, <1>3, <1>4, <1>7
<1>9. next \in [1..Len(frames') + 1 -> Nat]
  BY <1>6 DEF Numbers
<1>10. ASSUME NEW i \in 1..Len(frames'), frames'[i] \in Events
       PROVE  <<frames'[i], next[i]>> \in Fitting'
  <2>1. CASE i = Len(frames) + 1
    <3>1. <<f, api.seq>> \in Fitting'
      BY <1>6, <1>7, <1>10, <2>1
    <3> QED
      BY <1>3, <1>6, <2>1, <3>1
  <2>2. CASE i \in 1..Len(frames)
    <3>1. <<frames[i], at[i]>> \in Fitting
      BY <1>1, <1>6, <1>10, <2>2 DEF FramesNumbered
    <3> QED
      BY <1>6, <2>2, <3>1, FittingStays
  <2>3. i = Len(frames) + 1 \/ i \in 1..Len(frames)
    BY <1>2, <1>6
  <2> QED
    BY <2>1, <2>2, <2>3
<1>11. next[Len(frames') + 1] = api'.seq
  <2>1. Len(frames') + 1 = Len(frames) + 2
    BY <1>2, <1>6
  <2> QED
    BY <1>6, <1>8, <2>1
<1>12. FramesNumbered(next)'
  BY <1>6, <1>10, <1>11 DEF FramesNumbered
<1> QED
  BY <1>9, <1>12 DEF FramesSound

\* A step that writes and reads no frame.
LEMMA FramesKept ==
    ASSUME StreamInvariant, StreamNext, frames' = frames, browser' = browser,
           downLink' # "cut" => downLink # "cut" /\ api'.seq = api.seq
    PROVE  FramesSound'
<1> SUFFICES ASSUME browser'.result = "reading"
             PROVE  \E at \in [1..Len(frames') + 1 -> Nat] : FramesNumbered(at)'
  BY DEF FramesSound
<1>1. PICK at \in [1..Len(frames) + 1 -> Nat] : FramesNumbered(at)
  BY DEF StreamInvariant, FramesSound
<1>2. FramesNumbered(at)'
  <2>1. Numbers(at, frames', Events, browser'.expected)
    BY <1>1 DEF FramesNumbered
  <2>2. \A i \in 1..Len(frames') : frames'[i] \in Events => <<frames'[i], at[i]>> \in Fitting'
    BY <1>1, FittingStays DEF FramesNumbered
  <2>3. downLink' # "cut" => at[Len(frames') + 1] = api'.seq
    BY <1>1 DEF FramesNumbered
  <2> QED
    BY <2>1, <2>2, <2>3 DEF FramesNumbered
<1> QED
  BY <1>1, <1>2

\* A frame is read: the decoder expects the next event, if it was one.
LEMMA FrameRead ==
    ASSUME StreamInvariant, StreamNext, browser.result = "reading",
           frames # <<>>, frames' = Tail(frames), UNCHANGED <<api, downLink>>,
           browser'.expected = IF Head(frames).type # "keepalive" THEN browser.expected + 1
                               ELSE browser.expected
    PROVE  FramesSound'
<1>1. PICK at \in [1..Len(frames) + 1 -> Nat] : FramesNumbered(at)
  BY DEF StreamInvariant, FramesSound
<1>2. frames \in Seq(FrameSet) /\ Len(frames) \in Nat /\ Head(frames) \in FrameSet
      /\ Numbers(at, frames, Events, browser.expected)
  BY <1>1, Shapes, HeadTailProperties DEF StreamInvariant, StreamTypes, FramesNumbered
<1>3. PICK next : next = Later(at, frames)
  OBVIOUS
<1>4. /\ Numbers(next, frames', Events, browser'.expected)
      /\ Len(frames') = Len(frames) - 1
      /\ \A i \in 1..Len(frames') : frames'[i] = frames[i + 1] /\ next[i] = at[i + 1]
      /\ next[Len(frames') + 1] = at[Len(frames) + 1]
  <2>1. /\ Numbers(Later(at, frames), Tail(frames), Events, at[2])
        /\ at[2] = IF Head(frames) \in Events THEN browser.expected + 1 ELSE browser.expected
        /\ Len(Tail(frames)) = Len(frames) - 1
        /\ Later(at, frames)[Len(Tail(frames)) + 1] = at[Len(frames) + 1]
    BY <1>2, NumbersOfTail
  <2>2. \A i \in 1..Len(Tail(frames)) : Tail(frames)[i] = frames[i + 1]
    BY <1>2, HeadTailProperties
  <2>3. \A i \in 1..Len(frames) : Later(at, frames)[i] = at[i + 1]
    BY DEF Later
  <2>4. Head(frames) \in Events <=> Head(frames).type # "keepalive"
    BY <1>2 DEF Events
  <2>5. \A i \in 1..Len(frames') : i \in 1..Len(frames)
    BY <1>2, <2>1
  <2> QED
    BY <1>3, <2>1, <2>2, <2>3, <2>4, <2>5
<1>5. next \in [1..Len(frames') + 1 -> Nat]
  BY <1>4 DEF Numbers
<1>6. ASSUME NEW i \in 1..Len(frames'), frames'[i] \in Events
      PROVE  <<frames'[i], next[i]>> \in Fitting'
  <2>1. i + 1 \in 1..Len(frames)
    BY <1>2, <1>4
  <2>2. <<frames[i + 1], at[i + 1]>> \in Fitting
    BY <1>1, <1>4, <1>6, <2>1 DEF FramesNumbered
  <2> QED
    BY <1>4, <2>2, FittingStays
<1>7. FramesNumbered(next)'
  BY <1>1, <1>4, <1>6 DEF FramesNumbered
<1> QED
  BY <1>5, <1>7 DEF FramesSound

LEMMA FramesStaySound ==
    ASSUME StreamInvariant, StreamNext
    PROVE  FramesSound'
<1>0. StreamTypes /\ StreamTypes' /\ ApiSound /\ ApiSound' /\ FramesSound /\ Len(frames) \in Nat
      /\ api.seq \in Nat /\ Len(api.text) \in Nat /\ AfterText = 4 + Len(api.text)
      /\ Len(Prefix) = 4
  BY Shapes, TypesStay, ApiStaysSound DEF StreamInvariant
<1> SUFFICES ASSUME browser'.result = "reading"
             PROVE  FramesSound'
  BY DEF FramesSound
<1>1. browser.result = "reading"
  <2>1. CASE Decoder \/ Cancels
    BY <1>0, <2>1 DEF Decoder, Reads, ReadsEnd, Cancels, StreamTypes, DecoderStates
  <2>2. CASE ~(Decoder \/ Cancels)
    <3>1. browser' = browser
      BY <2>2 DEF StreamNext, Thread, Granite, Heartbeat, Api, CutUpLink, CutDownLink, streamVars,
         ReadPiece, OllamaEnds, Publish, Retry, GiveUp, Started, NotStarted, Pass, LastLine,
         EndOfLines, BodyClosed, WritePrefix, ReadBlank, ReadDelta, ReadOther, ReadEnd, ReadFails,
         WriteSuffix, WriteError, CloseApi
    <3> QED
      BY <3>1
  <2> QED
    BY <2>1, <2>2
\* A frame of the API that fits the position api.seq.
<1>2. ASSUME NEW type, NEW text, NEW place, Yielding(type, text, place),
             type # "keepalive",
             \A k \in Nat : k = api.seq => FrameFits(Frame(type, k, text), k)'
      PROVE  FramesSound'
  <2>1. PICK k \in Nat : k = api.seq
    BY <1>0
  <2>2. PICK f : f = Frame(type, k, text)
    OBVIOUS
  <2>3. f \in FrameSet /\ f.type = type /\ frames' = Append(frames, f) /\ downLink = "open"
        /\ browser' = browser /\ api'.seq = api.seq + 1
    BY <1>2, <2>1, <2>2 DEF Yielding, Frame
  <2>4. FrameFits(f, k)'
    BY <1>2, <2>1, <2>2
  <2>5. <<f, k>> \in Fitting'
    BY <2>3, <2>4 DEF Fitting
  <2> QED
    BY <1>1, <1>2, <2>1, <2>3, <2>5, FrameWritten
<1>3. CASE ApiPrefix
  <2>1. PICK type : type = Prefix[api.seq + 1]
    OBVIOUS
  <2>2. PICK place : place = IF api.seq + 1 = Len(Prefix) THEN "read" ELSE "prefix"
    OBVIOUS
  <2>3. Yielding(type, <<>>, place) /\ api.place = "prefix" /\ api.seq < 4 /\ api'.seq = api.seq + 1
    BY <1>0, <1>3, <2>1, <2>2 DEF ApiPrefix, ApiSound, Yielding
  <2>4. type # "keepalive"
    <3>1. api.seq + 1 \in 1..4
      BY <1>0, <2>3
    <3> QED
      BY <2>1, <3>1, EventNames DEF EventTypes
  <2>5. AfterText' \in Nat /\ AfterText' >= 4
    BY <1>0, LenProperties DEF AfterText, StreamTypes, ApiStates
  <2>6. ASSUME NEW k \in Nat, k = api.seq PROVE FrameFits(Frame(type, k, <<>>), k)'
    BY <1>0, <2>1, <2>3, <2>5, <2>6 DEF FrameFits, Frame
  <2> QED
    BY <1>2, <2>3, <2>4, <2>6
<1>4. CASE ApiDelta
  <2>1. PICK piece : piece = Head(lines).piece
    OBVIOUS
  <2>2. /\ Yielding("delta", <<piece>>, "read") /\ api.place = "read"
        /\ api'.text = Append(api.text, piece) /\ api'.seq = api.seq + 1
    BY <1>4, <2>1 DEF ApiDelta, Yielding
  <2>3. piece \in Pieces /\ api.text \in Seq(Pieces)
    BY <1>0, <1>4, <2>1, NextPiece DEF ApiDelta, StreamInvariant, StreamTypes, ApiStates
  <2>4. Len(api'.text) = Len(api.text) + 1 /\ api'.text[Len(api.text) + 1] = piece
    BY <2>2, <2>3, AppendProperties
  <2>5. AfterText' = 4 + Len(api.text) + 1 /\ api.seq = 4 + Len(api.text)
    BY <1>0, <2>2, <2>4 DEF AfterText, ApiSound
  <2>6. ASSUME NEW k \in Nat, k = api.seq PROVE FrameFits(Frame("delta", k, <<piece>>), k)'
    <3>1. k - Len(Prefix) + 1 = Len(api.text) + 1 /\ ~(k < Len(Prefix)) /\ ~(k >= AfterText')
          /\ k < api'.seq
      BY <1>0, <2>2, <2>5, <2>6
    <3> QED
      BY <2>4, <3>1 DEF FrameFits, Frame
  <2> QED
    BY <1>2, <2>2, <2>6
<1>5. CASE ApiSuffix
  <2>1. PICK type : type = Suffix(api.incomplete)[SuffixAt]
    OBVIOUS
  <2>2. PICK place : place = IF SuffixAt = 4 THEN "close" ELSE "suffix"
    OBVIOUS
  <2>3. PICK text : text = api.text
    OBVIOUS
  <2>4. /\ Yielding(type, text, place) /\ api.place = "suffix" /\ api'.text = api.text
        /\ api'.seq = api.seq + 1 /\ api'.incomplete = api.incomplete
    BY <1>5, <2>1, <2>2, <2>3 DEF ApiSuffix, Yielding
  <2>5. SuffixAt \in 1..4 /\ SuffixAt = api.seq - AfterText + 1 /\ api.incomplete \in BOOLEAN
    BY <1>0, <2>4, SuffixPosition DEF StreamTypes, ApiStates
  <2>6. type # "keepalive"
    BY <2>1, <2>5, EventNames DEF EventTypes
  <2>7. Sealed' /\ ~Errored' /\ AfterText' = AfterText
    <3>1. Sealed /\ ~Errored
      BY <1>0, <2>4 DEF ApiSound, Errored
    <3> QED
      BY <2>4, <3>1, KnowledgeGrows DEF AfterText
  <2>8. ASSUME NEW k \in Nat, k = api.seq PROVE FrameFits(Frame(type, k, text), k)'
    <3>1. /\ k >= AfterText /\ k <= AfterText + 3 /\ k - AfterText + 1 = SuffixAt
          /\ ~(k < Len(Prefix)) /\ ~(k \in Len(Prefix)..AfterText - 1) /\ k < api'.seq
      <4>1. \A a, n \in Nat, j \in 1..4 :
               j = n - a + 1 => n >= a /\ n <= a + 3 /\ n - a + 1 = j /\ ~(n \in 4..a - 1)
        OBVIOUS
      <4>2. AfterText \in Nat /\ AfterText >= 4
        BY <1>0
      <4>3. k >= AfterText /\ k <= AfterText + 3 /\ k - AfterText + 1 = SuffixAt
            /\ ~(k \in 4..AfterText - 1)
        BY <2>5, <2>8, <4>1, <4>2
      <4>4. ~(k < 4) /\ k < api'.seq
        BY <1>0, <2>4, <2>8, <4>2, <4>3
      <4> QED
        BY <1>0, <4>3, <4>4
    <3> QED
      BY <2>1, <2>3, <2>4, <2>7, <3>1 DEF FrameFits, Frame
  <2> QED
    BY <1>2, <2>4, <2>6, <2>8
<1>6. CASE ApiError
  <2>1. /\ Yielding("error", <<>>, "close") /\ api.place = "error" /\ api'.text = api.text
        /\ api'.seq = api.seq + 1 /\ api'.place = "close"
    BY <1>6 DEF ApiError, Yielding
  <2>2. AfterText' = AfterText /\ api.seq = AfterText
    BY <1>0, <2>1 DEF AfterText, ApiSound
  <2>3. ASSUME NEW k \in Nat, k = api.seq PROVE FrameFits(Frame("error", k, <<>>), k)'
    <3>1. ~(k < Len(Prefix)) /\ ~(k \in Len(Prefix)..AfterText - 1) /\ k < api'.seq
      BY <1>0, <2>1, <2>2, <2>3
    <3> QED
      BY <2>1, <2>2, <3>1 DEF FrameFits, Frame
  <2> QED
    BY <1>2, <2>1, <2>3
<1>7. CASE ReadBlank
  <2>1. PICK f : f = Frame("keepalive", 0, <<>>)
    OBVIOUS
  <2>2. f \in FrameSet /\ f.type = "keepalive"
    BY <2>1 DEF Frame, FrameSet
  <2>3. frames' = Append(frames, f) /\ downLink = "open" /\ browser' = browser /\ api' = api
    BY <1>7, <2>1 DEF ReadBlank
  <2> QED
    BY <1>1, <2>2, <2>3, FrameWritten
<1>8. CASE ApiDecides \/ ApiCloses
  <2>1. frames' = frames /\ browser' = browser /\ api'.seq = api.seq
        /\ (downLink' # "cut" => downLink # "cut")
    BY <1>0, <1>8 DEF ApiDecides, ApiCloses, StreamTypes, ApiStates
  <2> QED
    BY <2>1, FramesKept
<1>9. CASE Api
  BY <1>3, <1>4, <1>5, <1>6, <1>7, <1>8, <1>9, ApiSteps
<1>10. CASE Thread \/ Granite \/ Heartbeat \/ CutUpLink \/ UNCHANGED streamVars
  <2>1. UNCHANGED <<frames, browser, downLink, api>>
    BY <1>10 DEF Thread, Granite, Heartbeat, CutUpLink, streamVars, ReadPiece, OllamaEnds, Publish,
       Retry, GiveUp, Started, NotStarted, Pass, LastLine, EndOfLines, BodyClosed
  <2> QED
    BY <2>1, FramesKept
<1>11. CASE CutDownLink
  <2>1. UNCHANGED <<browser, api>> /\ downLink' = "cut"
    BY <1>11 DEF CutDownLink
  <2>2. PICK at \in [1..Len(frames) + 1 -> Nat] : FramesNumbered(at)
    BY <1>0, <1>1 DEF FramesSound
  <2>3. frames \in Seq(FrameSet) /\ frames' \in Seq(FrameSet)
        /\ Numbers(at, frames, Events, browser.expected)
    BY <1>0, <2>2 DEF StreamTypes, FramesNumbered
  <2>4. Agrees(frames', frames)
    <3>1. PICK n \in 0..Len(frames) : frames' = SubSeq(frames, 1, n)
      BY <1>11 DEF CutDownLink
    <3>2. /\ Len(SubSeq(frames, 1, n)) = n
          /\ \A i \in 1..n : SubSeq(frames, 1, n)[i] = frames[i]
      BY <1>0, <2>3
    <3> QED
      BY <1>0, <3>1, <3>2 DEF Agrees
  <2>5. PICK next : next = Shorter(at, frames')
    OBVIOUS
  <2>6. Numbers(next, frames', Events, browser.expected)
    BY <2>3, <2>4, <2>5, NumbersOfBeginning
  <2>7. \A i \in 1..Len(frames') : i \in 1..Len(frames) /\ frames'[i] = frames[i] /\ next[i] = at[i]
    <3>1. Len(frames') \in Nat
      BY <2>3, LenProperties
    <3>2. \A i \in 1..Len(frames') + 1 : next[i] = at[i]
      BY <2>5 DEF Shorter
    <3> QED
      BY <1>0, <2>4, <3>1, <3>2 DEF Agrees
  <2>8. next \in [1..Len(frames') + 1 -> Nat]
    BY <2>6 DEF Numbers
  <2>9. \A i \in 1..Len(frames') : frames'[i] \in Events => <<frames'[i], next[i]>> \in Fitting'
    BY <2>2, <2>7, FittingStays DEF FramesNumbered
  <2>10. FramesNumbered(next)'
    BY <2>1, <2>6, <2>9 DEF FramesNumbered
  <2> QED
    BY <2>8, <2>10 DEF FramesSound
<1>12. CASE Reads
  <2> DEFINE f == Head(frames)
  <2>1. /\ frames # <<>> /\ frames' = Tail(frames) /\ UNCHANGED <<api, downLink>>
        /\ browser' = IF f.type = "keepalive" THEN browser
                      ELSE IF f.seq # browser.expected THEN [browser EXCEPT !.result = "invalid"]
                      ELSE IF f.type = "error" THEN [browser EXCEPT !.result = "error"]
                      ELSE IF Accepts(f) THEN Taken(f)
                      ELSE [browser EXCEPT !.result = "invalid"]
    BY <1>12 DEF Reads
  <2>2. f.type # "keepalive" => browser' = Taken(f)
    BY <1>0, <2>1 DEF StreamTypes, DecoderStates
  <2>3. browser'.expected = IF f.type # "keepalive" THEN browser.expected + 1 ELSE browser.expected
    <3>1. StreamTypes
      BY <1>0
    <3>2. Taken(f).expected = browser.expected + 1
      BY <3>1 DEF Taken, StreamTypes, DecoderStates
    <3>3. f.type = "keepalive" => browser' = browser
      BY <2>1
    <3> QED
      BY <2>2, <3>2, <3>3
  <2> QED
    BY <1>1, <2>1, <2>3, FrameRead
<1>13. ~ReadsEnd /\ ~Cancels
  BY <1>0, <1>1 DEF ReadsEnd, Cancels, StreamTypes, DecoderStates
<1> QED
  BY <1>9, <1>10, <1>11, <1>12, <1>13 DEF StreamNext, Decoder

-----------------------------------------------------------------------------
(***************************************************************************)
(* The decoder.                                                            *)
(***************************************************************************)
\* What it has taken is still right when others go on.
LEMMA DecoderKept ==
    ASSUME StreamInvariant, StreamNext,
           \/ browser' = browser
           \/ browser'.result \in {"lost", "error"} /\ UNCHANGED <<browser.text, browser.finished>>
    PROVE  DecoderSound'
<1>0. StreamTypes /\ StreamTypes' /\ DecoderSound /\ ApiSound
      /\ Len(api.text) \in Nat /\ Len(api'.text) \in Nat /\ Len(browser.text) \in Nat
      /\ api.seq \in Nat /\ api'.seq \in Nat /\ browser.expected \in Nat
      /\ AfterText = 4 + Len(api.text) /\ AfterText' = 4 + Len(api'.text) /\ Len(Prefix) = 4
  <2>1. StreamTypes /\ StreamTypes' /\ DecoderSound /\ ApiSound
    BY TypesStay DEF StreamInvariant
  <2>2. Len(Prefix) = 4
    BY EventNames
  <2> QED
    BY <2>1, <2>2, LenProperties DEF StreamTypes, ApiStates, DecoderStates, AfterText
<1>1. /\ Len(api.text) <= Len(api'.text)
      /\ \A i \in 1..Len(api.text) : api'.text[i] = api.text[i]
      /\ api.seq <= api'.seq
      /\ Sealed => /\ Sealed' /\ api'.text = api.text /\ api'.incomplete = api.incomplete
      /\ Sealed /\ ~Errored => ~Errored'
  BY KnowledgeGrows DEF TextGrows
<1>2. Agrees(browser.text, api.text)' /\ browser'.text = browser.text
      /\ browser'.finished = browser.finished
  <2>1. Agrees(browser.text, api.text)
    BY <1>0 DEF DecoderSound
  <2>2. browser'.text = browser.text /\ browser'.finished = browser.finished
    OBVIOUS
  <2>3. Len(browser.text) <= Len(api'.text)
    BY <1>0, <1>1, <2>1 DEF Agrees
  <2>4. \A i \in 1..Len(browser.text) : browser.text[i] = api'.text[i]
    BY <1>0, <1>1, <2>1 DEF Agrees
  <2> QED
    BY <2>2, <2>3, <2>4 DEF Agrees
<1>3. Finished => Finished'
  BY <1>1, <1>2 DEF Finished
<1>4. CASE browser' = browser
  <2>1. ASSUME browser.result = "reading", browser.expected <= AfterText'
        PROVE  InText
    <3>1. CASE browser.expected <= AfterText
      BY <1>0, <2>1, <3>1 DEF DecoderSound
    <3>2. CASE browser.expected > AfterText
      <4>1. Sealed
        BY <1>0, <2>1, <3>2 DEF DecoderSound, InSuffix
      <4> QED
        BY <1>0, <1>1, <2>1, <3>2, <4>1
    <3> QED
      BY <1>0, <3>1, <3>2
  <2>2. InText => InText'
    BY <1>4 DEF InText
  <2>3. ASSUME browser.result = "reading", browser.expected > AfterText'
        PROVE  InSuffix'
    <3>1. InSuffix
      <4>1. browser.expected > AfterText
        BY <1>0, <1>1, <2>3
      <4> QED
        BY <1>0, <2>3, <4>1 DEF DecoderSound
    <3>2. Sealed' /\ ~Errored' /\ api'.text = api.text
      BY <1>1, <3>1 DEF InSuffix
    <3>3. AfterText' = AfterText
      BY <1>0, <3>2
    <3> QED
      BY <1>4, <3>1, <3>2, <3>3 DEF InSuffix
  <2>4. browser.result = "reading" => browser.expected <= api'.seq
    BY <1>0, <1>1 DEF DecoderSound
  <2> QED
    BY <1>0, <1>2, <1>3, <1>4, <2>1, <2>2, <2>3, <2>4 DEF DecoderSound
<1>5. CASE browser'.result \in {"lost", "error"}
  BY <1>0, <1>2, <1>3, <1>5 DEF DecoderSound
<1> QED
  BY <1>4, <1>5

\* The next event is what belongs to the position that the decoder expects.
LEMMA NextFrame ==
    ASSUME StreamInvariant, browser.result = "reading", frames # <<>>,
           Head(frames).type # "keepalive"
    PROVE  Head(frames) \in FrameSet /\ FrameFits(Head(frames), browser.expected)
<1>1. PICK at \in [1..Len(frames) + 1 -> Nat] : FramesNumbered(at)
  BY DEF StreamInvariant, FramesSound
<1>2. frames \in Seq(FrameSet) /\ Head(frames) \in FrameSet /\ Head(frames) = frames[1]
      /\ 1 \in 1..Len(frames)
  <2>1. frames \in Seq(FrameSet)
    BY DEF StreamInvariant, StreamTypes
  <2> QED
    BY <2>1, HeadTailProperties, LenProperties
<1>3. frames[1] \in Events
  BY <1>2 DEF Events
<1>4. <<frames[1], at[1]>> \in Fitting /\ at[1] = browser.expected
  BY <1>1, <1>2, <1>3 DEF FramesNumbered, Numbers
<1> QED
  BY <1>2, <1>4 DEF Fitting

\* A decoder that is at the end of the text has all of it.
LEMMA AtSuffix ==
    ASSUME StreamTypes, DecoderSound, browser.result = "reading",
           browser.expected >= AfterText, browser.expected <= AfterText + 3
    PROVE  /\ browser.prefix = 4 /\ browser.text = api.text
           /\ browser.suffix = browser.expected - AfterText
           /\ browser.finished = NotSeen
<1>1. Len(api.text) \in Nat /\ Len(browser.text) \in Nat /\ browser.expected \in Nat
      /\ AfterText = 4 + Len(api.text) /\ Len(Prefix) = 4
  BY Shapes
<1>2. CASE browser.expected = AfterText
  <2>1. InText
    BY <1>1, <1>2 DEF DecoderSound
  <2>2. browser.prefix = 4 /\ Len(browser.text) = Len(api.text) /\ browser.suffix = 0
        /\ browser.finished = NotSeen
    BY <1>1, <1>2, <2>1 DEF InText
  <2>3. browser.text \in Seq(Pieces) /\ api.text \in Seq(Pieces)
        /\ \A i \in 1..Len(browser.text) : browser.text[i] = api.text[i]
    BY DEF DecoderSound, Agrees, StreamTypes, ApiStates, DecoderStates
  <2>4. browser.text = api.text
    BY <2>2, <2>3, SeqEqual
  <2> QED
    BY <1>1, <1>2, <2>2, <2>4
<1>3. CASE browser.expected > AfterText
  <2>1. InSuffix
    BY <1>3 DEF DecoderSound
  <2> QED
    BY <1>1, <1>3, <2>1 DEF InSuffix
<1> QED
  BY <1>1, <1>2, <1>3

\* What the decoder becomes when it accepts an event.
LEMMA TakenFields ==
    ASSUME StreamTypes, NEW f
    PROVE  /\ Taken(f).expected = browser.expected + 1
           /\ Taken(f).text = IF f.type = "delta" THEN browser.text \o f.text ELSE browser.text
           /\ Taken(f).prefix = IF browser.prefix < Len(Prefix) THEN browser.prefix + 1
                                ELSE browser.prefix
           /\ Taken(f).suffix = IF browser.prefix < Len(Prefix) \/ f.type = "delta"
                                THEN browser.suffix ELSE browser.suffix + 1
           /\ Taken(f).finished = IF f.type \in {"completed", "incomplete"} THEN f.type
                                  ELSE browser.finished
           /\ Taken(f).result = browser.result
BY DEF Taken, Grown, StreamTypes, DecoderStates

LEMMA DecoderReads ==
    ASSUME StreamInvariant, Reads
    PROVE  DecoderSound'
<1>0. StreamTypes /\ DecoderSound /\ StreamNext /\ browser.result = "reading" /\ frames # <<>>
      /\ api' = api
  BY DEF StreamInvariant, Reads, StreamNext, Decoder
<1> DEFINE f == Head(frames)
           e == browser.expected
<1>1. browser' = IF f.type = "keepalive" THEN browser
                 ELSE IF f.seq # browser.expected THEN [browser EXCEPT !.result = "invalid"]
                 ELSE IF f.type = "error" THEN [browser EXCEPT !.result = "error"]
                 ELSE IF Accepts(f) THEN Taken(f)
                 ELSE [browser EXCEPT !.result = "invalid"]
  BY DEF Reads
<1>2. CASE f.type = "keepalive"
  BY <1>0, <1>1, <1>2, DecoderKept
<1>3. ASSUME f.type # "keepalive" PROVE FrameFits(f, e) /\ f \in FrameSet /\ f.seq = e
  BY <1>0, <1>3, NextFrame DEF FrameFits
<1>4. CASE f.type = "error"
  <2>1. f.type # "keepalive" /\ f.seq = e
    BY <1>3, <1>4
  <2>2. browser' = [browser EXCEPT !.result = "error"]
    BY <1>1, <1>4, <2>1
  <2>3. browser'.result \in {"lost", "error"} /\ UNCHANGED <<browser.text, browser.finished>>
    BY <1>0, <2>2 DEF StreamTypes, DecoderStates
  <2> QED
    BY <1>0, <2>3, DecoderKept
<1>5. ASSUME f.type # "keepalive", f.type # "error", Accepts(f) PROVE browser' = Taken(f)
  BY <1>1, <1>3, <1>5
<1>6. Len(api.text) \in Nat /\ Len(browser.text) \in Nat /\ e \in Nat /\ api.seq \in Nat
      /\ AfterText = 4 + Len(api.text) /\ Len(Prefix) = 4
      /\ browser.text \in Seq(Pieces) /\ api.text \in Seq(Pieces)
  BY <1>0, Shapes DEF StreamTypes, ApiStates, DecoderStates
<1>7. AfterText' = AfterText /\ (Sealed => Sealed') /\ (Errored' => Errored)
  BY <1>0, KnowledgeGrows DEF AfterText, Errored, Reads
<1>8. ASSUME f.type # "keepalive", f.type # "error", e < 4
      PROVE  DecoderSound'
  <2>1. InText /\ f.type = Prefix[e + 1]
    BY <1>0, <1>3, <1>6, <1>8 DEF DecoderSound, FrameFits
  <2>2. browser.prefix = e /\ browser.text = <<>> /\ browser.suffix = 0
        /\ browser.finished = NotSeen
    BY <1>6, <1>8, <2>1 DEF InText
  <2>3. f.type \notin {"delta", "completed", "incomplete"}
    BY <1>6, <1>8, <2>1, EventNames
  <2>4. Accepts(f)
    BY <1>6, <1>8, <2>1, <2>2 DEF Accepts
  <2>5. browser' = Taken(f)
    BY <1>5, <1>8, <2>4
  <2>6. /\ browser'.expected = e + 1 /\ browser'.text = <<>> /\ browser'.prefix = e + 1
        /\ browser'.suffix = 0 /\ browser'.finished = NotSeen /\ browser'.result = "reading"
    BY <1>0, <1>6, <1>8, <2>2, <2>3, <2>5, TakenFields
  <2>7. e + 1 <= api.seq /\ e + 1 <= AfterText /\ e + 1 <= 4
    BY <1>3, <1>6, <1>8 DEF FrameFits
  <2>8. InText'
    BY <1>6, <2>6, <2>7 DEF InText
  <2> QED
    BY <1>0, <1>6, <1>7, <2>6, <2>7, <2>8 DEF DecoderSound, Agrees
<1>9. ASSUME f.type # "keepalive", f.type # "error", e >= 4, e < AfterText
      PROVE  DecoderSound'
  <2>1. InText /\ f.type = "delta" /\ f.text = <<api.text[e - 4 + 1]>>
    BY <1>0, <1>3, <1>6, <1>9 DEF DecoderSound, FrameFits
  <2>2. browser.prefix = 4 /\ Len(browser.text) = e - 4 /\ browser.suffix = 0
        /\ browser.finished = NotSeen
    BY <1>6, <1>9, <2>1 DEF InText
  <2>3. Accepts(f)
    BY <1>6, <2>1, <2>2 DEF Accepts
  <2>4. browser' = Taken(f)
    BY <1>5, <1>9, <2>3
  <2>5. /\ browser'.expected = e + 1 /\ browser'.text = browser.text \o f.text
        /\ browser'.prefix = 4 /\ browser'.suffix = 0 /\ browser'.finished = NotSeen
        /\ browser'.result = "reading"
    <3>1. ~(browser.prefix < Len(Prefix))
      BY <1>6, <2>2
    <3>2. /\ Taken(f).expected = browser.expected + 1
          /\ Taken(f).text = browser.text \o f.text
          /\ Taken(f).prefix = browser.prefix /\ Taken(f).suffix = browser.suffix
          /\ Taken(f).finished = browser.finished /\ Taken(f).result = browser.result
      BY <1>0, <2>1, <3>1, TakenFields
    <3> QED
      BY <1>0, <2>2, <2>4, <3>2
  <2>6. e - 4 + 1 \in 1..Len(api.text)
    BY <1>6, <1>9
  <2>7. browser'.text = Append(browser.text, api.text[e - 4 + 1])
    <3>1. api.text[e - 4 + 1] \in Pieces
      BY <1>6, <2>6, ElementOfSeq
    <3>2. browser.text \o <<api.text[e - 4 + 1]>> = Append(browser.text, api.text[e - 4 + 1])
      BY <1>6, <3>1, AppendIsConcat
    <3> QED
      BY <2>1, <2>5, <3>2
  <2>8. /\ Len(browser'.text) = e - 4 + 1
        /\ \A i \in 1..Len(browser.text) : browser'.text[i] = browser.text[i]
        /\ browser'.text[Len(browser.text) + 1] = api.text[e - 4 + 1]
    BY <1>6, <2>2, <2>6, <2>7, LenProperties, AppendProperties
  <2>9. Agrees(browser.text, api.text)'
    <3>1. \A i \in 1..Len(browser.text) : browser.text[i] = api.text[i]
      BY <1>0 DEF DecoderSound, Agrees
    <3>2. Len(browser'.text) <= Len(api.text)
      BY <1>6, <2>6, <2>8
    <3>3. ASSUME NEW i \in 1..Len(browser'.text) PROVE browser'.text[i] = api.text[i]
      <4>1. CASE i = e - 4 + 1
        BY <1>6, <2>2, <2>8, <4>1
      <4>2. CASE i # e - 4 + 1
        <5>1. i \in 1..Len(browser.text)
          BY <1>6, <2>2, <2>8, <4>2
        <5> QED
          BY <2>8, <3>1, <5>1
      <4> QED
        BY <4>1, <4>2
    <3> QED
      BY <1>0, <3>2, <3>3 DEF Agrees
  <2>10. e + 1 <= api.seq /\ e + 1 <= AfterText /\ e + 1 > 4
    BY <1>3, <1>6, <1>9 DEF FrameFits
  <2>11. InText'
    <3>1. \A n \in Nat : n >= 4 => n + 1 - 4 = n - 4 + 1 /\ ~(n + 1 <= 4)
      OBVIOUS
    <3>2. e + 1 - 4 = e - 4 + 1 /\ ~(e + 1 <= 4)
      BY <1>6, <1>9, <3>1
    <3>3. Len(browser'.text) = browser'.expected - Len(Prefix)
      <4>1. browser'.expected - Len(Prefix) = (e + 1) - 4
        BY <1>6, <2>5
      <4> QED
        BY <1>6, <2>8, <3>2, <4>1
    <3>4. ~(browser'.expected <= Len(Prefix))
      BY <1>6, <2>5, <3>2
    <3> QED
      BY <1>6, <2>5, <3>3, <3>4 DEF InText
  <2> QED
    BY <1>0, <1>6, <1>7, <2>5, <2>9, <2>10, <2>11 DEF DecoderSound
<1>10. ASSUME f.type # "keepalive", f.type # "error", e >= AfterText
       PROVE  DecoderSound'
  <2>1. /\ Sealed /\ ~Errored /\ e <= AfterText + 3 /\ e < api.seq
        /\ f.type = Suffix(api.incomplete)[e - AfterText + 1] /\ f.text = api.text
    BY <1>3, <1>10 DEF FrameFits
  <2>2. /\ browser.prefix = 4 /\ browser.text = api.text
        /\ browser.suffix = e - AfterText /\ browser.finished = NotSeen
    BY <1>0, <1>10, <2>1, AtSuffix
  <2>3. browser.suffix \in 0..3 /\ f.type = Suffix(api.incomplete)[browser.suffix + 1]
        /\ api.incomplete \in BOOLEAN
    <3>1. \A a, n \in Nat : n >= a /\ n <= a + 3 => n - a \in 0..3
      OBVIOUS
    <3>2. browser.suffix \in 0..3
      BY <1>6, <1>10, <2>1, <2>2, <3>1
    <3>3. api.incomplete \in BOOLEAN
      BY <1>0 DEF StreamTypes, ApiStates
    <3> QED
      BY <2>1, <2>2, <3>2, <3>3
  <2>4. /\ f.type \notin {"delta", "error"}
        /\ f.type = Suffix(f.type = "incomplete")[browser.suffix + 1]
        /\ f.type \in {"completed", "incomplete"} <=> browser.suffix = 3
        /\ f.type = "completed" => ~api.incomplete
    <3>1. browser.suffix = 0 \/ browser.suffix = 1 \/ browser.suffix = 2 \/ browser.suffix = 3
      BY <2>3
    <3>2. browser.suffix # 3 => f.type \in {"text_done", "part_done", "item_done"}
      BY <2>3, <3>1, EventNames
    <3>3. browser.suffix = 3 => f.type = IF api.incomplete THEN "incomplete" ELSE "completed"
      BY <2>3, EventNames
    <3>4. f.type = Suffix(f.type = "incomplete")[browser.suffix + 1]
      <4>1. CASE browser.suffix = 3
        BY <2>3, <3>3, <4>1 DEF Suffix
      <4>2. CASE browser.suffix = 0
        BY <2>3, <3>2, <4>2 DEF Suffix
      <4>3. CASE browser.suffix = 1
        BY <2>3, <3>2, <4>3 DEF Suffix
      <4>4. CASE browser.suffix = 2
        BY <2>3, <3>2, <4>4 DEF Suffix
      <4> QED
        BY <3>1, <4>1, <4>2, <4>3, <4>4
    <3> QED
      BY <3>2, <3>3, <3>4
  <2>5. Accepts(f)
    <3>1. f.type = "completed" => ~IsBlank(browser.text)
      BY <2>1, <2>2, <2>4 DEF Sealed
    <3> QED
      BY <1>6, <2>1, <2>2, <2>4, <3>1 DEF Accepts, LastIsSound
  <2>6. browser' = Taken(f)
    BY <1>5, <1>10, <2>5
  <2>7. /\ browser'.expected = e + 1 /\ browser'.text = api.text /\ browser'.prefix = 4
        /\ browser'.suffix = browser.suffix + 1 /\ browser'.result = "reading"
        /\ browser'.finished = IF browser.suffix = 3 THEN f.type ELSE NotSeen
    BY <1>0, <1>6, <2>2, <2>4, <2>6, TakenFields
  <2>8. browser.suffix = 3 => f.type = Suffix(api.incomplete)[4] /\ f.type # NotSeen
    BY <2>3, <2>4, EventNames DEF NotSeen
  <2>9. Sealed' /\ ~Errored'
    BY <1>7, <2>1
  <2>10. browser'.suffix = browser'.expected - AfterText /\ browser'.suffix <= 4
         /\ browser'.expected > AfterText /\ browser'.expected <= api.seq
    <3>1. \A a, n \in Nat : n >= a /\ n <= a + 3 =>
             n - a + 1 = n + 1 - a /\ n - a + 1 <= 4 /\ n + 1 > a
      OBVIOUS
    <3>2. AfterText \in Nat
      BY <1>6
    <3>3. e - AfterText + 1 = e + 1 - AfterText /\ e - AfterText + 1 <= 4 /\ e + 1 > AfterText
      BY <1>6, <1>10, <2>1, <3>1, <3>2
    <3>4. e + 1 <= api.seq
      <4>1. \A n, m \in Nat : n < m => n + 1 <= m
        OBVIOUS
      <4> QED
        BY <1>6, <2>1, <4>1
    <3> QED
      BY <1>6, <2>2, <2>7, <3>3, <3>4
  <2>11. (browser'.finished = NotSeen) <=> (browser'.suffix < 4)
    BY <2>3, <2>7, <2>8
  <2>12. InSuffix'
    BY <1>0, <1>6, <1>7, <2>7, <2>9, <2>10, <2>11 DEF InSuffix
  <2>13. browser'.finished # NotSeen => Finished'
    BY <1>0, <2>7, <2>8, <2>9 DEF Finished
  <2>14. Agrees(browser.text, api.text)'
    BY <1>0, <1>6, <2>7 DEF Agrees
  <2>15. ~(browser'.expected <= AfterText)
    BY <1>6, <2>7, <2>10
  <2> QED
    BY <1>0, <1>7, <2>7, <2>10, <2>12, <2>13, <2>14, <2>15 DEF DecoderSound
<1> QED
  BY <1>2, <1>4, <1>6, <1>8, <1>9, <1>10

LEMMA DecoderReadsEnd ==
    ASSUME StreamInvariant, ReadsEnd
    PROVE  DecoderSound'
<1>0. /\ StreamTypes /\ ApiSound /\ FramesSound /\ DecoderSound /\ StreamNext
      /\ browser.result = "reading" /\ frames = <<>> /\ downLink # "open"
      /\ UNCHANGED <<produced, upLink, api, downLink>>
  BY DEF StreamInvariant, ReadsEnd, StreamNext, Decoder
<1>1. CASE downLink = "cut"
  <2>1. browser'.result = "lost" /\ UNCHANGED <<browser.text, browser.finished>>
    BY <1>0, <1>1 DEF ReadsEnd, StreamTypes, DecoderStates
  <2> QED
    BY <1>0, <2>1, DecoderKept
<1>2. CASE downLink = "ended"
  <2>1. PICK at \in [1..Len(frames) + 1 -> Nat] : FramesNumbered(at)
    BY <1>0 DEF FramesSound
  <2>2. browser.expected = api.seq
    <3>1. Len(frames) = 0
      BY <1>0
    <3> QED
      BY <1>2, <2>1, <3>1 DEF FramesNumbered, Numbers
  <2>3. api.place = "over" /\ Closing
    BY <1>0, <1>2 DEF ApiSound
  <2>4. api.seq \in Nat /\ AfterText \in Nat
    BY <1>0, Shapes
  <2>5. browser.expected > AfterText
    BY <2>2, <2>3, <2>4 DEF Closing
  <2>6. InSuffix
    BY <1>0, <2>5 DEF DecoderSound
  <2>7. browser.suffix = 4
    <3>1. api.seq # AfterText + 1
      BY <1>2, <2>3, <2>6 DEF InSuffix, Errored
    <3> QED
      BY <2>2, <2>3, <2>4, <2>6, <3>1 DEF InSuffix, Closing
  <2>8. browser.finished # NotSeen
    BY <2>6, <2>7 DEF InSuffix
  <2>9. Finished /\ Agrees(browser.text, api.text)
    BY <1>0, <2>8 DEF DecoderSound
  <2>10. browser'.result = browser.finished /\ UNCHANGED <<browser.text, browser.finished>>
    BY <1>0, <1>2, <2>8 DEF ReadsEnd, StreamTypes, DecoderStates
  <2>11. Finished' /\ Agrees(browser.text, api.text)'
    BY <1>0, <2>9, <2>10 DEF Finished, Sealed, Agrees
  <2>12. browser'.result \in {"completed", "incomplete"}
    BY <1>0, <2>8, <2>10 DEF StreamTypes, DecoderStates
  <2> QED
    BY <2>10, <2>11, <2>12 DEF DecoderSound
<1> QED
  BY <1>0, <1>1, <1>2 DEF StreamTypes

LEMMA DecoderStaysSound ==
    ASSUME StreamInvariant, StreamNext
    PROVE  DecoderSound'
<1>0. StreamTypes
  BY DEF StreamInvariant
<1>1. CASE Decoder
  BY <1>1, DecoderReads, DecoderReadsEnd DEF Decoder
<1>2. CASE Cancels
  <2>1. CASE browser.result \in {"reading", "error"}
    <3>1. browser'.result \in {"lost", "error"} /\ UNCHANGED <<browser.text, browser.finished>>
      BY <1>0, <1>2, <2>1 DEF Cancels, StreamTypes, DecoderStates
    <3> QED
      BY <3>1, DecoderKept
  <2>2. browser.result # "invalid"
    BY DEF StreamInvariant, DecoderSound
  <2> QED
    BY <1>2, <2>1, <2>2 DEF Cancels
<1>3. CASE ~Decoder /\ ~Cancels
  <2>1. browser' = browser
    BY <1>3 DEF StreamNext, Thread, Granite, Heartbeat, Api, CutUpLink, CutDownLink, streamVars,
       ReadPiece, OllamaEnds, Publish, Retry, GiveUp, Started, NotStarted, Pass, LastLine,
       EndOfLines, BodyClosed, WritePrefix, ReadBlank, ReadDelta, ReadOther, ReadEnd, ReadFails,
       WriteSuffix, WriteError, CloseApi
  <2> QED
    BY <2>1, DecoderKept
<1> QED
  BY <1>1, <1>2, <1>3

-----------------------------------------------------------------------------
LEMMA StutterKeeps ==
    ASSUME StreamInvariant, UNCHANGED streamVars
    PROVE  StreamInvariant'
<1>1. /\ produced' = produced /\ reader' = reader /\ pending' = pending /\ body' = body
      /\ lines' = lines /\ upLink' = upLink /\ api' = api /\ frames' = frames
      /\ downLink' = downLink /\ browser' = browser
  BY DEF streamVars
<1>2. StreamTypes' /\ ThreadSound'
  BY <1>1 DEF StreamInvariant, StreamTypes, ThreadSound, InQueue
<1>3. LinesSound'
  BY <1>1 DEF StreamInvariant, LinesSound, LinesNumbered, InQueue
<1>4. ApiSound'
  BY <1>1 DEF StreamInvariant, ApiSound, Closing, Sealed, AfterText
<1>5. FramesSound'
  BY <1>1 DEF StreamInvariant, FramesSound, FramesNumbered, Fitting, FrameFits, Sealed, Errored,
     AfterText
<1>6. DecoderSound'
  BY <1>1 DEF StreamInvariant, DecoderSound, Finished, InText, InSuffix, Sealed, Errored, AfterText
<1> QED
  BY <1>2, <1>3, <1>4, <1>5, <1>6 DEF StreamInvariant

(***************************************************************************)
(* The positions are right in every reachable state, for any number of     *)
(* pieces and any number of lines and frames under way.                    *)
(***************************************************************************)
THEOREM StreamIsSound == StreamSpec => []StreamInvariant
<1>1. StreamInit => StreamInvariant
  BY InitialInvariant
<1>2. StreamInvariant /\ [StreamNext]_streamVars => StreamInvariant'
  <2>1. ASSUME StreamInvariant, StreamNext PROVE StreamInvariant'
    BY <2>1, TypesStay, ThreadStaysSound, LinesStaySound, ApiStaysSound, FramesStaySound,
       DecoderStaysSound DEF StreamInvariant
  <2> QED
    BY <2>1, StutterKeeps
<1> QED
  BY <1>1, <1>2, PTL DEF StreamSpec

\* consumeEvent never throws at what Rocky streams: whatever fails before it,
\* the frames that come are well formed, in order and end as they should.
THEOREM StreamNeverMalformed == StreamSpec => []NeverMalformed
<1>1. StreamInvariant => NeverMalformed
  BY DEF StreamInvariant, DecoderSound, NeverMalformed
<1> QED
  BY <1>1, StreamIsSound, PTL

LEMMA AgreesIsPrefix ==
    ASSUME NEW S, NEW s \in Seq(S), NEW t \in Seq(S), Agrees(s, t)
    PROVE  PrefixOf(s, t)
<1>1. Len(s) \in Nat /\ Len(t) \in Nat /\ Len(s) <= Len(t) /\ \A i \in 1..Len(s) : s[i] = t[i]
  BY LenProperties DEF Agrees
<1>2. \A i \in 1..Len(s) : t[i] \in S
  BY <1>1, ElementOfSeq
<1>3. /\ SubSeq(t, 1, Len(s)) \in Seq(S)
      /\ Len(SubSeq(t, 1, Len(s))) = IF 1 <= Len(s) THEN Len(s) - 1 + 1 ELSE 0
      /\ \A i \in 1..Len(s) - 1 + 1 : SubSeq(t, 1, Len(s))[i] = t[1 + i - 1]
  BY <1>1, <1>2, SubSeqProperties
<1>4. \A n \in Nat : n - 1 + 1 = n /\ (~(1 <= n) => n = 0) /\ \A i \in 1..n : 1 + i - 1 = i
  OBVIOUS
<1>5. Len(SubSeq(t, 1, Len(s))) = Len(s) /\ \A i \in 1..Len(s) : SubSeq(t, 1, Len(s))[i] = s[i]
  BY <1>1, <1>3, <1>4
<1>6. s = SubSeq(t, 1, Len(s))
  BY <1>3, <1>5, SeqEqual
<1> QED
  BY <1>1, <1>6 DEF PrefixOf

\* What the browser shows is at any time the beginning of what Ollama has
\* generated, and all of it once the answer has ended.
THEOREM StreamTextIsTrue == StreamSpec => []TextIsTrue
<1>1. ASSUME StreamInvariant PROVE TextIsTrue
  <2>1. /\ Agrees(browser.text, api.text) /\ Agrees(api.text, produced)
        /\ produced \in Seq(Pieces) /\ browser.text \in Seq(Pieces) /\ api.text \in Seq(Pieces)
    BY <1>1 DEF StreamInvariant, StreamTypes, ApiStates, DecoderStates, DecoderSound, ApiSound
  <2>2. Agrees(browser.text, produced)
    BY <2>1, LenProperties DEF Agrees
  <2>3. PrefixOf(browser.text, produced)
    BY <2>1, <2>2, AgreesIsPrefix
  <2>4. browser.result \in {"completed", "incomplete"} => browser.text = produced
    BY <1>1 DEF StreamInvariant, DecoderSound, Finished, Sealed, NotSeen
  <2> QED
    BY <2>3, <2>4 DEF TextIsTrue
<1> QED
  BY <1>1, StreamIsSound, PTL

\* The browser takes an answer for complete, or for cut short by the limit on
\* tokens, only if Granite has said so, and not after a lost connection.
THEOREM StreamFinishedIsFinished == StreamSpec => []FinishedIsFinished
<1>1. ASSUME StreamInvariant PROVE FinishedIsFinished
  <2>1. browser.finished # NotSeen => Finished
    BY <1>1 DEF StreamInvariant, DecoderSound
  <2>2. api.incomplete \in BOOLEAN
    BY <1>1 DEF StreamInvariant, StreamTypes, ApiStates
  <2>3. browser.finished # NotSeen =>
           /\ browser.finished = IF api.incomplete THEN "incomplete" ELSE "completed"
           /\ api.terminal = IF api.incomplete THEN "length" ELSE "stop"
           /\ upLink = "ended"
    BY <2>1, <2>2, EventNames DEF Finished, Sealed
  <2> QED
    BY <2>3 DEF FinishedIsFinished, NotSeen
<1> QED
  BY <1>1, StreamIsSound, PTL

=============================================================================
