------------------------------- MODULE Prompts -------------------------------
(***************************************************************************)
(* The way of one turn's input to Ollama, as operators on its data: what   *)
(* api-rocky/api.py and image_input.py accept, how the API puts the earlier *)
(* messages before the new ones and cuts them to its limits, and what      *)
(* granite-llm-server's request_parser.py and image_input.py, which check  *)
(* everything again in another service, accept and make of it.             *)
(*                                                                         *)
(* A text is as long as its characters, and blank if it has none; an image *)
(* is as large as its decoded bytes and its pixels, and sound if it decodes *)
(* to one frame of the declared type.  A message has a role and a sequence *)
(* of blocks: a body that is a plain string is one block.                  *)
(***************************************************************************)
EXTENDS Integers, Sequences, SequencesExt

Text(n) == [kind |-> "text", chars |-> n]
Image(b, p, sound) == [kind |-> "image", bytes |-> b, pixels |-> p, sound |-> sound]

TextBlocks == [kind : {"text"}, chars : Nat]
ImageBlocks == [kind : {"image"}, bytes : Nat, pixels : Nat, sound : BOOLEAN]
AllBlocks == TextBlocks \cup ImageBlocks

\* A role that is none of these is refused, whatever it is.
Roles == {"user", "assistant", "system", "developer", "other"}
Messages == [role : Roles, content : Seq(AllBlocks)]

\* The limits that the environment sets.
LimitSets ==
    [enabled : BOOLEAN, chars : Nat, images : Nat, imageBytes : Nat, totalBytes : Nat,
     imagePixels : Nat, totalPixels : Nat, tokens : Nat, imageTokens : Nat]

IsText(block) == block.kind = "text"
IsWritten(block) == IsText(block) /\ block.chars > 0
IsImage(block) == block.kind = "image"

\* The things at the given places, and those that pass a test, in their order.
Chosen(things, places) ==
    FlattenSeq([i \in DOMAIN things |-> IF i \in places THEN <<things[i]>> ELSE <<>>])
Selected(things, Test(_)) == Chosen(things, {i \in DOMAIN things : Test(things[i])})

Total(sizes) == FoldLeft(LAMBDA sum, size : sum + size, 0, sizes)
TotalOf(Size(_), things) == Total([i \in DOMAIN things |-> Size(things[i])])
Blocks(messages) == FlattenSeq([i \in DOMAIN messages |-> messages[i].content])
ImagesOf(messages) == Selected(Blocks(messages), IsImage)
TextsOf(messages) == Selected(Blocks(messages), IsText)
AtLeastZero(n) == IF n < 0 THEN 0 ELSE n

CharsOf(block) == block.chars
BytesOf(block) == block.bytes
PixelsOf(block) == block.pixels

-----------------------------------------------------------------------------
(***************************************************************************)
(* What the API accepts, under the limits lim of its configuration         *)
(***************************************************************************)
\* _decode_image and _inspect_image, for an image on its own.
AcceptableImage(image, lim) ==
    image.sound /\ image.bytes \in 1 .. lim.imageBytes /\ image.pixels \in 1 .. lim.imagePixels

\* validate_image_inputs counts what it has passed so far; no size is negative.
ValidImages(input, lim) ==
    LET images == ImagesOf(input) IN
    /\ Len(images) <= lim.images
    /\ \A i \in DOMAIN input : ImagesOf(<<input[i]>>) # <<>> => input[i].role = "user"
    /\ \A image \in ToSet(images) : AcceptableImage(image, lim)
    /\ TotalOf(BytesOf, images) <= lim.totalBytes
    /\ TotalOf(PixelsOf, images) <= lim.totalPixels

\* validate_public_request: the input and the instructions.
ValidInput(ask, lim) ==
    /\ ask.input # <<>>
    /\ \A message \in ToSet(ask.input) :
          /\ message.role \in {"user", "assistant", "system", "developer"}
          /\ message.content # <<>>
    /\ \E message \in ToSet(ask.input) : message.role = "user"
    /\ \A text \in ToSet(TextsOf(ask.input)) : text.chars > 0
    /\ IF lim.enabled THEN ValidImages(ask.input, lim) ELSE ImagesOf(ask.input) = <<>>
    /\ TotalOf(CharsOf, TextsOf(ask.input)) + ask.instructions <= lim.chars

\* validate_public_request: the parameters, of which only the limit of the tokens
\* depends on the input.
ValidParameters(ask, lim) ==
    ask.wellFormed /\ ask.tokens <= IF ImagesOf(ask.input) = <<>> THEN lim.tokens ELSE lim.imageTokens

\* normalize_input_messages.
CurrentMessages(input) ==
    Selected(
        [i \in DOMAIN input |->
            [role |-> IF input[i].role = "developer" THEN "system" ELSE input[i].role,
             content |-> Selected(input[i].content, LAMBDA b : IsWritten(b) \/ IsImage(b))]],
        LAMBDA message : message.content # <<>>)

-----------------------------------------------------------------------------
(***************************************************************************)
(* What the API puts before the new messages                               *)
(***************************************************************************)
\* message_character_count: the texts of a message, joined by line breaks.
CharacterCount(message) ==
    LET written == Selected(message.content, IsWritten)
    IN  TotalOf(CharsOf, written) + AtLeastZero(Len(written) - 1)

\* message_image_usage.
ImageUsage(message) ==
    LET images == Selected(message.content, IsImage)
    IN  [images |-> Len(images), bytes |-> TotalOf(BytesOf, images),
         pixels |-> TotalOf(PixelsOf, images)]

\* without_image_blocks: a message that has nothing else goes.
WithoutImages(messages) ==
    Selected(
        [i \in DOMAIN messages |->
            [messages[i] EXCEPT !.content = Selected(@, LAMBDA b : ~IsImage(b))]],
        LAMBDA message : message.content # <<>>)

\* Mutant of GraniteInput: the images come first.
GraniteInputImagesFirst(documents) ==
    LET usable == Selected(documents, LAMBDA d :
                      d.status = "sent" /\ (d.text > 0 \/ d.images # <<>>))
    IN  [i \in DOMAIN usable |->
            [role |-> usable[i].role,
             content |-> usable[i].images
                         \o (IF usable[i].text > 0 THEN <<Text(usable[i].text)>> ELSE <<>>)]]

\* load_recent_messages: the last ones that were sent, of the n at most.
RecentMessages(documents, n) ==
    LET sent == Selected(documents, LAMBDA d : d.status = "sent")
    IN  SubSeq(sent, IF Len(sent) > n THEN Len(sent) - n + 1 ELSE 1, Len(sent))

\* messages_to_granite_input: the text, if any, and then the images.
GraniteInput(documents) ==
    LET usable == Selected(documents, LAMBDA d :
                      d.status = "sent" /\ (d.text > 0 \/ d.images # <<>>))
    IN  [i \in DOMAIN usable |->
            [role |-> usable[i].role,
             content |-> (IF usable[i].text > 0 THEN <<Text(usable[i].text)>> ELSE <<>>)
                         \o usable[i].images]]

\* clean_message_for_export, with clean_input_images_for_export: what the owner
\* of a conversation reads, whatever the status.
Shown(document) ==
    [role |-> document.role,
     content |-> (IF document.text > 0 THEN <<Text(document.text)>> ELSE <<>>)
                 \o Selected(document.images, LAMBDA image : image.sound /\ image.bytes > 0)]

\* Whether one more message fits in what is left.
Fits(message, left) ==
    LET usage == ImageUsage(message) IN
    /\ CharacterCount(message) <= left.chars
    /\ usage.images <= left.images
    /\ usage.bytes <= left.bytes
    /\ usage.pixels <= left.pixels

\* Mutant of LeftBy: only the texts of the new messages count.
LeftByTexts(current, instructions, lim) ==
    [chars |-> AtLeastZero(lim.chars - TotalOf(CharacterCount, current) - instructions),
     images |-> lim.images, bytes |-> lim.totalBytes, pixels |-> lim.totalPixels,
     kept |-> 0, open |-> TRUE]

\* What the new messages and the instructions leave of the limits.
LeftBy(current, instructions, lim) ==
    LET Used(field) == TotalOf(LAMBDA m : ImageUsage(m)[field], current) IN
    [chars |-> AtLeastZero(lim.chars - TotalOf(CharacterCount, current) - instructions),
     images |-> AtLeastZero(lim.images - Used("images")),
     bytes |-> AtLeastZero(lim.totalBytes - Used("bytes")),
     pixels |-> AtLeastZero(lim.totalPixels - Used("pixels")),
     kept |-> 0, open |-> TRUE]

\* One more message of the past is kept, or none from here on.
Keep(message, left) ==
    LET usage == ImageUsage(message) IN
    IF left.open /\ Fits(message, left)
    THEN [left EXCEPT !.chars = @ - CharacterCount(message), !.images = @ - usage.images,
                      !.bytes = @ - usage.bytes, !.pixels = @ - usage.pixels, !.kept = @ + 1]
    ELSE [left EXCEPT !.open = FALSE]

\* Mutant of BoundedHistory: the oldest messages are kept.
BoundedHistoryOldest(messages, current, instructions, lim) ==
    LET history == IF lim.enabled THEN messages ELSE WithoutImages(messages)
        kept == FoldLeft(LAMBDA left, m : Keep(m, left),
                         LeftBy(current, instructions, lim), history).kept
    IN  SubSeq(history, 1, kept)

\* bounded_history_messages, from the newest message to the oldest.
BoundedHistory(messages, current, instructions, lim) ==
    LET history == IF lim.enabled THEN messages ELSE WithoutImages(messages)
        kept == FoldRight(Keep, history, LeftBy(current, instructions, lim)).kept
    IN  SubSeq(history, Len(history) - kept + 1, Len(history))

\* build_granite_payload_with_context; tokens 0: the request names no limit.
Payload(ask, history, lim) ==
    LET current == CurrentMessages(ask.input)
        system == IF ask.instructions = 0 THEN <<>>
                  ELSE <<[role |-> "system", content |-> <<Text(ask.instructions)>>]>>
        input == system \o BoundedHistory(history, current, ask.instructions, lim) \o current
    IN  [input |-> input,
         tokens |-> IF ask.tokens > 0 THEN ask.tokens
                    ELSE IF ImagesOf(input) = <<>> THEN lim.tokens ELSE lim.imageTokens]

\* has_effective_user_prompt.
HasUserPrompt(payload) ==
    \E message \in ToSet(payload.input) : message.role = "user" /\ message.content # <<>>

-----------------------------------------------------------------------------
(***************************************************************************)
(* What Granite accepts, and what it makes of it                           *)
(***************************************************************************)
\* validate_internal_image_block, for a block on its own.
SoundBlock(image, lim) ==
    image.sound /\ image.bytes \in 1 .. lim.imageBytes /\ image.pixels \in 1 .. lim.imagePixels

\* The next block of a message whose texts and images alternate: it joins the last
\* fragment if that is of its kind.
AddToFragments(role, fragments, block) ==
    LET last == Len(fragments) IN
    IF fragments # <<>> /\ (fragments[last].images # <<>>) = IsImage(block)
    THEN IF IsImage(block) THEN [fragments EXCEPT ![last].images = Append(@, block)]
                           ELSE [fragments EXCEPT ![last].texts = Append(@, block)]
    ELSE Append(fragments, [role |-> role,
                            texts |-> IF IsText(block) THEN <<block>> ELSE <<>>,
                            images |-> IF IsImage(block) THEN <<block>> ELSE <<>>])

\* A message of Ollama has one text and then images: one with a text after an
\* image is told in fragments.
SeparateFragments(message) ==
    LET content == message.content IN
    IF \E i, j \in DOMAIN content : i < j /\ IsImage(content[i]) /\ IsText(content[j])
    THEN FoldLeft(LAMBDA fragments, block : AddToFragments(message.role, fragments, block),
                  <<>>, content)
    ELSE <<[role |-> message.role, texts |-> Selected(content, IsText),
            images |-> Selected(content, IsImage)]>>

\* The messages that extract_messages makes for Ollama.
OllamaMessages(payload) ==
    FlattenSeq([i \in DOMAIN payload.input |-> SeparateFragments(payload.input[i])])

\* The limit of the tokens goes by the images that Ollama gets.
TokenLimit(payload, lim) ==
    IF \E message \in ToSet(OllamaMessages(payload)) : message.images # <<>>
    THEN lim.imageTokens ELSE lim.tokens

\* Whether extract_messages raises nothing.
ServesInput(input, lim) ==
    /\ input # <<>>
    /\ \A message \in ToSet(input) :
          /\ message.role \in {"user", "assistant", "system"}
          /\ message.content # <<>>
          /\ ImagesOf(<<message>>) # <<>> => lim.enabled /\ message.role = "user"
    /\ \A text \in ToSet(TextsOf(input)) : text.chars > 0
    /\ \A image \in ToSet(ImagesOf(input)) : SoundBlock(image, lim)
    /\ Len(ImagesOf(input)) <= lim.images
    /\ TotalOf(BytesOf, ImagesOf(input)) <= lim.totalBytes
    /\ TotalOf(PixelsOf, ImagesOf(input)) <= lim.totalPixels

\* Whether extract_generation_options raises nothing.
ServesOptions(payload, lim) == payload.tokens \in 1 .. TokenLimit(payload, lim)

Serves(payload, lim) == ServesInput(payload.input, lim) /\ ServesOptions(payload, lim)

=============================================================================
