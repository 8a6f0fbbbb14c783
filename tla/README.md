# A TLA+ model of Rocky

Rocky is an AI teaching assistant: a web interface, a public API that answers with a
language model, a backend that manages courses, users and keys, and a small server
in front of Ollama. This directory holds specifications of the parts of it in which
threads, processes and stores meet, the TLC configurations that check them on small
instances, and proofs that hold for every instance.

All paths below are relative to the repository, with `granite/` for
`granite-llm-server/app/`, `api/` for `api-rocky/` and `backend/` for
`rocky-backend/backend/`.

## The system

    browser ── rocky-interface (SvelteKit proxy)
       │                │
       │ /v1/responses  │ /api/...
       ▼                ▼
    api-rocky        rocky-backend ──────────────┐
       │  │                 │                    │
       │  └── rate limits,  └── courses, keys,   │
       │      telemetry,        users, audit     │
       │      chats ──────► document store ◄─────┘
       │ /generate          (MongoDB or Mongita)
       ▼
    granite-llm-server ── FairInferenceQueue ── Ollama

Deployed, the chat API runs two gunicorn workers of eight threads, the backend two
single-threaded workers, and the Granite server one worker of sixteen threads
(`deploy/README.md`, `deploy/systemd/`). So the queue is shared by the threads of one
process and protected by a lock, and everything else is shared by processes that meet
only in the document store, which runs one operation on one document at a time.

### Inventory

| component | state | operations | works with |
|---|---|---|---|
| Admission queue, `granite/inference_queue.py` | line, active count, queued bytes; each ticket's status, deadline, released flag; parked waiters | `request_slot`, `wait`, `cancel`, `release`, `snapshot` | called by `/generate` and the stream bodies |
| Generation endpoint, `granite/main.py`, `runtime_state.py` | the body's flags, the Ollama response, the inference counter | handler, `__iter__`, `close` | queue, Ollama, WSGI server |
| Streaming relay, `granite/ollama_client.py`, `main.py`, `api/granite_stream_client.py`, `api/response_stream_contract.py`, `lib/chat/responseStream.ts` | one-item queue of the reader thread, two connections, each stage's position | read, publish, pass on, complete, fail, decode | five processes or threads in a row |
| Responses handler, `api/api.py` | request's locals, messages, context, record | `POST /v1/responses`, buffered or streamed | Granite, telemetry, chats |
| Request telemetry, `api/telemetry.py`, `telemetry_projection.py`, `rocky_tools/retention.py` | a record per request, the shared counters | received, terminal, delivery, projection, purge | responses handler, backend |
| Rate limiter, `api/rate_limit.py` | a counter per key and window, each worker's next cleanup | `consume` | every public request |
| Courses and audit outbox, `backend/course_actions.py`, `route_handlers/courses.py`, `audit.py` | the course document with its outbox, `api_history` | edits, flush, audit listing | keys |
| Course keys, `courses.py`, `course_actions.py`, `rocky_common/course_keys.py` | key documents | generate, switch, delete, revoke, authenticate | courses, public API |
| Users, sign-in, settings, `auth.py`, `users.py`, `settings.py`, `authz.py` | accounts, the whitelist, the keys of persons | sign-in, session, settings, both administrators' pages, bulk change | course keys, which they must leave alone |
| Analytics, review, inspector | none of its own | aggregation | not modelled |
| Hardware metrics | samples | poll and insert | not modelled |
| Validation of requests and images, `api/api.py`, `api/image_input.py`, `granite/request_parser.py`, `granite/image_input.py` | none | check, cut the history, check again, rearrange | two services that must agree |
| Chats and contexts that are read again, `api/api.py` | messages of each conversation, contexts of responses | open, recent messages, build the payload, save, withdraw | validation, responses handler |
| Web interface | view state | presentation | only its stream decoder |
| Tools and deployment | none | start, diagnose | only as the source of the concurrency |

### What is hard, and what makes each part correct

*Admission queue.* Deadlines are checked only at the head of the line, threads sleep on
one condition variable, a slot can be given back by a body's `finally` and again by the
server that closes the response. Correct: no more admissions than slots, the counter
exact, first come first served, no free slot while somebody waits, nobody admitted after
their deadline or timed out before it, nobody asleep when it is their turn.

*Generation endpoint.* A client may leave at every yield, Ollama may fail at every call.
Correct: Ollama's concurrency stays within the slots although connections are closed and
slots released in separate steps; every path gives back what it took.

*Streaming relay.* Either connection may be cut anywhere. Correct: the reader sees only a
prefix of what was generated, an answer counts as finished only if it is, the decoder never
finds Rocky's own stream malformed, and no thread stays behind.

*Responses handler.* Four stores' worth of calls, each of which may raise with or without
having taken effect, and compensations that may fail too. Correct: what the client is told,
what is stored and what is recorded agree, as far as the stores that still answer allow.

*Telemetry.* Two documents are updated one after the other by many requests while a
projection overwrites derived values it computed earlier. Correct: counters agree with one
another and with the records, and the first outcome stands.

*Rate limiter.* Counting, cleaning up and the TTL index run concurrently in several
processes. Correct: the limit holds, refusals are justified, no counter is deleted in use.

*Courses.* Two workers edit one document by read, decide, compare-and-set; audit events are
staged in the same write and delivered later. Correct: edits are atomic, and every staged
event is delivered exactly once, in order, whatever crashes.

*Keys.* They are documents of their own, read and written back whole, and their right to
exist depends on the course. Correct: a revoked key stays dead, a removal that has answered
leaves no key that the student may know, and nobody gets a group's key on the strength of
what was allowed before it was made.

*Accounts.* An account, its whitelist entry and its keys are three documents, no call
writes two of them, and every route writes back what it read some calls ago. Correct: the
keys follow the account, the entry and the account agree, an administrator remains, and
nothing here opens a key that a course has shut.

*Validation and history.* The API and Granite count characters, images, bytes, pixels and
tokens each on their own, and the history is cut to what the new turn leaves. Correct:
Granite serves whatever the API lets pass, in the order in which it was written; the
history is the longest end that fits; what is continued is what was said.

The hazards in `PROJECT.json` name the lines where each of these bites.

## Modules

Variables and actions carry the names of the code where TLA+ allows it; `PROJECT.json`
maps each definition to its lines. A definition called "Mutant of X" is a plausible bug
in X: it is used by no specification and documents which mistake which property catches.

**InferenceQueue** – the object's fields are one record `queue`, because every method
holds the Condition; a method is a function on such records (`Advance` is
`_advance_locked`, `Remove` is `_remove_waiting_locked`, ...) and an action applies it.
`call` holds the threads inside `Condition.wait`: `Park` puts one there, `Resume` takes it
out after a notification or a time-out, spurious or late. The clock may move between two
readings under one hold of the lock (`LaterReadings`). **AdmissionLine** is what the queue
promises without clocks, bytes or locks, and `ImplementsAdmissionLine` maps onto it.

**GraniteGenerate** – composes the queue with the handler: `pc` is where each request's
thread stands, from `Arrive` over `Ask`, `Poll`, `Wake`, `Begin` to the calls of Ollama and
through the body's `close` (`Close`, `CloseUpstream`, `EndInference`, `ReleaseTicket`,
`CancelTicket`), which the server calls a second time (`CloseAgain`).

**ChatStream** – one streamed answer. `ReadPiece`, `OllamaEnds`, `Publish`, `Retry` and
`GiveUp` are the reader thread; `Started` to `BodyClosed` Granite's generator; `WritePrefix`
to `CloseApi` the API's; `Reads`, `ReadsEnd` and `Cancels` the browser. A piece is blank or
not, which is what the end conditions tell apart. Heartbeats are explicit, since only a
write discovers a departed client.

**Telemetry** – `RecordReceived`/`CountReceived` and `RecordTerminal`/`CountTerminal` are
the two writes of each method, `due` the second one still owed; `RefreshStart`,
`RefreshRead`, `RefreshWrite` are a projection; `Purge` is the retention job. Every call
ends "done", "lost" (raised without effect) or "unknown" (raised with effect).

**Responses** – extends Telemetry: each action of the handler is a call of the telemetry,
the chat or the context store, or of Granite. `Settings` are the values that
REQUIRE_REQUEST_LOGGING may have where a request is served.

**RateLimiter** – `consume` step by step: `Start` reads the clock, `Look`, `Lock` and
`Delete` are the cleanup, `Insert`, `Update` and `Find` the calls of the counter. `Expire`
is the TTL index. History variables `counted` and `cleanedAt` say what really took effect.

**CoursePolicy** – the pure part: which edits are allowed on a course and what becomes of
it, how many events they stage, and which keys the policy lets in.
**CourseWrites** – each request as a process: `Read`, `Save` (compare-and-set), `Revoke`,
`Record`, the deletion, `Crash` between any two steps; and the flush: `FlushRead`, `Copy`,
`Clear`, `FlushFails`. **AuditLog** is the promise of the audit; `ImplementsAuditLog` maps
onto it.

**CourseKeys** – extends CourseWrites with the key documents: `KeyRead`, `KeyFind`,
`StoreNewKey`, `SwitchKey`, `DeleteKey`, `DeleteAllKeys`, `KeyRecord`, and for a group's new key
the second look at the course, `KeyRecheck`, which is a call of its own before `KeyDeliver`;
and the two passes of a revocation, `RevokeFind` and `RevokeReplace`. `Found` is the lookup by
slot or by name, `MayAsk` what a requester may do who is an administrator, of the staff or
neither. Three histories say what the code does not keep: `revoked`, the hashes that are to
stay dead; `owed`, the hashes that a stored removal has to make dead, read off the course
before and after it; and `agreed`, the requests whose stored key the course has allowed.

**Accounts** – every request is a thread that makes one call of the store per step. `Start`
lets it in or turns it away; a sign-in goes over `FindListed`, `Find` and `Insert` or `Sync`
to its default key (`FindKey`, `StoreKey`); a change of accounts finds its targets (`Resolve`),
writes each in both collections, by id and by address (`WriteTarget`), and then in the keys
it finds (`Link`, `Scan`, `FollowKey`); the whitelist's own routes are `List`, `PatchListed` and
`DropListed`, which carry the change over to the account (`LinkListed`, `ChangeLinked`) and its
keys. `Crash` ends a request between any two of them.
`OwnerId` is the identifier that the code derives from a document, which differs between an
account and the entry that stands for one.

**Prompts** – operators, no state: `ValidInput`, `ValidParameters` and `ValidImages` are what
the API accepts, `RecentMessages` what it makes of stored messages, `BoundedHistory` how it
cuts them, `Payload` what it sends; `Serves` is what Granite accepts of that and
`OllamaMessages` what it makes of it. A text is its length and an image its bytes and pixels.
**Conversations** – the turns that use them: `Receive`, `Read`, `SaveUser`, the model,
`SaveReply`, `SaveContext`, their withdrawals when the turn cannot be recorded, and `Restart`,
after which other limits hold. `thread` is the history of what led to each context.

`MC...` modules give names to the values of the instances and, for two of them, the VIEW
that forgets the locals that nobody reads any more. `...Proofs` modules hold the theorems.

## Runs

| run | what it shows | bounds, and why they are enough |
|---|---|---|
| `queue` | `SlotInvariant`, `DeadlineInvariant`, `BytesAccounted`, `NoLostWakeup`, `ImplementsAdmissionLine` | four requests, one slot, a line of two, sizes 1 and 2 against 3 bytes: every verdict of `request_slot` occurs, both limits bind, two arrival times give different deadlines, waits poll or block |
| `generate` | `OllamaWithinCapacity`, `NothingLeaks`, `EveryRequestEnds` | two streams and a plain request for one slot, with two times of arrival; a wait lasts two heartbeats, so admission, polling and time-out of both kinds occur |
| `stream` | `NeverMalformed`, `TextIsTrue`, `FinishedIsFinished`, `AllStagesEnd` | up to three pieces, two lines and two frames on their way: every stage can be ahead of, level with and behind its neighbour |
| `telemetry` | `CountersAgree`, `OpenAreActive`, `OutcomeIsFinal` | two requests and two projections; the proofs cover any number |
| `responses` | `AnswersAreKept`, `NothingUnaudited`, `RefusedLeavesNoAnswer`, `RecordTellsOutcome`, `NoCallUnlogged`, `RequestsEnd` | one request with every failure of every call, with and without required logging; requests share only the counters, and the proofs cover any number of them |
| `limiter` | `WithinLimit`, `RefusedOnlyWhenFull`, `CounterOutlivesCall` | three calls of two workers under two limits over four windows of two ticks |
| `courses` | `GroupsSound`, `OutboxBounded`, `EditsAreAtomic`, `ImplementsAuditLog`, `EventsAreDelivered` | every pair of edits of every kind with crashes, on a course with one seat left, and a reader of the log; an outbox of two fills |
| `keys` | `OneKeyPerSlot`, `RevokedForever`, `RemovalRevokes`, `GivenOnFreshPolicy` | three at a time of two edits, two requests for keys and the reader of the log, in all orders, each of which may die; two groups, of which one is not there, two students, one of the staff, two slots. So two removals of one student race with each other and with a new key, and two new keys with an edit of the group or the staff. Nobody switches a key on: `keys_resurrect` does |
| `conversations` | `GraniteUnderstands`, `HistoryIsLongestEnd`, `PastIsTrue` | three turns, two at once, of ten kinds, half of which are refused; the limits on characters, images, bytes and pixels each bind in some history, and two restarts switch images off and on again and leave less room |
| `accounts` | `KeysFollowAccounts`, `ListAndAccountAgree`, `AdminRemains`, `CourseKeysStayOff` | three requests of twelve kinds, two at once, each of which may die, about two administrators and two guests: one with an account, a default key and a key of a course, one with an inactive entry and no account yet |

The type invariants and the inductive invariants of the queue, the endpoint, the stream, the limiter,
the telemetry, the handler, the courses, the keys and the accounts are proved (below) and have
no run of their own.

`limiter` has the workers' cleanup and the TTL index on at once: a deployment over Mongita
has one and a deployment over MongoDB the other, and both are covered by their union.
A configuration says CHECK_DEADLOCK FALSE where a behaviour ends when every request is
over and the clock stands at its bound. In `keys` a behaviour ends when all requests have
answered; where three of them are busy, the reader of the log rests (`ThreeSpec`), since four
at once are too many states. `keys` uses the symmetry of its edits and of its key requests,
`telemetry` that of its requests and projections, `conversations` and `accounts` that of
their requests; none of them checks liveness. The properties of `accounts` are not promised
for an address that two requests worked on at once, one of them an administrator's change
(`crossed`), or where such a change died (`cut`): the code has no means against either, and
`accounts_stale` shows what the first then does.

### Fairness

* `generate`: each thread takes its next step (Ollama calls are bounded by a read
  time-out, a write to a client ends or fails by the server's time-outs) and time passes.
  Weak fairness is enough; it is written with `Ready`, which says when a thread can go on
  and is what ENABLED says of `Thread` in every reachable state. That no thread sleeps
  through its turn is the safety property `NoLostWakeup` of the queue.
* `stream`: reader, Granite, API and browser go on; Ollama answers or its read times out.
  Granite's generator needs strong fairness because heartbeats, which are not fair, may
  keep filling the connection. No connection has to fail, no user has to leave.
* `responses`: the handler goes on and Granite's stream ends. The stores may always fail.
* `courses`: an auditor goes on (weak fairness), and what it tries again and again succeeds
  at some time (strong fairness of the reads of the outbox, and of the copy of each event),
  since other requests and failures may interrupt it any number of times. Nothing is assumed
  of the requests, which may die at any step.

### What disagrees with the documents

Two runs check one claim each, and the code does not keep it.

* `keys_resurrect` – `courses.py:124` says that `_revoke_course_owner_keys` revokes
  "irreversibly"; a switch of the key that was read before the revocation
  (`course_actions.py:892`) writes the old document back, hash and all.
* `accounts_stale` – the administrators' guide (`user-management.md:41-43`) says that
  deactivation "suspends API keys owned by that account"; a sign-in or a session that read
  the account before (`auth.py:75-79`, `105-113`) stores the default key switched on after
  the change has shut it (`users.py:27`).

Others were met while reading and have no run:

* The roster guide says that all of a group's shared keys are revoked when a student is
  removed (`course-roster-workflow.md:110-111`, `137-138`); the route saves the course first
  (`courses.py:883`), and if it dies before the revocation, removing the student again finds no
  membership, revokes nothing and is answered with success, with the keys alive. Taking
  the student off the roster again (`courses.py:451-537`) revokes only his own keys. The model
  has the crash and `keys` the second removal; `RemovalRevokes` promises nothing for a removal
  that did not answer, nor for one that takes nobody out. What it does promise, it promises
  for two that race.
* `CoursesView.svelte:2469` says that Max Student Keys "Caps the key allowance for each
  student and group in this course."; `add_course_members` (`course_actions.py:402`) gives
  each new member one key, also when the cap is zero.
* The streaming contract says "Delivery is marked completed only after the terminal frame
  has actually been yielded."; the flag is set before that yield (`api.py:3845`), and a
  client who leaves at it is recorded as served.
* The administrators' guide says that reactivating an account "does not automatically
  reactivate those keys" (`user-management.md:43-45`); the default key is switched on again
  (`users.py:34-42`), if it was the deactivation that shut it. `KeysFollowAccounts` therefore
  speaks of inactive accounts only.
* It says that administrators "cannot deactivate or demote their own account"; the routes
  of the whitelist (`auth.py:380-458`) have no such check. `AdminRemains` holds in
  its instance because the administrators who ask there are of the university and have no
  entry; an administrator who is a guest could take his own access away.
* The default key that is made for a whitelist entry before its first sign-in belongs to the
  entry's id. Where the sign-in then makes an account with an id of its own, no route finds
  that key afterwards. Where the settings make the account, it takes the entry's id, and if
  the entry was inactive when the key was made, the key stays shut: activating the entry
  (`auth.py:421-427`) touches no key, since there is no account yet to link.
* After the limits of a single image are lowered by a restart, stored images above them are
  still put into the history and then refused by Granite at every turn. `MCConfigs` lowers
  only the limits on a whole turn.
* Two turns of one conversation: the second may read a reply marked sent before the first
  one's terminal record fails (`api.py:3660`), and keeps in its prompt what is withdrawn.
  `PastIsTrue` therefore compares with what is stored, whatever its status.

## Proofs

| module | theorems |
|---|---|
| `GraniteProofs` | of the queue `QueueCorrect`, and from it `QueueTypeCorrect`, `SlotsNeverLeak`, `LineOrderedAndServed`, `DeadlinesAreHonoured`, `BytesAlwaysAccounted`; `WakeupsAreNotLost`, `BlockingWaitsDecide`; `QueueImplementsLine`; of the endpoint `GenerateCorrect`, `OllamaNeverOverloaded`, `SlotsComeBack` |
| `RateLimiterProofs` | `LimiterCorrect`, `LimiterTypeCorrect`, `LimitIsKept`, `RefusalsAreJust`, `CountersOutliveCalls`, `SweepsAreSpaced` |
| `ResponsesProofs` | `TelemetryCorrect`, `TelemetryTypeCorrect`, `CountersAlwaysAgree`, `ActiveCoversOpen`, `OutcomesAreFinal`, `RefreshesGoForward`; `ResponsesImplementTelemetry`, `ResponsesKeepCounters`, `ResponsesKeepOutcomes`; `AnswersAlwaysKept`, `NothingLeftUnaudited`, `RefusedFindNothing`, `RecordsTellOutcomes`, `EveryCallIsLogged` |
| `ChatStreamProofs` | `StreamIsSound`, and from it `StreamNeverMalformed`, `StreamTextIsTrue`, `StreamFinishedIsFinished` |
| `CourseWritesProofs` | `GroupsStaySound`, `OutboxStaysBounded`, `SavesAreAtomic`; `OutboxImplementsLog` |
| `CourseKeysProofs` | `KeysCorrect`, `SlotsStayDistinct`, `KeysGivenOnFreshPolicy`, `KeysKeepLog`; `RevokedStaysDead`, `RemovalsRevoke` |
| `AccountsProofs` | `RecordsStaySound`, `CourseKeysUntouched`; `AdministratorsRemain`, `ListsStayTrue`, `KeysStayTrue` |
| `ConversationsProofs` | `ConversationsCorrect`, and from it `HistoryStaysLongest`, `PastStaysTrue`, `GraniteAlwaysUnderstands` |

They hold for every number of requests, workers, slots, projections, students, groups, keys
and accounts, of pieces, lines and frames, messages, texts and images, every size, limit and time-out that the ASSUMEs
admit: finite sets of requests and students, at least one slot, windows and intervals of at
least one tick. Some assumptions are about more than the shape of a constant:

* `PatienceAssumption`: a call of the limiter lasts no longer than counters are kept after
  their window, five minutes. The code bounds the driver's search for a server to two
  seconds and the call itself not at all, so this is a statement about the deployment.
  Without it `CountersOutliveCalls` is false. The limiter's model also reads one clock
  that does not go back.
* `EditsAssumption`: a request to edit a course has the fields that its route has checked
  (`IsEdit`, after `validation.py` and the routes).
* `FirstCourseAssumption`: a course is sound when it is found. The checks of `create_course`
  (`validation.py:122-175`) bound the size of an administrator's groups, and neither test
  their members against the roster nor their limits against the cap; the claim is that no
  edit makes a sound course unsound.
* `FirstOutboxAssumption`: it is found with an empty outbox, so that every event there is
  of an edit that the model has seen stored. Only `OutboxImplementsLog` and `KeysKeepLog`
  use it.
* `GroupIdsAssumption`, `HashesAssumption`, `FirstKeysAssumption`, and of the accounts
  `RequestsAssumption` and `FirstRecordsAssumption`: what is drawn at random (`uuid4`, the
  ids of the store, the keys) is never drawn twice, and the unique index on owner and slot
  held before, too. An id is no address. `FirstRecordsAssumption`
  adds that ids tell whose a record is and that the whitelist has no address of the
  university.
* `AsksAssumption` of the accounts: a request has what its route has checked; in particular the whitelist
  refuses addresses of the university (`auth.py:338`), and what a change makes of `is_active`
  is a boolean (`users.py:118`, `users.py:200`, `auth.py:413`).
* `AsksAssumption` of the conversations: a body that was parsed has messages of texts and
  images, and the browser sends one, whose text, if it has one, comes before its images
  (`rocky-interface/src/routes/api/chat/+server.ts:56-82`).
* `ConfigsAssumption`: the limits that the API starts with: an answer has at least one token,
  and one to images may have as many as another (`api.py:221-243`).

Six theorems have a premise, on how a behaviour begins or on the limits that restarts
bring, because without it they are false:

* `SwitchesOff`, of `RevokedStaysDead` and `RemovalsRevoke`: nobody asks to switch a key on.
  `keys_resurrect` is the counterexample without it.
* `SomeAdmin` and `AskersOfUniversity`, of `AdministratorsRemain`: there is an active
  administrator of the university, and those who ask for changes are of the university
  (a guest could take his own access away, above).
* `ListsAgree`, of `ListsStayTrue` and `KeysStayTrue`: a guest with one account has one entry
  at most, and the two say the same.
* `KeysAgree`, of `KeysStayTrue`: the keys of inactive accounts are off, and where
  a key names its owner by an address (the older form, `users.py:10-25`) there is an account
  of that address.
* `ImageLimitsGrow`, of `GraniteAlwaysUnderstands`: no restart brings a smaller limit for one
  image, on its bytes or its pixels. The history is checked against what a whole turn may
  have and not image by image, so a stored image that has become too large goes to Granite,
  which refuses the turn (above; TLC finds it after one restart if the limits of `MCConfigs`
  are lowered so). Everything else may change at a restart: whether images are read at all,
  and the limits on characters, on the images of a turn and on the answer.

`MCAccounts`, `MCConversations` and the values of `keys` satisfy all of them.

*The queue.* `SlotInvariant` is not inductive: a release may admit from the line, so one
must know that the line holds exactly the waiting tickets, each once (`LineIsWaiting`).
`DeadlineInvariant` is not either: `_advance_locked` looks only at heads, so deadlines must
not decrease along the line (`DeadlinesInOrder`), which a newcomer keeps because nobody in
line arrived later than now (`ArrivalsPast`). `QueueInvariant` collects these. Because the
clock may move between two readings under one lock, the operations are handled as
functions: `AdvanceConsistent`, `EnterConsistent`, `RemoveConsistent` and
`GiveBackConsistent` say that each preserves consistency at any later time, on top of
lemmas that characterise how many heads expire and are admitted. `BytesAccounted` is a sum
over the line, and instead of an induction over sequences the sum is the number of the
elements of a set (`Units`, one element per byte of each ticket in line), whose cardinality
the library's theorems follow through every removal and admission. `FoldIs` says that the
fold of the model is that number; it looks at a smallest set for which it were not.
`NoLostWakeup` needs that
each of them notifies whenever it decides for somebody who may sleep (`WakeInvariant`).
That the queue implements AdmissionLine is proved over the same functions: `MovesOn` relates
a line and its holders to later ones, nobody overtaken, and composes (`MovesFurther`), so an
operation that expires, admits, enters, removes and admits again is one move of the line
(`LineMovesUp`).

*The endpoint.* The queue's invariant is kept because every step is a step of the queue, by
a ticket in the right state, or leaves it alone. Which ticket, body, connection and flag
goes with which place of a handler is stated place by place (`BodyFits`, `FlagsFit`,
`TicketFits`); an open connection then belongs to a holder of a slot, and a thread that is
over holds nothing. `InferencesCounted` says that the clamp at zero in `end_inference`
hides no second end.

*The stream.* What the browser shows depends on what it has read, that on the frames under
way, those on what the API has read, and so on back to Ollama, with heartbeats between the
lines and comments between the frames. `StreamInvariant` therefore numbers what is under way:
there is a function that gives each line its position among the pieces of text and each
frame its position among the events, and skips what carries neither (`Numbers`). A line has
the piece of its position (`LinesNumbered`), a frame is what belongs to its position in the
protocol (`FrameFits`), the thread and its queue hold the pieces after the last line
(`ThreadSound`), and the decoder's counters follow from the position it expects
(`DecoderSound`). `Sealed` is what the API knows once it has decided that an answer is
finished: its lines have ended, with a last one that allows it, and its text is all of
Ollama's. The sequences lose a head, gain an end or are cut off; what becomes of a numbering
then is said once (`NumbersOfTail`, `NumbersOfAppend`, `NumbersOfBeginning`), so that no
induction over a sequence is needed.

*The limiter.* `WithinLimit` follows from the counter being the number of requests counted
in its window, which holds only while the counter exists: `CountersAgree` says that a
missing counter has counted nothing or has expired, `RecentCalls` that no call in flight
is old enough to use an expired one. Requests with different limits may share a bucket,
after a limit is changed: so the invariant speaks of those with limits of at most n.

*The telemetry.* `CountersAgree` survives a projection because of `ReadsAgree` (what a
projection has read is still right if the revision is unchanged); `OpenAreActive` needs
`CountedInOrder`, the life cycle of a request's record and of what its calls still owe.

*The responses handler* is shown to implement Telemetry step by step, so the telemetry's
theorems hold for the real caller with all its failures and compensations. What it promises
of its own rests on `RequestInvariant`, an invariant of one request at a time: `Logged`
(before the model), `Storing` (what is stored at each place on the way to the terminal
record), `Answered` (what a handler that means to answer has done), `Consistent` (what it
still knows of the two stores while they answer) and `Truthful` (the record, while nothing
raises). Each action of a request preserves it; steps of other requests and projections
leave its state alone, and a purge only removes the record.

*The courses.* `SavesAreAtomic` is that comparing only the guarded fields and those that
change is enough: on two courses that agree there, an edit is allowed alike and makes the
same of both (`EditedAlike`, `AllowedAlike`). With it, each kind of edit has to keep a
sound course sound (`EditKeepsSound`), whatever copy it was decided on.

*The outbox.* What a step may do to the log and to the outbox is one of five things
(`Rests`, `Stages`, `Clears`, `Delivers`, `Notes`). `OutboxInvariant` says why no flush
does another: the events that are copied are the first of the outbox (`EventsInOrder`), a
request that may still save has none there (`EventsFresh`), and what a flush has in hand
is in the log or still stands where the outbox begins (`BatchesFit`), although others have
appended to it, cleared it or deleted the course since it was read.

*The keys.* Documents are written back whole, so the invariant speaks of all that are stored
or in somebody's hands (`Docs`): a hash belongs to one key (`HashesDiffer`), and who has not
stored his key yet has an id and a hash that nobody knows (`NewKeysFresh`). What a step can
do to the keys is one of a few things (`KeyEffect`): add a key with a fresh hash in a free
slot, write back a version of a known one, or remove some. As long as no switch writes back a
key that is on, a dead hash stays dead (`DeadStays`). For a removal, `Progress` says of each
hash that is `owed` how far it is: it is dead, or `Marked`, that is, whichever key has it now
is still to be looked for or among the documents in hand. Two things make this inductive. What a
course loses by an edit is within what its request will revoke, although that was read off an
older copy (`LosersRevoked`): the compare-and-set has compared the groups, or the whole roster.
And a key keeps its owner while its document is replaced, inserted or switched by others
(`OwnerStays`), so that looking for an owner's keys finds every marked one (`FindMarks`).
Nothing is assumed of other removals, whose own revocations only make more hashes dead.
`AgreedInvariant` is that a group's key that is past the second look is among the `agreed`
ones, whatever edits come between the look and the hand-out.

*The accounts.* Requests hold copies of records that others change, so `RecordsInvariant`
speaks of all records that are stored or were read (`Known`): equal ids are of one person
(`IdsTell`), who may still insert has an id that nobody knows (`NewRecordsFresh`), and what a
request holds is of those whom it concerns (`Fits`). `AdministratorsRemain` rests on
`AskersHaveAccess`: whoever changes accounts is himself an active administrator until he is
through, unless another change concerns him (`Apart`); so whoever loses his access
leaves at least the one behind who took it (`AccessTaken`). `CourseKeysUntouched` follows the
copies of the keys (`KeyDocs`), whose scope never changes.

*The whitelist.* No call writes an account and its entry, so they disagree on the way.
`AgreementInvariant` says how: while a change is between its writes (`Between`), the two will
agree once both are changed as it says (`Half`), and its next writes are just those; a change
made twice is made once (`ChangedTwice`), which is why writing by id and again by address does
no harm. A sign-in copies the entry that it has read, which is still the one there is
(`Informed`), because no change of this person is under way (`ApartAt`). An address whose
accounts are doubled is given up for good: no step loses an account (`UsersLast`).

*The keys of the accounts.* `KeysFollowAccounts` says nothing of the time between the change
of an account and the last of its keys, which is most of what can happen. `FollowInvariant`
fills it in: either the keys of a person follow, or one request is about to see to it
(`Following`), and what that one knows is true (`KeyInformed`): before its scan, that it still
has it to do; after it, that every key of an account that is to be inactive is off or still
in the scan (`Done`). A sign-in makes the default key from the account that it has read, so what it has
read must still be as active as the account is (`ReadTrue`): no change comes in between
(`ApartAt`), and by `AgreementInvariant` its own copying of the whitelist changes nothing, and
an entry that stands for the account is as active. An account
that is new must have no key yet: nobody owns a key who is not there (`OwnersKnown`), and
the settings make one of an entry only if the entry is active (`StartFollows`). Keys go
by the ids and the address of their owner, so that a step of one person leaves another's
alone only because ids of two people have nothing in common (`IdsApart`, `OthersKeys`).

*The conversations.* What `BoundedHistory` is, a fold over any number of messages, takes an
induction over data, which the library states for operators and the provers cannot use. It is
therefore stated for a set: a set that has 0, and with any number the next one, has all of
them, as does one of sequences that has the empty one and each that is one longer
(`SetInduction`, `SeqInduction`, from the well-foundedness of <). Each claim about a fold, a
concatenation or a selection is first made a set of sequences, and then this lemma is cited. So
the sums of the model add up over a concatenation, and `FoldRight(Keep, ...)` keeps the end
of length k, where k is the greatest for which the four sums are within what the new
messages leave (`Longest`); a fold that has once refused a message keeps no older one. The
invariant `Inv` carries from `Read` to the call what the payload was built from (`Built`), and
the types of all that is stored, which every turn reads again.
`PastIsTrue` needs two more, each inductive on top of `Inv`. `ContextsTrue`: a context is there
only once its turn is `Settled`, and then neither the turn nor its thread changes any more; so
what a continuation reads, and keeps an end of, is still compared with the thread it came from
(`FedBy`). Taking the images out goes through concatenations and is done once when done twice,
whatever the limits were at each link (`WithoutImagesConcat`, `WithoutImagesTwice`).
`ChatsTrue`: a user's message that is stored is that of its turn, whose ask never changes
(`DocTrue`), and each message that a turn keeps is one that the chat shows (`KeptTrue`), since
nothing is ever removed from a chat and a status is not shown (`Shows`).
`GraniteUnderstands` compares two programs that check the same things with different code,
and only Granite's checks see the history. Its invariant is `AllServable`: whatever is stored
or on its way is `Servable` under the limits in force, that is, spoken, or a user's with
images each within them; `ValidInput` makes the new messages so (`CurrentIsServable`), and so
does a saved answer (`AddedServable`). What has been kept fits with the new messages, so
their sums are within the limits of Granite (`WholeFits`), and the limit on the answer is
chosen from the same images (`TokensAreServed`). That Ollama gets the blocks in their
order is a matter of the fold that makes fragments: each step adds its block behind what the
fragments already tell (`AddedToFragments`, `AllFragmentsTell`).

### Only model-checked

Liveness under fairness and everything that involves ENABLED is out of the prover's reach
and is checked by TLC only: `EveryRequestEnds`, `AllStagesEnd`, `RequestsEnd`,
`EventsAreDelivered`. Every invariant and every other action property of a passing run has
a theorem.

## Abstractions

* Text, images, prompts, names and ids are model values, sizes or left out; a text is
  blank or not where the code asks. Messages and log lines are left out, and so are
  Retry-After, the cooldown of key generation and the derived analytics of a projection.
* A call of a store is one step. The two `find_one` of the key lookup, which go by slot and
  then by name, are one read, and in Accounts so are the insert of an account and the update
  that gives it its id (`auth.py:225-226`, `266-267`, `364-365`, `users.py:67-68`): a crash
  between the two, which leaves a record without an id, is not in the model.
* A group's key is looked at again before it is handed out (`courses.py:1385-1394`) and a
  person's is not; `GivenOnFreshPolicy` speaks of groups.
* Granite's bound on the bytes of a request's body (`granite/main.py:77-85`), which its own
  configuration keeps above what the images of a turn may have, is outside
  `GraniteUnderstands`.
* In Responses a request validates its body in one step that may reject it; what is accepted
  is the matter of Prompts. In Conversations the stores answer and the outcome may fail to
  be recorded; how stores fail is the matter of Responses.
* A call of a store that raises has or has not taken effect; the model tries both.
* An absent outbox and an empty one are the same.
* Polls, window widths and time-outs are small numbers of ticks. Horizon bounds the clock
  and MaxPieces the text, AtOnce the requests under way in `accounts` and `conversations`;
  these and the numbers of requests are the only bounds that the code does not have.

## Not modelled

* `create_course` and its validation: an insert, whose only hazard, two courses with one id
  (`courses.py:165`), is listed; the filters of the audit listing and of the history of keys.
* Analytics, review and inspector: aggregation and formatting over records, data rather
  than control.
* The hardware sampler: it polls and inserts, and nothing depends on what it keeps.
* The list of conversations and the export, which read and lay out.
* The interface beyond the decoder of the stream, and the scripts that start and diagnose
  the services; what they say about processes and threads is used as the concurrency.

`PROJECT.json` names the files of each. What would come next is a bound on how long a
withdrawn reply can stay in another turn's prompt.
