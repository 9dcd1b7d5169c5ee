# A verification of maestro-llms

TLA+ modules, TLC configurations and TLAPS proofs kept beside the code. The
modules are translated from the Go source; paths below are under `src/`.

## 1. The system

maestro-llms is a library: there is no server of its own. An application wraps a
provider client in middleware, shares it between goroutines, and may share a
rate limit with other processes through PostgreSQL.

| Part | Source | State it keeps | Operations |
|---|---|---|---|
| Error model | `llms/error.go`, `llms/providers/internal/apierr` | none | `Retryable`, `ClassifyOverflow` |
| Circuit breaker | `llms/middleware/circuit.go` | state, two counters, the single-flight gate, `openedAt` | `allow`, `record`, `trip` |
| Retry, timeout, reservation, chain | `llms/middleware/{retry,timeout,ratelimit,recommended,chain}.go` | one loop per call | `Complete` through the chain |
| In-memory limiter | `llms/ratelimit/memory.go` | balance, carry, `lastRefill`, active slots | `Reserve`, `Commit`, `Release`, `Stats` |
| Distributed bucket | `bucket/postgres`, `bucket/internal/core` | a bucket row and lease rows in the database; per lease a renewal goroutine | `Ensure`, `Acquire`, `Adjust`, `Release`, renewal |
| In-memory bucket, adapter | `bucket/memory`, `llms/ratelimit/bucket.go` | balance and live count per key | `Acquire`, `Adjust`, `Release` |
| Tool loop | `llms/toolloop` | a transcript, counters | `Run` |
| Validation, compaction | `llms/middleware/validation.go`, `llms/toolloop/compact` | none | `ValidateMessages`, `KeepLast`, `Summarize` |
| Provider adapters | `llms/providers/*` | none: what a provider needs back travels in the transcript | conversion of requests and responses to and from each wire format, `AppliedReasoning`, usage |
| Extra parameters | `llms/providers/internal/extraparams` | none | `Merge`, `Overrides` |
| Metrics, estimator, models, test clients, example | `llms/middleware/{metrics,estimator}.go`, `llms/testllm`, `examples` | none that matters here | |

How they interact. `RecommendedChat` nests validation, metrics, retry, timeout,
breaker, rate limit and provider, outermost first, so each attempt of the retry
loop gets a fresh timeout, asks the breaker, reserves capacity inside the
timeout, and records its result with the breaker after the reservation was
released. The breaker and the limiter are shared by every goroutine that uses
the wrapped client; neither holds its mutex while the inner call runs. The
limiter may be the process's own or, through `FromBucket`, a bucket in a
database, where only the row lock of the bucket and single-statement updates of
lease rows order the processes.

What is hard to test. Results that come back in another order than the calls
left, in a state other than the one they were admitted in; a context that ends
between a check and the action it guards; polling waits with a budget; time
counted twice or not at all between two timestamps; a renewal that slips between
a transaction's sample of the clock and its commit; a commit whose answer is
lost; a crashed holder; limits that change under live leases; a transcript that
holds the answers, ids and sealed reasoning of several providers and is sent to
yet another one. `PROJECT.json` lists each at its line with the properties that
would catch it.

## 2. Modules

| Module | What it is |
|---|---|
| `Errors` | error values and the functions that judge them |
| `Circuit` | the breaker and any number of callers |
| `CircuitHistory` | the same with two history variables: recent signals, straggling records |
| `Chain` | extends `Circuit`: retry, timeout, reservation and provider around it |
| `Admission` | what a limiter promises, abstractly |
| `Limiter` | the in-memory limiter |
| `LimiterLedger` | `Limiter` with the time and the net charge, shown to implement `Admission` |
| `PgBucket` | the distributed bucket and any number of processes |
| `PgLedger` | `PgBucket` with the time and the net charge, shown to implement `Admission` |
| `Transcript` | messages, `ValidateMessages`, `WithoutReasoning`, and what a provider requires of a transcript |
| `Compact` | the cut rule of `compact` |
| `ToolLoop` | one `Run` over any provider, executors and compaction hook |
| `ExtraParams` | JSON objects and their merge, by the paths of their leaves |
| `Content` | messages by their parts, requests, and what the five adapters share |
| `Anthropic`, `OpenAI`, `OpenAICompat`, `Gemini`, `Ollama` | one adapter each: request to wire form, reply to message, controls, usage |
| `Conversation` | one transcript sent through any of the adapters in turn |
| `ChainProofs`, `LimiterProofs`, `PgLedgerProofs`, `CompactProofs`, `ToolLoopProofs`, `ConversationProofs`, `WireProofs`, `AnthropicProofs` | theorems and proofs |
| `MC*` | instances for TLC |

### Errors
Error values are records that keep what the code tells apart: the kind of a
`ProviderError`, `Permanent` and `Cause` of a `LimitError`, bare context errors,
the breaker's own error, and the failure of a limiter's backend, which
`FromBucket` wraps without classifying it and which may hold the deadline of the
backend's own transaction. `Retryable` follows `llms.Retryable`; `Classify`
follows `ClassifyOverflow`, which turns an expired attempt into a retryable
timeout and leaves a cancellation as it is.

### Circuit
One action per branch of `allow()` (`AdmitClosed`, `AdmitFirstProbe`,
`AdmitNextProbe`, `Reject`) and of `record()`. Between a caller's `Admit` and
its `Return` any other step may come, so a call admitted while closed may return
when the breaker is open or half open: a *straggler*. `openedAt` appears as the
time that remains of `OpenTimeout`. `Panic` models that `guarded` does not defer
`record`.

### Chain
`Chain` extends `Circuit` and adds one program counter per `Complete`:
`attempting` (the loop asks the breaker under a fresh timeout), `reserving`,
`calling`, `backoff`, `returned`. The limiter is any that holds at most `Slots`
reservations and gives up no later than the end of its context; before that it
may give up with any of `Rejections`: `MaxWait` is over, the request can never
be admitted, or the backend failed. When the context has ended both limiters
answer with a `LimitError` that holds the context's error, whatever their
backend said of it (`InMemoryLimiter.ctxDone`, `core.Wait`); only a deadline of
the backend's own comes out as it is. The provider answers, fails, hangs or
panics. Both contexts, the caller's and the attempt's, end at any time, and a
timer and a context that are ready together may be taken in either order, as in
a Go `select`.

### Limiter and Admission
`Reserve` is split where another goroutine can act: the check of the context,
the critical section (refill and try), the sleep. Times are differences (`now -
lastRefill`, the time waited, what a timer has left), so the clock needs no
bound. The fractional carry, a `float64` in the code, is counted exactly in
`1/RateDen` of a token; saturating sums are taken as exact because no balance in
reach comes near the integer range. `LimiterLedger` adds the time and the net
charge and maps the limiter to `Admission`: an admission takes no more than the
accrued budget and the free slots, each reservation is settled at most once and
released at most once.

### PgBucket
The row lock is `locker`; a transaction samples the time when the lock is
granted and `txAge` says how long ago that was. Renewal and the release are
single statements and need no lock. `ReplyLost` is the commit whose answer never
arrives, `Abort` every rollback, `Crash` the death of a holder. A lease row has
`left` ticks to live and `capLeft` until `MaxLeaseDuration`; the holder's own
timer `hardLeft` starts after the row was inserted. `Adjust` is one step because
the transaction settles and writes under the row lock; `AdjustFails` sets the
flag and charges nothing, as the code does. Ensure may install other limits at
any time the row is not locked.

### Transcript, Compact and ToolLoop
A message keeps its role, whether it has text, the ids of its calls and results
in order (an id may be empty), whether it carries reasoning and whether that
names its provider, and which user message it is. `ValidateMessages` is the scan
of `pairingState`, written as the calls pending after each prefix of the
transcript; `WellFormed` says the same without a scan (every call answered
exactly once, before anything else is said) and is what the properties use.
`Compact` gives the head, the cut and the in-flight prompt as numbers of
messages, as `split` does. A run starts from a transcript that the validation
middleware lets pass (`RequestsAssumption`; `Run` itself looks at it only after
a compaction), and a provider's answer is an assistant message
(`ResponsesAssumption`).

`ToolLoop` has one step per call that `Run` makes: the hook before a turn, the
provider, the hook after an overflow, each executor. The run's context may end
before any of them, and `classifyStop` reads it when the call has returned. An
error is the set of sentinels `errors.Is` and `errors.As` find in it. The
provider answers with text, an empty text, reasoning alone, or calls, or fails
in every way `classifyStop` tells apart; an application hook may drop any
message, cut the transcript anywhere, return it as it is, or fail. The token
count that `due` compares to `AtTokens` is any number, so the comparison is a
choice made at each response. That reasoning was bound to a history since edited
is recorded by marking it stale whenever a compacted transcript is adopted.

### Content and the adapters
In these modules a message is a role and a sequence of parts: text (empty or
not, marked for the cache or not), a tool call with its id, name and signature,
a tool result with the id of its call and whether it is an error, reasoning with
its provider and its seal. `Content` has what the adapters have in common: which
reasoning belongs to whom, the checks of a tool schema, a tool choice and the
extra parameters, and a request body that is kept as the leaves that carry
reasoning controls. Each adapter module has the functions of its `convert.go`
under their own names; a conversion that fails is `Stops` with the reason.

- `Anthropic`: merging of what the user says and the tools return, the budget
  of four cache markers, thinking that is sent back only with its seal.
- `Gemini`: ids from function names, names found again by id, signatures on
  calls, the 32-bit budget.
- `OpenAI`: one list of items, in which each part is an item of its own.
- `OpenAICompat`: one text beside the calls, tool results as messages of their
  own, the fallback and the clamping of usage.
- `Ollama`: calls numbered within a response, no tool choice but to leave the
  tools out.

What is external: the providers, which reply with any of `Replies` in the form
their API gives it, and read a body in the places the adapters write to
(`Efforts`, `Budgets`); and the application, which appends the answer, returns
tool results in one message or one by one, and speaks again.

### Conversation
`Conversation` composes the five adapters over one transcript. `Ask` converts
the request for a provider, `Answer` appends what the adapter makes of the
reply, `Fail` is every refusal, error and cancellation. `wire` keeps the last
request, so a property can compare what was sent with the transcript and what
is reported with what was sent. `InOrder` is what a caller can see of a request
that is in order.

## 3. Runs

| Run | Instance | Shows |
|---|---|---|
| `circuit` | 4 callers, thresholds 2, open timeout 2 | counters stay below their thresholds, the shut gate always has an owner, one probe at a time unless a straggler crossed, streaks open and close the breaker, the open state ends, a healthy provider gets its traffic back |
| `chain` | 2 callers, 3 attempts, 1 slot, hints, jitter, panics, four ways for the limiter to give up | backoffs stay within the cap and its jitter; retries end as configured; a live caller sees no context error but a limiter's deadline; only provider failures count; every `Complete` returns although provider and limiter may hang |
| `limiter_ledger` | 2 callers, 2 tokens, 2 slots, 2/3 token a tick, 4 ticks, `MaxWait` 3, polls every 2 | budget, slots, wait, refinement of `Admission` |
| `limiter_live` | the same without `MaxWait` | an ended context returns; capacity reaches someone |
| `pg_limits` | 2 callers, limits that switch between one slot and one token with two slots | lost leases are lost, live leases are not stolen, admissions fit the limits of the moment, and the balance its capacity, also when a refund comes after tokens were switched off and on |
| `pg_live` | 2 callers, 1 slot | the loss of a lease is seen without a renewal that gets through; slots come back |
| `pg_ledger` | 2 callers, 2 tokens, 1 slot, 5 ticks | budget, slots, refinement of `Admission` with slots that lapse |
| `tool_loop` | 6 transcripts, 10 hooks, 2 tool turns of 1 or 2 calls | what is sent and what a stop leaves is well formed; an ended context decides the outcome; prompts survive compaction, stale reasoning and summaries do not; what `KeepLast` keeps is usable; every run ends |
| `conversation` | up to 5 messages, 5 adapters, 6 kinds of reply, some 900 settings | what is in order is accepted by every adapter, arrives whole, in order and once, with the tool choice; each provider gets its own reasoning back and no other; Anthropic's turns alternate and its markers are the last that fit; what is reported as applied was sent; usage adds up |

Three runs show the code against one of its own comments and end in a
violation:

| Run | Comment | What the code does |
|---|---|---|
| `pg_failed_acquire` | "any other error is a backend failure, and no lease is held" (`bucket.go:31`) | a commit whose answer is lost leaves a live row behind the failed `Acquire` |
| `tool_loop_gemini` | at the iteration limit the results "are appended, so Messages is well-formed" (`toolloop/types.go:232`) | two calls of one function get one id (`google/convert.go:374`), which `ValidateMessages` refuses |
| `conversation_names` | "Resolve the real name from the matching prior tool call" (`google/convert.go:115`) | the map from ids to names spans the conversation, and ids are unique within a turn only: after two turns of Ollama both results go to Gemini under the later function's name |

Bounds. Four callers are enough for two probes, a straggler that failed and one
that succeeded at the same time; two callers and one or two slots give every
conflict between an admission and a reap, a renewal, a release or a change of
limits, and the theorems lift the safety part to any number. Thresholds and
timeouts of two separate "first" from "last". In `limiter_ledger` the poll
interval does not divide `MaxWait`, so the last sleep is cut short. `MaxGap`
bounds the age of a refill that is still told apart: by then any bucket, in
whatever debt the instance can reach, is full again. `MaxNow` stops the clock of
the two ledgers, whose budget speaks of absolute time; those two may stop, as a
run of the tool loop does, and switch off the deadlock check. In `tool_loop` two
tool turns allow four compactions (before a turn and after an overflow), so a
second one meets the summary of the first; two calls in a turn put a terminal or
failing call before, between and after others; the six transcripts have a prompt
in the head, after it, of two messages, under turns that still answer it, and
answered, and one of them begins with the summary of an earlier run.
In `conversation` every setting (markers, tools and choices, schemas, controls
with an override at each path the adapters write to, above and below it, and
counts) is tried on a conversation of five messages that is sent and answered
once; conversations that begin with one message move freely between the
adapters, long enough for a turn with calls, its results, and an answer of a
second provider before a third reads them all. `MaxInt32` is 4, so that a budget
passes it. A conversation ends, hence no deadlock check.
`MaxIterations` is the limit after the default is applied; a run without a limit
is left out. Symmetry is used only in runs without liveness properties.

Fairness. Time passes. An admitted call of the breaker returns, which the
timeout inside the chain guarantees in `Chain`, where nothing is assumed of the
provider or the limiter but that they return once their context has ended: Go's
contexts and the adapters' use of them give that. Every call the tool loop makes
returns (`Chain` shows it of `Complete`; executors and hooks are the
application's). Nothing is assumed in `Conversation`, whose properties are all
safety. Timers fire, goroutines that can run do, transactions end by
`OpTimeout`. Row locks are granted in the order they were asked for, hence
strong fairness of `Lock`. Nothing is assumed of lease holders: `SlotsComeBack`
rests on expiry alone. `Recovers` and `OpenExpires` assume that callers keep
arriving, since the breaker has no timer of its own.

## 4. Proofs

All theorems hold for every value of the constants that the named assumptions
allow, in particular any number of callers and any thresholds.

- `ChainProofs`, the breaker: type correctness; `CountersBounded` (inductive as
  it stands with the types); `GateHasOwner` under the assumption that inner
  calls do not panic; `SingleFlight`; `StreaksDecide`. `SingleFlight` is not
  inductive: `SingleFlightInv` adds that a lone probe holds the gate of a
  half-open breaker until a straggler crosses. `StreaksDecide` rests on
  `CountsAreStreaks`: each counter counts signals that followed one another in
  its own state.
- `ChainProofs`, the chain: type correctness, with the bound on a jittered
  backoff (`AtMostDoubled`) and the fact that a caller that backs off has an
  attempt left; `BlamesProviderOnly`, `GivesUpInTheEnd`;
  `LiveCallerSeesNoCtxError`, for a limiter that gives up in any of the ways of
  `RetryAssumption`, backend failures included, and under the assumption
  `AdaptersClassify` that a provider's own answers hold no unclassified context
  error. It rests on the invariant `ContextsTied`, that the context of an
  attempt lives inside it and is canceled only with the caller's; `Owned` says
  which errors may end an attempt. One lemma, `AttemptEnds`, takes the four ways
  an attempt ends together.
- `LimiterProofs`: type correctness; `NeverMints`, whose induction needs a lemma
  that a refill conserves the sum of the balance, the carry and the time still
  to be credited or drops it at the capacity; `NeverOversleeps`;
  `SlotsAccounted`, that the counter of active slots is the number of slots the
  callers hold; and `KeepsPromise`, that every behaviour is one of `Admission`.
  A slot is a pair of its reservation and a number, so the slots held are a
  finite set that an admission extends by a disjoint one and a release shrinks
  by one of its parts (`SlotsOfOne`); a step of the limiter is an admission, a
  release or a settlement, or leaves the ledger alone.
- `PgLedgerProofs`, the bucket: type correctness; `LostIsTrue`, with the
  invariant that no row outlives its cap and no cap outlives the holder's timer
  (the timer starts after the insert); `NeverOverfull`, for limits that Ensure
  lowers, raises, switches off and on under charges not yet settled;
  `LiveWithinLimit`, from the stronger fact that all rows, expired ones
  included, fit while the limits stay; and for changing limits the two step
  properties `AdmitsWithinLimit` and `NeverStolen`, from the fact that a row
  comes alive only by an admission and that a live row was alive at every
  earlier sample of the clock too.
- `PgLedgerProofs`, the ledger: `NeverMints`. Settling to a time `txAge` ago and
  stamping the row with that time splits the accrual in two parts that add up
  (`SettlingNeverMints`), so a slow commit credits nothing twice. And
  `KeepsPromise`, the refinement of `Admission` for limits that stay: here the
  slots held are those of the rows that live, so a slot also comes back when its
  row lapses under a holder that still runs.
- `CompactProofs`: two theorems about any transcript of any length.
  `ValidIsWellFormed`: what `ValidateMessages` accepts answers every call once
  before anything else is said. `KeptIsUsable`: what `KeepLast` and `Summarize`
  keep of such a transcript is accepted again, and does not end with the model's
  words unless the transcript did. The scan is unfolded once (`PendingUnfolds`),
  and every induction over it is an induction over a set of numbers
  (`StretchInduction`). The lemmas say what the cut rule does with the places of
  a transcript: scans that agree somewhere keep agreeing on messages alike
  (`ScansAgree`); a cut falls where no call is pending (`CutFalls`,
  `NothingPendingAt`); stretches that begin and end there may be put together
  (`StretchPasses`, `TogetherPasses`); the task is the last message of the head
  of what is kept (`KeptHead`), the summary follows it (`KeptSummary`), and the
  question being answered is held (`KeptHolds`).
- `ToolLoopProofs`: every property of the `tool_loop` run but the liveness one.
  `StepMoves` sums up each action by what it does with the transcript (it waits,
  goes on, ends, compacts, appends an answer, or appends a turn); the inductive
  invariants are proved over those moves.
  `ContextDecides` needs that a running loop has no outcome and that an outcome
  stands with a context that no longer changes; `classifyStop`, through which
  every error passes, has a lemma. `ReasoningUnedited` needs only the types, for
  the built-in hooks drop all reasoning before the loop edits it.
  `AlwaysSendable` needs `SendInv`: the transcript is valid between turns, and
  while calls are executed it is a valid one with an open turn.
  `KeepLastIsUsable` adds `RunInv`, that what is sent never ends with the
  model's words; `SummaryRolls` adds `SummaryInv`, where the summary is;
  `PromptSurvives` adds `PromptInv`, that the task stays where `HeadLen` finds
  it and that the question stays held.
  All of these but the first two assume `UsableIds`, that no answer gives two
  calls one id, or a call the empty id. The code does not ensure it: the run
  `tool_loop_gemini` shows what happens otherwise. `SummaryRolls` also assumes
  `SummariesInPlace`, that a request with the header of a summary has it after
  the head, where `Summarize` puts it.
- `ConversationProofs`: `AppliedIsSent` and `UsageAddsUp`, for all five
  adapters, any replies and any fields of the application. The invariant is that
  the body on the wire is still the one the standing response answers; the lemma
  it needs most is `MergeKeeps`, that a field which `Overrides` says is not
  overridden survives the merge. `AcceptedIsSent`, for transcripts and messages
  of any length: `TranscriptInv` says that the transcript is made of messages
  whatever the adapters append to it (`ReplyIsMessage`) and that a request under
  way was made of the transcript as it is now; `InOrderIsReady` then turns what
  a caller sees into what the adapters ask, message by message (`Fit`), and one
  lemma for each adapter follows its conversion to the end. That of Anthropic's
  needs an induction over the transcript: what is sent or buffered so far begins
  with the user (`Begun`).
  `UsageAddsUp` is about input and output counts that are not negative
  (`SettingsAssumption`) and any integers as details; where an adapter trusts
  its provider the property says so. `SettingsAssumption` also gives the budgets
  their type; with `RepliesAssumption` and `QuestionsAssumption` it says that
  what the application starts with and asks are messages, that tools have names
  (a tool choice by an empty name is refused), and that the only reasoning the
  application adds is Anthropic's (no other adapter emits any, and none would
  send back its own).
  The module begins with what picking, flattening and mapping give, which the
  two below use as well. These operators are functions over prefixes;
  `Recursion` says that there is one and `OnlyOne` that there is no other, so
  that `PicksAre` and `FlattenedAre` can say which elements come out, and
  `FlattenJoined`, `FlattenGrows` and `FlattenFrom` in what order: a flattened
  sequence grows by one element at a time.
- `WireProofs`: `ReasoningStaysHome` and `NothingLost`, for transcripts and
  messages of any length. Both compare what is seen of two transcripts when each
  part is looked at alone: `Told` is that sequence, and a `View` is what one
  looks for (the secrets, what a provider issued, the atoms, or the atoms of one
  kind). `Told` is a homomorphism (`ToldJoined`, `SaidJoined`), does not see
  what looks empty (`ToldPicked`, `SaidPicked`), and is the same when parts are
  spread over messages of one side (`SpreadTells`). For each adapter one lemma
  (`AnthropicIsTold`, `OpenAIIsTold`, `CompatIsTold`, `GoogleIsTold`,
  `OllamaIsTold`) then follows its conversion: what is on the wire tells what
  the transcript without the others' reasoning tells.
  `ReasoningStaysHome` is about the past as well, so it needs an invariant of
  its own: `HistoryInv`, that the transcript holds what each provider issued and
  no more. A response keeps what its blocks hold (`ReplyKeeps`), and gives
  nothing to any other provider (`OthersGiveNothing`). `UnissuedAssumption` says
  that what the application starts with and asks holds no reasoning and no
  signatures: they come from a provider, and `answers` remembers those of the
  conversation from its beginning.
  A result is told to Anthropic and Google with the mark of an error and to the
  others without (`HearsErrors`, `UnmarkedSays`).
  `NothingLost` needs that a request under way was made of the transcript as it
  is (`TranscriptInv`), and for its second half, the tool choice, what the five
  `toolChoice` functions make of a choice that can be met (`ChoiceReaches`).
- `AnthropicProofs`: `AnthropicAccepts`, for transcripts and messages of any
  length. Turns: `Standing` is what holds of the turns and the buffer when the
  adapter has read a message (the turns sent alternate, each call is resolved by
  the parts after it, the buffer resolves the calls still pending), and
  `TakeStands` keeps it for each role. It is fed by the scan of
  `ValidateMessages`, whose pending calls survive `WithoutReasoning`
  (`SeenArePaired`), and by the invariant `InTurn`, that the assistant speaks
  once at a time and not last in what is sent. `CallsAreAnswered` and
  `RolesTakeTurns` then read the property off the turns. Markers: the parts
  asked to be marked are told apart by views as in `WireProofs`
  (`MarksAreTold`), and what the adapter counts while it writes is what it
  leaves out at the front (`MarksStay`, `CountGrows`), so that the last ones are
  kept (`MarkersDoFit`).
  Two assumptions, which the code does not ensure and the run's settings meet:
  `StartsInTurn`, that no conversation begins with two messages of the assistant
  in a row (the adapter merges only what users and tools say, and
  `ValidateMessages` lets them pass); and `MarkedPromptsSay`, that a marked
  system prompt is not empty (its marker is counted and never sent). Section 5
  says what happens otherwise.

Only model-checked: the liveness properties (`OpenExpires`, `Recovers`,
`CompleteReturns`, `EndedCtxReturns`, `SomeoneIsAdmitted`, `LossIsDetected`,
`SlotsComeBack`, `RunReturns`), since fairness is outside the prover's reach.
Every invariant and every action property that a passing run checks is a
theorem, under the assumptions named above.

## 5. Observations without a run

Facts met while modelling that no run states.

Breaker and chain. A straggler's record opens the gate next to a running probe,
although `circuit.go:88` says that a recovering provider sees one request at a
time (`circuit.go:144`; `SingleFlight` excepts exactly this case). With inner
calls that panic and a caller that recovers, a probe leaves the gate shut for
good (`circuit.go:220`). `record` does run in the open state, for calls admitted
before the trip, although `circuit.go:172` calls the case normally unreachable.
A call that passed `allow` and then waited for the limiter reaches the provider
next to the probe (`circuit.go:104`). A bucket whose backend fails ends the
retry loop at once: `FromBucket` wraps the error unclassified
(`llms/ratelimit/bucket.go:55`), so a transaction cut off by `OpTimeout` is not
retried while `MaxWait` of the same limiter is, and a caller whose context is
live may find a `context.DeadlineExceeded` in the result. Jitter is applied
after the cap, so a backoff may be longer than `MaxDelay` (`retry.go:128`).

Limiter and bucket. A context that ends between the check and the mutex is
charged (`memory.go:225`). The third renewal tick of a lease falls at or after
its expiry, so one retry is in time and not the two that `lease.go:69` promises
(`lease.go:80`). A failed `Adjust` is not retried (`lease.go:144`).

Tool loop. A request that ends with an assistant message may, after an overflow,
be cut by `KeepLast` to a transcript that still ends with one, and the run ends
with a compaction error (`run.go:474`), which `KeepLastIsUsable` therefore
leaves out.

Adapters. An `InputSchema` of JSON `null` decodes to a nil map that is then
written to (`openai/chatconvert.go:113`, `google/convert.go:259`). The Anthropic
adapter merges what users and tools say but not consecutive assistant messages,
which `ValidateMessages` allows; a transcript that begins with the assistant's
words is refused by Anthropic alone. It keeps empty text blocks of a response,
which every adapter refuses to send, and refuses to send back thinking without a
signature that it did accept from a response: `InOrder` leaves such transcripts
out. A top-level schema type that is not a string is refused by three adapters
and accepted by Google and Ollama. A marked system prompt with an empty text
uses up a cache marker. `ToolResult.IsError` is "a model-visible signal"
(`toolloop/types.go:27`), which only the adapters of Anthropic and Google put on
the wire (`openai/chatconvert.go:81`, `openaicompat/convert.go:76` and
`ollama/wire.go:162` send the content alone, where a model sees the failure only
if the content tells it). `UsageAddsUp` excepts OpenAI's adapter when the server
counts more reasoning than output, where `docs/specification.md:663` states an
equality, and the adapters of OpenAI and Google when it reports a negative
reasoning count, which they pass on.

## 6. Not modelled

The in-memory bucket and the adapter between buckets and limiters; saturating
arithmetic and the floating-point rounding of token counts. Of the adapters:
HTTP, the classes of their errors, stop reasons, embeddings, model lists. Of the
tool loop: `validateConfig`, the usage sums, the observation hooks, the text
given to a summarizer. Metrics and validation inside the chain keep no state.
Wording of errors, `Retry-After` parsing, JSON, the database schema, the
example, test clients.

## 7. Plan

Done: the breaker, the chain, both limiters, the tool loop with validation and
compaction, the five adapters and the conversation that moves between them,
their runs and the proofs above. Left, in this order:

1. `MemBucket` with `core.Wait` and the bucket adapter, as a third
   implementation of `Admission`.
2. Saturating arithmetic against exact arithmetic at a small width.
3. `validateConfig` and the usage sums of the tool loop; stop reasons.
