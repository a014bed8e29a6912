# Verification of arena64

arena64 is a platform for playing draughts online: a FastAPI backend
(`src/apps/api`) over PostgreSQL and Redis, and two web clients. Several API
processes run the same code at once, each with its own outbox relay and its own
periodic jobs, and every one of them may die between two transactions. This
directory holds TLA+ models of the parts where that matters, the TLC
configurations that check them on small instances, and TLAPS proofs of their
most important properties for every instance.

Contents: [inventory](#1-inventory), [plan](#2-plan-as-carried-out),
[modules](#3-modules-and-code), [runs](#4-runs), [fairness](#5-fairness),
[proofs](#6-proofs), [findings](#7-findings-and-observations),
[not covered](#8-what-is-only-model-checked-and-what-is-not-modelled).

Paths below are relative to `src/apps/api/app/` unless they start with `src/`.

## 1. Inventory

### How the parts fit together

Modules (`modules/*`) own a schema each and never read each other's tables.
They talk in two ways: synchronously through ports (matchmaking asks `game` for
a match, the gateway asks `game` to play a move), and asynchronously through
domain events, which a service stages in its own transaction as rows of
`platform.outbox` and the relay hands to consumers later, at least once. Redis
holds what may be lost: clock deadlines, rooms, replay buffers, presence,
connections. PostgreSQL holds everything else. The periodic jobs (started in
`app_factory.py`) sweep up behind whatever a crash left half done.

### Modelled

| part | state | operations | interactions | what is hard | what makes it correct |
|---|---|---|---|---|---|
| Outbox relay (`platform/outbox`) | outbox rows (`published_at`, `attempt_count`, `next_attempt_at`, `last_error`), ledger rows per consumer | enqueue, claim (own transaction), concurrent delivery with a timeout per consumer, ledger mark (shielded), record (own transaction) | every module produces into it, most modules consume from it | relays of different builds at once, leases that lapse, cancellation, partial failure, a process dying between claim and record | at-least-once delivery; nothing published that a consumer is owed; no row stranded or retired silently; relays do not share a row |
| Outbox retention (`platform/outbox/retention.py`) | the same two tables | batched deletion by age, outbox first, ledger second | runs beside the relays | stops between batches, horizon of one table against the other | forgets nothing undelivered; keeps the ledger of what may be redelivered |
| Match (`modules/game`) | `game.match`, its moves, the Redis set of deadlines | create, accept, decline, move, resign, draw offers, abort, expire, flag | gateway and routes call it, matchmaking and tournament create and abort, adjudicator, reconciler and expiry sweep run over it | requests stamped before they wait for the row lock; Redis written before the commit; deadlines claimed destructively; rows read in one transaction and written in another | one end, one announcement; no flag before the row's time is out; no time from nowhere; draw rules; a match always ends |
| Queue and pairing (`modules/matchmaking`) | `queue_ticket`, `queue_cooldown`, plus the match of each pairing in `game` | join, leave, scan and pair (four transactions in two modules), expiry sweep, reconciliation, requeue and cooldown policy | calls `game` synchronously, consumes its events | no transaction spans the two modules; snapshots without locks; three jobs over the same rows; redelivery | one ticket, one match; the queue says the truth about it; only who is owed a place gets it back |
| Tournament bracket (`modules/tournament`) | tournament, rounds, pairings, attempts, plus the match of each attempt in `game` | start, launch attempts, consume completions, replay draws, advance, progress, no-show sweep, reconcile, complete | creates matches in `game`, consumes `MatchCompleted` | four kinds of worker share three routines of several transactions each; a worker may die between any two; results of one round finish together | one winner per node, the one `game` says; rounds end after their nodes; every pair gets its result |
| A live game as a client sees it (`gateway`, web client) | room membership, the replay buffer in Redis, the requests in flight, the reducer of the web client and what of it was rendered | join, resume, submit, broadcast, completion push; reduce each frame, render, run effects | moves and commands of `game` are committed first and told afterwards | broadcasts of different handlers overtake each other; a resume reads a snapshot, the room and the buffer one after the other; the client asks from an effect on what it rendered; connections drop | a board that knows it missed something asks; nothing is missed in silence; entering ends; the end is learnt |
| Friends and blocks (`modules/friends`) | requests, friendships, blocks, the cached social graph | send, accept, decline, cancel, remove, block, unblock, read through the cache | matchmaking asks it who may play whom | checks run before the transaction that relies on them; the cache is invalidated after the commit | an accepted request and its friendship are one; a block parts the two; the cache is not wrong for long |
| Friend challenges (`modules/matchmaking`) | `friend_challenge` rows and the match of each accepted one | create, accept (with its match), decline, cancel, expire | reads the cached graph and the blocks, creates a match in `game` | an acceptance against a withdrawal, a refusal on another device, the sweep | one match for an accepted challenge, none for any other, one answer told |

### Not modelled

| part | state | operations | why not |
|---|---|---|---|
| Tournament registration, seeding, start of registration | tournament, registrations | register, withdraw, close, seed | each is one transaction that holds the row of the tournament; `TournamentBracket` begins with their result |
| Gateway connections, routing, spectators | Redis registry with TTL, streams between nodes | connect, forward, heartbeat, spectate | best effort only: nothing else relies on it |
| Auth | sessions, one-time tokens | sign in, rotate, revoke, reset, verify | what matters there is a question of security, which this project leaves alone |
| Rating, statistics | one row per player | consume completions | consumers of what `EventDelivery` promises, idempotent by their own keys; Glicko-2 is real arithmetic |
| Notifications | durable notices, leased email and push deliveries | write, claim, send, expand broadcasts | the protocol of the outbox again, with a provider behind it |
| Engine | none | legal moves, application, terminal and draw rules | functions of a board of 64 squares, which its perft tests count much deeper than TLC could |
| Pending-match notices, queue retention | - | notify, delete by age | best effort; deletion of resolved rows only |
| Users, presence, profiles, avatars, reference data, admin, analytics | records, Redis TTLs | create, read, update | single-row writes and best-effort presence |
| Platform tasks, mail, push, metrics; configuration and wiring | none of their own | schedulers, providers | appear here as fairness and constants |
| The rest of the web and admin clients | view state | render | presentation |

`PROJECT.json` lists the same components with their files, and under `hazards`
the places where this code is hard to test, with the properties that cover them
or the reason why none does.

## 2. Plan, as carried out

The order was that of importance: the outbox, on whose delivery every other part
depends; the live match, which is the product; the matchmaking queue and the
tournament bracket, the two protocols that reach over several modules; what the
client is told of its match; and the social graph with the challenges that read
it. Each module has an abstract counterpart or a short list of properties that a
reviewer would argue about, a run that exercises it with its faults, and proofs
for what does not depend on the bounds.

Every safety and action property that a passing run checks is also a theorem
(section 6). What remains is open-ended rather than planned: the consumers of
completions (rating, statistics) composed with `EventDelivery`, so that "each match
counts once" is a property of both together.

## 3. Modules and code

| module | models | composed with |
|---|---|---|
| `EventDelivery` | what the outbox promises: emitted events are handled, published when some build's consumers all handled them, deleted only after | abstract specification of `OutboxRelay` and `OutboxRetention` |
| `OutboxRelay` | `relay.py`, `repository.py`, `entry.py`, `isolation.py`, `worker.py` | base of `OutboxRetention` |
| `OutboxRetention` | `retention.py` beside the relays | extends `OutboxRelay` |
| `RelaySession` | who uses the relay's one `AsyncSession` during a tick (`_session_lock`, `asyncio.shield`, `wait_for`) | a closer look at one `Claim`-to-`Record` of `OutboxRelay` |
| `MatchLife` | what consumers of `game` may rely on about one match | abstract specification of `LiveMatch` |
| `LiveMatch` | `game`: match record, clock, draw agreement, move and command services, acceptance, abort, adjudication, reconciliation, deadline store | - |
| `QueuePairing` | `matchmaking`: queue, pairing, reconciliation, outcome policy; of `game` the creation, the two unique indexes, the handshake and `settlements_for` | the inside of a pending match is `LiveMatch` |
| `Knockout` | what a knockout is: a node is decided once, for somebody its children sent, and the champion comes last | abstract specification of `TournamentBracket` |
| `TournamentBracket` | `tournament`: start, launcher, advancement, completion, the consumer of `MatchCompleted`, no-show sweep, reconciler; of `game` the matches by origin | the match of an attempt is `LiveMatch` |
| `GameStream` | of the gateway the join, resume, move and completion handlers and the replay buffer; of the web client the reducer and the room hook | the commit of a move is `LiveMatch` |
| `FriendPair` | `friends`: requests, friendships, blocks, the cached graph of two players | base of `FriendChallenge` |
| `FriendChallenge` | of `matchmaking` the challenges, their match and their sweep, beside the friends' rows | extends `FriendPair` |
| `*_proofs` | theorems about the module they extend; `OutboxRetention_proofs` also extends `OutboxRelay_proofs`, whose lemmas it needs for the relays' steps | |
| `MC*` | instances for TLC | |

**One transaction, one action**, with two exceptions that are the point of their
model: `RelaySession` looks inside a tick, and a move in `LiveMatch` is `Move`
(lock the row, write, touch Redis) followed by `Commit` or `Rollback`, because
the route commits after `LiveMoveService.submit` has already told Redis
(`modules/game/presentation/dependencies/__init__.py` 204-219, 318-328).

**`OutboxRelay`.** `row` is `platform.outbox`, `ledger` is
`platform.processed_event`. `batch`, `counted` and `elapsed` are what a relay
remembers of its claim, `task[r][c]` is the coroutine `_deliver` for consumer
`c`: it filters by the ledger, runs the handler (which commits entry by entry,
rejects, raises or hangs) and marks. `Timeout` is `wait_for`; a mark it
interrupts becomes an `orphan`, since it is shielded. `Record` is transaction B.
`Lose` is a crash, or an exception of transaction B. Time is kept as durations
(`wait`, `elapsed`), so no instance bounds how long a system runs. `effects` and
`losses` are history variables.

**`LiveMatch`.** `row` is the committed `game.match`, `draft` the row as the
open transaction `holder` has written it, `deadline` the member of
`clock:v1:deadlines`. `call` holds the requests in flight with the instant they
were stamped at, which is before they wait for the lock; two requests can
therefore be stamped in one order and committed in the other. `token` is a
claimed deadline, `reread` the reconciler's read, `overdue` the sweeper's. Which
moves are legal and whether a position is won or drawn is any choice.
`announced` counts events per kind; `told` and `answeredAt` are history.

**`QueuePairing`.** `ticket` is `queue_ticket` with its CHECK and its unique
indexes, `match` the row of `game.match` with that pairing id, `worker` a
`pair_once` between two of its transactions, `sweeping` an `expire_due` between
its two, `recon` a `reconcile_once` between its three. `owed` are the events of
failed handshakes that the outbox will deliver, at least once
(`ApplyPolicy`, `PolicyInterrupted`). `LightOf` is the side the parity of a
pairing id gives; it matters because `uq_match__light_ticket` and
`uq_match__dark_ticket` compare only like sides. `late` records whether a
pairing outlasted the reservation it was given.

**`TournamentBracket`.** `call[w]` is what a worker does next and what it
remembers: the three routines (launch, apply a result, advance a winner) are
several transactions each, one action apiece. `create_match` commits the session
it shares with its caller, so a match is committed with what was staged before
it, and the attempt that names it only with the next commit; a worker that dies
between the two leaves a match that the next one finds by its key. `owed` are
the `MatchCompleted` events still to be delivered. Players are their seeds.

**`GameStream`.** One match, the client of one of its players. A move is
committed, then buffered and broadcast by its handler (`stage`), so broadcasts of
consecutive moves overtake each other. `inbox` is what the client has sent and the
read loop has yet to take, `serving` the request it is at and what that has read so
far, `orphan` a move whose connection closed before it was served. `client` is the
reducer's state as far as it decides anything: phase, sequence, and what `enter` and
`submit` wait for. React separates three steps that look like one: a frame is
*dispatched* (`Reduce`) and changes `client` alone; a *render* (`Render`) shows what
was dispatched since the last one, as `page`; and only if the rendered phase became
`resyncing` an *effect* (`Resynchronise`) asks for a snapshot
(`use-game-room.ts:432-435`). Any number of dispatches may come between two renders,
and between a render and its effect. `stale`, `unseen` and `faults` are history:
a snapshot that was older than a frame before it, a `resyncing` that came or went
between two renders, and failures.

**`FriendPair`, `FriendChallenge`.** Rows of different pairs never meet, so one
pair of players is the whole state. A handler reads outside its transaction and
writes in it: what it read is in `handler[h]` (with the version of the row) or
`session[h]`, the write is one action at the commit. A block reads inside its
transaction too and is two. `cache[p]` is the FRIENDS entry of `p`'s social graph,
invalidated after the commit; `crossed` and `stale` record, as history, that a
write passed a block its check did not see, and that an entry was put late or
kept by a lost invalidation.

The rules of enumeration: every `Init` is an empty database; requests arrive at
any time, from any side, in any number up to the bounds.

## 4. Runs

Each run is one instance (`MC*.cfg`) that asks all it can of one state space; the
number of distinct states is what it reaches.

| run | instance | properties | states |
|---|---|---|---|
| `outbox` | 2 relays of different builds, 2 consumers, 1 row, lease 3 > budget 1 + slack 1, 2 attempts, 1 loss, the prune in batches of 1 | `TypeOK`, `LeaseExclusive`, `NoSilentAttempt`, `LedgerSound`, `EffectsWithinAttempts`, `PublishedWasHandled`, `YoungEntryKeepsLedger`, `EveryEntrySettles`, `DeliverySpec` | 172 127 |
| `session_record` | 3 consumers | `SessionExclusive`, violated | - |
| `match_play` | 2 requests, 1 adjudicator, 2 plies, 2 instants, 1 fault, timed | `TypeOK`, `OfferIsFresh`, `FlagFollowsTheRow`, `NoTimeIsCreated`, `NoRepeatedOffer`, `LifeSpec` | 4 617 698 |
| `match_live` | 1 request, one of each task, 1 ply, 3 instants, 1 fault | `AnnouncedAsSettled`, `EveryFlagFalls`, `EveryMatchIsAnswered` | 236 574 |
| `match_answers` | 1 request, 1 sweeper | `AcceptanceKept`, violated | - |
| `queue_settle` | 2 workers, sweeper, 2 reconcilers, 2 players, 3 tickets, ttl 3, reservation 2, cooldown 1, 3 instants (the last join at 1), 1 failure | `TypeOK`, `NoSecondMatch`, `MatchedHasMatch`, `RequeuesFollowAFailure`, `TicketLife` | 2 144 365 (up to the names of workers and reconcilers) |
| `queue_decline` | 1 worker, 2 players, no failure | `RequeuesAreOwed`, violated | - |
| `bracket_play` | 3 players (one bye), starter, 1 consumer, reconciler, a final that may be drawn twice, 2 crashes | `TypeOK`, `WonAsPlayed`, `EveryPairIsDecided`, `PlayedBracketCompletes` | 185 503 |
| `bracket_absence` | 4 players, starter, 2 consumers, the no-show sweep over one semi-final, 1 crash | `RoundsFollowTheBracket`, `KnockoutSpec` | 252 414 |
| `bracket_bye` | 7 players in 8 slots | `ByeIsEarned`, violated | - |
| `stream` | 3 plies, a buffer of 2, 1 failure, connections without bound | `TypeOK`, `ResyncIsAsked`, `NothingMissedSilently`, `EntryEnds`, `CatchesUp`, `EndIsLearnt` | 874 275 |
| `friends` | 2 players, 2 handlers, 2 requests, 1 challenge, failures without bound | `ChallengeTypeOK`, `AnswersAreWhole`, `BlockKeepsApart`, `CacheIsTrue` | 5 569 004 |

**What they show.** `outbox`: with the lease the settings prescribe, relays never
hold one row together, no attempt is spent without a published row or a recorded
error (unless the relay that spent it died), and every committed event settles,
though handlers may hang, a relay die and the prune stop after any batch; the
ledger is true, redelivery is bounded by attempts, the prune deletes nothing
undelivered and keeps the ledger of whatever is inside the horizon, and the whole
implements `EventDelivery`. `match_play`: no order of stamping, locking,
committing, rolling back, claiming and rescheduling flags a player whose time by
the row is not out, adds time to a clock, or lets an offer outlive its position,
and consumers see the life `MatchLife` describes. `match_live`: a lost deadline,
token, Redis write or transaction delays a flag or an expiry and never prevents
it. `queue_settle`: two workers after the same tickets, with the sweep, two
reconcilers, players who leave and the policy in between; `NoSecondMatch` exempts
a creation that outlasts its reservation (`late`) and a ticket reserved again
under a reconciler that had read it (`retaken`), and says that nothing else gives
a ticket a second match; the other four properties hold in those behaviours too.
`bracket_play`: deliveries that come too early or twice, matches without attempts
and workers that die leave no pair without its result once its games are over, and
a bracket that was played is completed (but for observation 12); what both wait
for is a game that is still being played, for nothing ends those.
`bracket_absence`: a sweep that decides on a stale attendance and results that
finish a round together still leave one winner per node and rounds that end after
their nodes. `stream`: whatever overtakes what, a board that was rendered behind
asks, and gets there. `friends`: answers commit whole, a block parts the two but
for two windows, and the cache is wrong only where that is bounded by its TTL.

**Why the bounds are enough.** The interesting cases are collisions of two actors
over one row, so two of each racing actor and one contended object; the third
object is there when two facts about one owner must meet (two tickets of one
player). One fault, at any step, is what recovery is designed for; `bracket_play`
has two because the second one hits the recovery itself. Two plies with both
players' draw requests hold an offer, its refusal by a move and the next one; two
instants and budgets of one let a clock run out exactly at, and one after, its
deadline. A bracket of two rounds has a node with two children, a bye, a replay
and a last round; what three rounds add is the run `bracket_bye`. Three moves
against a buffer of two let a client be resumed from the buffer, or be too far
behind for it. Two requests let a pair be friends, part, and meet again, in either
direction. Every bound is a constant (`Max*`, `Slack`, `Missable`, `Results`)
named in its module; the theorems hold for all of them.

`queue_settle` is checked up to a renaming of its workers and of its reconcilers
(`SYMMETRY Processes`), which is sound for the safety and action properties it asks.

`CHECK_DEADLOCK FALSE` appears where the system really may stop: a finished tick
in `RelaySession`, a queue at the last instant in `QueuePairing`, a bracket that is
decided, a match that is over.

## 5. Fairness

- `OutboxRelay`: weak fairness of each relay's `Claim`, `Record` and `Timeout`,
  and of `Tick`. The worker loop catches everything and polls for ever,
  `wait_for` ends a delivery that does not end itself, transaction B follows.
  Nothing is assumed of handlers, producers or orphaned marks.
- `LiveMatch`: weak fairness of `Tick`, of an open transaction's `Commit`, and of
  each task's steps: the schedulers of `app_factory.py` run every job again after
  success and failure alike. Nothing is assumed of players, and not even that a
  request that activated a match gets to open its clock: the reconciler must do.
- `TournamentBracket`: weak fairness of a job that has begun, of the start and of
  each pass of the reconciler; strong fairness of the deliveries of each node,
  since the relay comes back to an entry that other work pushed aside. None of the
  sweep, and none of the end of a game: a match of a tournament is activated by the
  system and untimed (`game/public/matches.py` 60-72,
  `tournament/application/services/no_show_service.py` 257-264), so once both players
  have appeared and left nothing ends it. `EveryPairIsDecided` and
  `PlayedBracketCompletes` therefore say what is true again and again (`[]<>`) with
  the alternative that a game is being played.
- `GameStream`: weak fairness of the handlers that were not cut off, of the
  announcement, of the read loop, of rendering and of the effect of a render. None of
  players, connections or failures.
- `RelaySession`, `QueuePairing` and `FriendChallenge` have safety properties only and
  no fairness.

## 6. Proofs

Assumptions are the named `ASSUME`s of the modules: the ranges the settings classes
validate. The bounds of the instances do not matter: any
set of relays, consumers, entries, handlers and tasks, any attempts, lease,
budget, time control or number of plies.

`OutboxRelay_proofs`:

- `TypeCorrect`, one lemma per group of actions.
- `PublishedHandled`, `LedgerTrue`: the invariant `DeliveryInv` is a chain. A
  record trusts what deliveries report (`TaskSound`), a delivery trusts the
  ledger for what it filtered out, the ledger trusts marks, late marks too
  (`OrphanSound`), and work that was committed stays committed.
- `LeaseKeepsRelaysApart`: while a relay holds a row, the row's `wait` is exactly
  `Lease - elapsed`; with `Budget + Slack < Lease` it is positive, so the row is
  not due and no other relay can claim it.
- `NoAttemptIsSilent`: without losses the only way out of a batch is `Record`.
- `WorkWithinAttempts` (`EffectsWithinAttempts`): counting effects alone is not
  inductive, since a relay that holds the row may still work on it. `AttemptsInv`
  counts those too: for a consumer and an entry, the effects and the relays that hold
  the entry and have not worked on it yet (`Owing`, a finite set) are together at
  most the attempts. A claim adds one to both sides, an effect moves a relay from
  the one count to the other, and everything else only shrinks the set. Nothing is
  assumed of the lease.
- `RelayImplementsDelivery`: `Init` maps to `Init`; a handler's commit is a
  `Handle`, a record is a `Publish` of the rows it publishes, everything else
  stutters.

`OutboxRetention_proofs`, of the relays and the job together:

- `RelaysSurviveRetention`: each invariant above still holds. The job's batch is
  published rows (`Deletes`), of which no invariant says anything a deleted row
  could break, even when a relay of an earlier lease still holds one; and the
  invariants trust a ledger record that is there but never ask for one, so
  forgetting breaks none of them.
- `RetentionImplementsDelivery`: the job's deletion of a row is a `Delete` of
  `EventDelivery`, the rest of what it does a stutter.
- `RetentionForgetsOnlyOld` (`YoungEntryKeepsLedger`): `AgesInv`, a record is never
  older than its entry and was written if it is there, and what was forgotten, or is
  about to be, belongs to an entry past the ledger's horizon.

`LiveMatch_proofs`. None of its properties is inductive, since they say nothing
of the row an open transaction will commit nor of the one a sweeper will write
back. `RecordInv` relates them: `row` and `draft` are both well-formed records,
equal when unlocked, and a draft continues a live match; a sweeper holds a row
that was pending. Lemma `RowWriters` lists the steps that write the row; each
property's step lemma then considers only those.

- `EventsAnnouncedOnce`; `MatchLivesOnce` (refinement of `MatchLife`) from it.
- `FlagsFollowTheRow` (`FlagFollowsTheRow`): `TokenInv`, a claimed instant is not in
  the future, and the test under the lock. Nothing about Redis is needed, which is the
  design. It is about the row and the instant of the adjudicator; a move that was
  received before it and still waits for the row is observation 9 of section 7.
- `TimeIsConserved`: `ClockInv`, the law of the row and of the draft alike. A move
  stamped before the turn it answers began charges nothing and moves the start
  of the next turn back, which the law accounts for.
- `OffersAreFresh`, `RefusalsAreRespected`: `from` remembers each refusal as the
  opponent's next ply after it (`RefusalKept`), and a draft `Heeds` the row.

`QueuePairing_proofs`. Every step either settles live tickets (`Settling`) or
enters one admitted ticket (`Entering`); lemma `TicketWriters` shows it once for
all actions, and `TypeCorrect` and `TicketsResolveOnce` follow from the two
shapes.

- `MatchedTicketsHaveMatches`: `SettledInv`. What a worker learnt when its match
  was committed and what a reconciler read of `game` are true when they are read
  and stay true, since no match is forgotten (`Kept`), so it does not matter how
  late they are used or how many processes use them.
- `RequeuesFollowFailures` (`RequeuesFollowAFailure`): `OwedInv`, the outbox only ever
  owes failed handshakes, and a failed handshake is never reopened.
- `TicketsSeatedOnce` (`NoSecondMatch`): `late`, `retaken` or `Holding`. A worker
  between its claim and its last transaction holds both its tickets alone, before
  their deadline, and nobody has created a match of them until it does
  (`WorkersHold`, `HeldOnce`); what a reconciler claimed no worker holds, and what it
  found without a match has none yet (`ReconHolds`), whatever another reconciler has
  made of it meanwhile; a ticket that waits, or left, has no match
  (`FreshUnseated`). So a match is only ever created of two tickets without one, which
  is what the two unique indexes do not compare (`OneMatch`). A reconciler claims only
  lapsed reservations, and while nothing is `late` those are of workers that died or
  gave up; a claim of a ticket some reconciler still has in its batch is what
  `retaken` records. Any number of workers, sweepers and reconcilers.

`RelaySession_proofs`: `Serialised`, since whoever executes a statement in a
delivery holds the lock (`Locked`), for any number of consumers.

`TournamentBracket_proofs`. `Inv` says what a worker may still rely on of what it
read earlier: games that ended keep their result, nodes that were won their winner
(`Grows`), a call names an attempt whose game was played, seats were sent by
children that were won (`Seating`).

- `TypeCorrect`, `WonAsPlayedHolds`, `RoundsFollow` from `Inv`; a progression that is
  late finds only more of the round decided than it read.
- `Refines`: the claim of a winner is a `Decide` of `Knockout`, the completion of
  the tournament its end; every other step, stale or repeated, is a stutter.
- `PlayersOncePerRound`: nobody holds two seats of one round, so nobody meets
  themselves or wins two nodes of a round. `WinnersSeated` is inductive by
  `PlacesStay`; of the rounds that seat a player twice take the least: the first
  round was drawn without repetition, and above it both seats were filled by the
  same child, because the round below seats the player once.
- `AttemptsTellTheGame`: `AttemptsAgree`, what an attempt records of its match is
  what `game` decided. `AttemptStep` lists what the three writers may do to an
  attempt, `ResultsStay` and `PlacesStay` why it stays true.
- `PairsAreEnough`: the reconciler looks only at nodes with two players and no
  winner, and `_require_decided` only at those and the last node. Of the undecided
  nodes one of the least round is such a node: its children were won, or it is of the
  first round and no bye (`NoByeLeft`). So what the code looks at is enough, and the
  `bracket_bye` run's early finalist cannot end the tournament early.

The last three are proved for every size of bracket; no run lists them, though TLC
finds them true of the three instances.

`GameStream_proofs`. `Inv` is `Typed`, `ResyncIsAsked`, `Trimmed` (the buffer is the
last of what was sent), `EnterFirst` (while the client is joining, its join is the
first request and nothing is served; without a connection all is rendered),
`DueShown` (the effect is due only after a render of `resyncing`) and, while nothing
was lost outside the protocol (`Calm`), `Told`: a client that misses a move is about to
join, has asked for everything, has a resume on its way that will show it
(`Catching`), or will ask with its next render (`WillAsk`). A step that dispatches can
break `ResyncIsAsked` only by entering `resyncing` while the page shows it already, or
by leaving it before the page did; `Hides` is exactly that, and sets `unseen`.
`TypeCorrect`, `ResyncsAsk` and `NoSilentLoss` follow.

`FriendChallenge_proofs`. The version of a request is 0 until it is resolved
(`Resolved`), a handler that will resolve one read it at 0 (`Remembers`), and at most
one friendship is live (`OneLive`); so whoever finds the version it read finds the
request pending, and a block that ends the friendship it read ends them all.
`AnswersWhole`, `BlocksKeepApart`, `CacheCorrect` and `TypeCorrect` follow; for the
challenges, lemma `WriteKeeps` shows once that an answer to an open challenge is told
after its offer and nothing before it.

TLAPS cannot do, and this project leaves to TLC: liveness under fairness,
`ENABLED`, and induction over data.

## 7. Findings and observations

Four runs show the code doing what its own words exclude:

1. **`session_record`** (`platform/outbox/relay.py:551`): `_record` uses the
   relay's session without `_session_lock`, while a mark that was shielded from
   its delivery's timeout may still be executing on it.
2. **`match_answers`**
   (`modules/game/infrastructure/repositories/match_record_repository.py:353`):
   the expiry sweep writes back acceptance columns it read in an earlier
   transaction, comparing only `status`; an acceptance committed in between is
   erased although the comment promises it stands. That player is then not
   requeued.
3. **`bracket_bye`** (`modules/tournament/domain/bracket_plan.py:314`): a child
   without a winner and without players counts as settled even while its own
   children are being played, so in a bracket of eight a finalist can be handed the
   final as a bye, which lines 296-304 say must not happen; the winner of the other
   half then meets a decided node.
4. **`queue_decline`**
   (`modules/matchmaking/application/services/match_outcome_service.py:227`): a
   player who accepts a match and then declines it is among the accepted and is
   requeued with their old place before the cooldown is written; the policy's words
   are "a participant who explicitly declined earns a cooldown" and "cooldown, not
   requeued" (16-22), and
   `src/apps/api/tests/unit/test_acceptance_failure_policy.py:286` is
   `test_the_decliner_is_not_requeued`.

Observations, not the subject of a run:

1. A handler that timed out after committing is retried: effects are at least
   once even with a single relay (`relay.py:349`, 342-344, 459-460). A relay that dies
   with a row at its last attempt retires it with no error recorded (229); `losses`
   exempts that from `NoSilentAttempt`.
2. The ledger is pruned by `processed_at` alone, while rows that were never
   published are never pruned: an unpublished row older than the ledger's
   horizon may be handed over again to a consumer that handled it
   (`retention.py:202-206`). `YoungEntryKeepsLedger` is what does hold.
3. A move that was received before the turn it answers began sets
   `turn_started_at` back to the instant it was received
   (`game/domain/clock.py:222`, `gateway/connections.py:304`); `NoTimeIsCreated`
   shows the total is still conserved.
4. A deadline token that the adjudicator drops after an exception was current,
   not superseded (`clock_adjudication_service.py:275` against 22-25); the
   reconciler rewrites the deadline.
5. A match created active schedules no deadline; it waits for the reconciler,
   which reads only the 500 longest-running turns.
6. After a crash between creation and settlement, the policy may run while the
   source ticket is still reserved; it then counts as the player's live ticket
   and the requeue is dropped for good (`queue_service.py:334`).
7. `QueueTicketExpired` is announced for every ticket a sweep claimed, also one
   that was paired or cancelled before the write (`queue_service.py:464`,
   `reconciliation_service.py:406`).
8. An insert that outlasts its reservation may leave a match for tickets that
   are waiting again, and a second match for a ticket that is then paired on the
   other side. `late` marks those behaviours, and `NoSecondMatch` excludes them;
   the other queue properties do not need to.
9. A move that was received in time can wait for the row lock, or for its turn in the
   process, while the adjudicator locks the row first and settles it by
   `has_flagged(now)` (`clock_adjudication_service.py` 169-189): the player loses on
   time and the move meets a completed match. `gateway/connections.py` 299-304, rule
   MT-9 of `src/docs/01-architecture/domain-model.md` and
   `src/apps/api/tests/contract/test_live_clock.py` 11-13 make the receive instant
   the authority for that race; the test (150-170) compares two moves and no
   adjudicator. `FlagFollowsTheRow` does not exclude it: it says that the clock of the
   row was out at the adjudicator's instant.
10. Two matches of the same two players lock their statistics rows winner first, in
    opposite orders (`statistics/application/services/match_projection_service.py:143`);
    PostgreSQL fails one of the two, and the outbox redelivers it.
11. The reconciler's writes compare the status and not the reservation. With two
    reconcilers, a reservation that one has ended and a scan has taken again can
    be ended by the other, by what it read of the first one; a match is then
    created for a ticket that waits again. `reconciliation_service.py` 36-42
    says "Every write is a compare-and-set on the status the reconciler read"
    and "running it twice is running it once". `retaken` marks those behaviours, and
    `NoSecondMatch` excludes them.

Of the tournament:

12. The no-show sweep moves a winner up without progressing the round
    (`no_show_service.py:274`), and the reconciler looks only at undecided nodes, so
    a last node decided by absence leaves its tournament in progress. So does a
    reconciler that applies a result before its round is open, or dies between
    `advance_winner` and its progression. `advancement_service.py` 349-351 speaks of
    "a tournament that is still `IN_PROGRESS` with a decided bracket — which the next
    delivery, or the reconciler, completes". `PlayedBracketCompletes` exempts
    exactly these (`AbsenceDecided`, `Forgets`); without the exemption TLC finds a
    sweep's walkover, a delivery acknowledged as not ours and a reconciler that
    reapplies its result leave every node won and the tournament in progress for ever.
13. The sweep decides on the attendance it read before it claimed the attempt
    (`no_show_service.py:247`) and does not look at the answer of its own
    compare-and-set (255), so that a real result recorded in between loses to the
    walkover, although lines 21-35 say that it always wins; `KnockoutSpec` allows
    either winner. A sweep that dies between recording the absence and advancing
    leaves the node to nobody.
14. `_record_missing` (`reconciliation_service.py:359`) writes an attempt without a
    `no_show_deadline`, which the sweep will therefore never claim.
15. Progression is by what was read without a lock: `RoundCompleted` and
    `RoundPublished` may be announced twice, and a stale save can write the status
    a round had before. `RoundsFollowTheBracket` is what does hold.
16. A player who joins the room before the attempt is recorded is not counted as
    present. Nothing cancels a tournament, and nothing ends an untimed game that both
    players have left, so their round and the tournament may wait for ever.

Of the gateway and the web client:

17. A resume reads the snapshot before the room and the buffer and sends it after
    them (`resume.py:127`); a move delivered in between is rolled back on the
    client until the next one. `stale` marks this.
18. The replay buffer judges continuity by its oldest entry, although an append that
    failed leaves a hole (`event_buffer.py:199`); `faults` marks this.
    A gap may also come and go between two renders: the frame of ply 3 arrives before
    that of ply 2, the first sets "resyncing" (`state.ts:290`), the second "active"
    again (314), and React renders the two dispatches together. The effect that asks
    depends on the rendered phase (`use-game-room.ts` 432-435) and does not run; ply 3
    is missed, with no failure of anything, until a later frame shows the gap again.
    "resyncing", a snapshot and "resyncing" between two renders ask once too few in
    the same way. `unseen` marks both; the properties of the run say what holds
    otherwise.
19. A client that reconnects after the end joins before it resumes and is refused
    the room (`resume.py` 213-221, `use-game-room.ts:382`), so it never learns the
    result from the stream. `EndIsLearnt` speaks of members only.
20. A frame of a move that arrives after `game.completed` sets the phase back to
    "active", and revives a client that is "unavailable"; a refusal does the same
    (`state.ts` 279-358). `enter` timing out on an open socket leaves the page
    "reconnecting".
21. Membership of a room expires after an hour and is not renewed
    (`config/settings.py:3447`); the next frame is answered `not_in_room`.
22. `resume.py` says a sequence ahead of the server's gets a snapshot, and that the
    buffer is checked before a snapshot is built; the code answers that the client
    is current, and reads the snapshot first.
23. `room_of` raising after the commit of a move closes the connection with the move
    neither buffered nor broadcast (`BroadcastFails`).

Of friends and challenges:

24. A request that was validated before a block is inserted after it, and an
    acceptance that commits between a block's read of the friendship and its commit
    leaves a friendship beside the block, although `blocking_service.py` speaks of
    "the failure a split would permit"; accepting never looks at blocks. `crossed`
    marks both, and `BlockKeepsApart` shows that there is no third way.
25. The validator does not ask whether the two are friends already, so a request
    between friends can be pending whose acceptance can only fail
    (`FriendshipAlreadyExists`); two opposite requests sent at once both pass.
26. A block that loses a race with `remove_friend` is rolled back with
    `FriendshipAlreadyEnded`; of two removals at once one raises, though
    `remove_friend` says it does not. An acceptance and a block may deadlock in
    PostgreSQL, which fails one of them.
27. A reader that missed the cache may put its old answer after the invalidation, and
    it stays until its TTL (`cached_social_graph_reader.py:108`); `stale` marks it.
28. `ChallengeService.accept` creates the match first and saves the challenge after
    it, which one of two sentences in its docstring contradicts; both are in one
    transaction. The expiry sweep holds the locks of what it claims, so its
    `LOST_RACE` count cannot move.

## 8. What is only model-checked, and what is not modelled

Only model-checked: all liveness (`EveryEntrySettles`, `EveryFlagFalls`,
`EveryMatchIsAnswered`, `EveryPairIsDecided`,
`PlayedBracketCompletes`, `EntryEnds`, `CatchesUp`, `EndIsLearnt`), which the
prover has no rules for. That a reservation ends at all, once its worker has died, is
not checked by any run. The four properties that fail (section 7) are TLC's too.

Abstracted inside the modules: payloads, event types beyond who handles them,
metrics and logging; the rules of the game and the pairing engine's
preferences (any choice); the page limits of the match sweeps (one match is
modelled); `worker_id` columns, which are diagnostic. Clocks of different
processes are one clock, so skew between servers is outside the models. A
transaction is atomic and serialised by the row locks the code takes. The
random tie-breaks of the code are nondeterminism here. Standings, reports and public
events of a tournament; the opponent's presence, draw frames, rate limits and the
replay of repeated request ids in the gateway; the pages and counts of friends, and
the time control and ratings of a challenge, are left out: they decide nothing about
the order of steps.

Parts without a module are listed in section 1 and in `PROJECT.json` with the
reason.
