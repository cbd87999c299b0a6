# BlunderNet Arena, specified

TLA+ modules, TLC configurations and TLAPS proofs for `src/`: a chess arena in
Go in which stateless api tasks and engine workers share games through Redis,
hand moves to each other through SQS, archive finished games in Postgres and
push every state to the browsers that watch.

The chess rules and the neural network are what this program *uses*. What it
*promises* is that a game goes on correctly while tasks race, messages repeat,
workers crash and keys expire, so that is modelled first.

## 1. Inventory

| component | state | operations | talks to |
|---|---|---|---|
| game record, `internal/game/game.go` | `Moves`, `Ply`, `PlayerColor`, `Status`, `Result`, `Termination` | `New`, `ApplyMove`, `Resign`, `Turn`, `EngineColor` | library notnil/chess |
| live store, `internal/store/redis.go` | one Redis key per game, TTL 24 h | `Create`, `Get`, `Update` (Lua compare-and-set on the ply), `Publish`, `Subscribe` | Redis |
| job queue, `internal/queue/queue.go` | SQS queue and its dead-letter queue | `Enqueue`, `Receive`, `Ack` | SQS |
| archive, `internal/store/postgres.go` | table of finished games | `SaveFinished`, `Stats`, schema creation under an advisory lock | Postgres |
| api, `internal/httpapi/server.go` | locals of each request's goroutine | `handleCreate`, `handleMove`, `handleResign`, `afterChange`, `handleWS`, read-only handlers | all of the above |
| worker, `internal/worker/worker.go` | locals of `Run` and `Process` | receive, process, acknowledge | all of the above, the engine |
| engines, `internal/engine` | search tree; ONNX session behind a mutex | `BestMove`, `Search`, `Encode`, `MoveIndex`, `IndexUCI` | chess library, onnxruntime |
| web client, `web/src/App.jsx` | the displayed game, selection, WebSocket | create, move, resign, connect, receive | api |
| process mains, `cmd/api/main.go`, `cmd/worker/main.go` | a context that SIGTERM cancels, a connection pool | start, create the schema, serve or poll, shut down | Postgres, all of the above |

**How a move travels.** A handler reads the game (`Get`), checks and applies the
move to its own copy (`ApplyMove`), writes the copy if the stored ply is still
the one it read (`Update`), publishes it, and then either archives the finished
game or enqueues a job *(game, ply)*. A worker receives the job, reads the game,
drops the job unless the game is still at that ply, ongoing, and at the engine's
turn, asks the engine, writes with the same conditional write, publishes,
archives if the game ended, and acknowledges the message. A job that fails is
left in the queue, where it becomes visible again after 30 s and is
dead-lettered after five receipts.

**What is hard.**

* No locks: between a read and its write anything may happen. Correctness
  rests on one comparison of plies, and `Resign` does not change the ply.
* Delivery is at least once, with receipts that expire under a slow worker.
* Write, publish, enqueue and archive are four calls to three services with no
  transaction around them; errors after the write are logged only.
* A client library may repeat a command whose reply was lost.
* Redis pub/sub does not replay, and the snapshot is read before the
  subscription exists.
* Games disappear (TTL, eviction) while somebody holds a copy.
* One socket is three goroutines, a context that each of them may cancel, and
  a channel of 16 events with a sender that waits for nothing but room.
* The browser shows a move before the server has seen it, and asks for a move by
  its name only: no ply says in which position it was meant.
* Tasks boot at the same time against an empty database, and any of them can
  be stopped while it holds the lock.

**What makes each component correct.**

* *Game record*: nobody moves after the end or out of turn; status, result and
  termination tell how the game ended.
* *Live store*: writers are serialised, a move list only grows by legal moves,
  an expired game is never revived.
* *Queue and worker*: no job is acknowledged whose move is still to be played;
  while the engine is to move somebody is responsible for it; eventually it moves.
* *Archive*: one row per finished game, agreeing with Redis; the counts of
  `/api/stats` partition the table.
* *Fan-out*: nobody is shown a state that was never stored; a published
  state reaches the subscribed browsers.
* *Engines*: the move returned is legal, immediate mates are played, values are
  backed up with the right sign and visits add up, the material searcher plays
  the maximin move; moves and policy indices are inverse up to the promotion piece.
* *Sockets*: the goroutines do together what a session promises, and end with it.
* *Web client*: the tab listens to the game it shows, a move is played in the
  position its player saw, the record of play on the screen never goes back.
* *Boot*: one task at a time creates the tables, nobody serves before they exist,
  and nobody shuts the others out.

`PROJECT.json` lists the components and, under `hazards`, each hard spot at its
line with the properties that watch it.

## 2. Modules

| module | models | state |
|---|---|---|
| `Faults` | the failures a run switches on (`May(kind)`) | none |
| `Game` | `game.go`, with the rules as constants `Positions` and `Outcome` | none |
| `LiveStore` | `redis.go`: the CAS script, the three ways `write` returns, expiry | `live` |
| `JobQueue` | `queue.go` over SQS; timeout and redrive policy from `deploy/terraform/data.tf` | `queue`, `sent`, `dead` |
| `Archive` | `postgres.go`: `SaveFinished`, `Stats` | `archive` |
| `Fanout` | `Publish`/`Subscribe`, `handleWS`, the browser's view | `session` |
| `Api` | the handlers and `afterChange`, call by call | `api`, `issued` |
| `Worker` | `Run` and `Process`, call by call | `wrk` |
| `Arena` | composition, fairness, all properties | all |
| `GameLog` | the abstract specification: logs of legal moves, no processes | `log` |
| `MCArena` | the instances for TLC | |
| `Encoding` | `encode.go`: a move's policy index and the way back | none |
| `Engine` | `NewFromEnv` and one call of `BestMove` of each engine | `node`, `expanded`, `visits`, `valueSum`, `reply` |
| `MCEngine` | the boards for TLC | |
| `Relay` | one socket in detail: the goroutines of `handleWS` and `Subscribe`, their context and the bounded channel | `relay` |
| `WebClient` | `App.jsx`: what a tab shows, its requests in flight, its socket; the server as a tab sees it | `relay`, `live`, `screen`, `calls`, `late`, `stranded` |
| `MCWebClient` | the instances of `WebClient` for TLC | |
| `Boot` | the life of a task: both mains, `NewArchive`, `initSchema` | `pc`, `cancelled`, `lock`, `schema` |
| `GameProofs` | lemmas about `Game`'s operators and about prefixes of lists of moves | |
| `ArenaSafetyProofs`, `ArenaJobProofs`, `ArenaEndProofs` | each extends the one before: types and the store; jobs and the hand-off; what others were told, and the end of a game | |
| `WebClientProofs`, `ScreenProofs` | theorems about `WebClient` with `Relay`: the socket; what a player sees and plays on | |
| `EngineProofs`, `BootProofs` | theorems about `Engine` with `Encoding`, and `Boot` | |

`Api` and `Worker` extend the four service modules, use their operators as the
effects of their calls, and leave the other process's variable alone; `Arena`
extends both and adds the steps the services take on their own (a visibility
timeout, a redrive, an expiry, the relay of an event, a socket closing).
`Arena!GL` instantiates `GameLog` with a refinement mapping.

**State and code.** A process's `pc` names the remote call it is about to make,
because remote calls are where others interleave: `"update"` is between
`Get`+`ApplyMove` (one read and local computation, one step) and
`games.Update`; `"publish"`, `"archive"`, `"enqueue"` and `"ack"` are the calls
after it. `prev` is `prevPly`, `g` the local copy. A handler answers the client
when it returns to `"idle"`. Requests that are refused change nothing and are
no steps. A set `Handlers` stands for the request goroutines of any number of
api tasks, as tasks share only the services.

`WebClient` composes `Relay` with the tab and with the server as the tab knows it:
an accepted write and its publication are two steps, in between anything happens;
a copy about to be written is either the stored record or, as a resignation
leaves the ply, what was read before it (`Copies`). `Relay!FO` maps each socket to
a session of `Fanout`, the module `Arena` uses, so what `Arena` assumes about
sessions is what the goroutines do (`ImplementsFanout`). On the screen, `g` is the
last state received and `ahead` the move `tryMove` has put on top of it; `hasty` is
no state of the program but a note for `MoveFitsScreen`, of the games in which the
user moved before the socket had brought a state (`newGame` shows the board before
it connects). `stranded` holds the games whose engine nobody calls any more: a move
that was stored but answered with an error is neither published nor followed by a job.

`Boot` knows nothing of games: a task is `"down"`, waits for the advisory lock,
runs the DDL, unlocks, serves. Leaving the process ends its sessions in
Postgres and so its lock.

`Engine` stands apart: a call of `BestMove` shares nothing with the rest, so the
arena sees only its result (`ChooseMove`: any legal move; `FailJob`: an error), and
`ReplyIsLegal` is what justifies that. Its tree nodes are named by the moves
that lead to them, so one function each holds the visits and the values of the
whole tree; `Descend` is one step of the selection loop, `Simulate` the evaluation
and backpropagation that end a simulation.

| action | code |
|---|---|
| `HandleCreate` | `handleCreate`, `Games.Create`; continues at `EnqueueJob` for a black player |
| `HandleMove`, `HandleResign` | the handlers up to the write |
| `Update`, `PublishState`, `ArchiveGame`, `EnqueueJob` | `games.Update`, then the parts of `afterChange` |
| `Poll` | `Jobs.Receive` |
| `DropStaleJob`, `ChooseMove`, `FailJob` | the three ways `Process` gets past its read |
| `WriteMove`, `PublishMove`, `ArchiveMove`, `Ack` | the rest of `Process`, then `Jobs.Ack` |
| `VisibilityTimeout`, `DeadLetter` | SQS |
| `OpenWS`, `Subscribe`, `SendSnapshot`, `SendEvent`, `CloseWS` | `handleWS` |
| `PlayMaterial`, `PlayPolicy` | `Material.BestMove` with `negamax`, `ONNX.BestMove` |
| `MateProbe`, `ExpandRoot`, `Descend`, `Simulate`, `MostVisited`, `EvaluateFails` | the parts of `MCTS.BestMove` in order |
| `Accept`, `WriteSnapshot`, `WriteEvent`, `HandlerReturns`; `ReaderCancels` | the handler's goroutine; the reader's |
| `Activate`, `TakeEvent`, `Forward`, `Unsubscribe` | the goroutine of `Games.Subscribe` |
| `ClickNew`, `ShowNew`, `TryMove`, `ShowRefusal`, `ClickResign`, `Receive` | `newGame` with `connect`, `tryMove` and its answer, "Concede", `onmessage` |
| `ServeCreate`, `ServeMove`, `ServeResign`, `EngineMove`, `PublishLate` | the handlers, the worker's write, `afterChange`'s publication, for a tab |
| `Start`, `TakeLock`, `CreateSchema`, `BootFails`, `Unlock`, `Sigterm`, `Stop` | `NewArchive` and `initSchema`; the mains |
| `CrashApi`, `CrashWorker`, `Expire` | a task stops or its context is cancelled; a key expires |

**Abstractions.**

* In the arena the engine is any choice among the moves `ApplyMove` accepts, or
  an error.
* In `Engine`, evaluations are any integers, fixed per position as they are for a
  given network, and the child PUCT selects is any child. Properties of the search
  therefore hold for every network, and nothing is said about its strength. Draws
  by repetition are unknown to the code's search, which sees a FEN only.
* `Positions` is the finite, prefix-closed set of lists the library can replay.
  It is larger than what may be played: the library does not stop at a draw by
  repetition or by the fifty-move rule, the code's `Status` does.
* `uuid.NewString` never repeats, so an id is issued once.
* The receive count of a delivery stands for its receipt handle.
* Strings, times, FEN, JSON and status codes are left out; `termination` is
  reduced to its origin.
* The subscription's own buffer in go-redis is unbounded in `Relay`; the library
  drops messages that stay in a full buffer for a minute.
* In `WebClient` a step of the server is atomic up to its write, as `Arena` shows
  that a write either continues what was read, or is refused, or is stored and
  answered with an error (redisLost). A refusal is any answer but 2xx. A free
  request slot is taken in a fixed order, as slots have no identity.
* `Get` and the local computation after it are one step. For a worker this puts
  the (long) search between `ChooseMove` and `WriteMove`, where everything else
  may happen.

## 3. Runs

The runs of the arena use `MCArena`. Its chess has two moves and seven lists: `<<>>`, `a`,
`b`, `aa`, `ab`, `aba`, `ba`. White mates with `a b a`, black with `a a`, and
`b` is a draw that leaves a legal move, so that `ba` can be replayed although
nobody may play it. Both colours can win, either side can end the game, and a
black player sees the engine move at two plies. That is every case the code
distinguishes: it reads a position only through the parity of its length,
whether a move is legal, and the outcome.

| run | fault kinds | shows |
|---|---|---|
| `races` | slow, expiry, redisRetry, redisLost, apiCrash, workerCrash, sqsSend | two handlers and two workers on one game: `TypeOK`, `RecordsCoherent`, `CopiesFit`, `MoveLogAppendOnly`, `MovedByItsSide`, `ImplementsGameLog`, `AckOnlySettled`, `ExpiredStaysExpired` |
| `replies` | workerCrash, redisDown, sqsDelete, slow, engine, expiry, pg | batches of two messages, and a player who may resign: `HandoffNotLost`, `ArchiveAgrees`, `RuledIsFinal`, and liveness `EngineReplies` |
| `endings` | slow, sqsDup, wsClose; nobody resigns | a watched game, doubled jobs: `StatsPartition`, `ToldIsPast`, `HandoffNotLost`, `AckOnlySettled`, `FinishedIsFinal`, and liveness `FinishedIsArchived`, `EventReachesBrowser` (shown, or the socket closed) |
| `tab` | wsClose, redisDown, redisLost | a tab, two games, two sockets, two requests in flight: `ListensToItsGame`, `MoveFitsScreen`, `ScreenGrows`, `ImplementsFanout`, and liveness `SocketsEnd` |
| `boot` | failing statements, SIGTERM, crashes | three tasks: `OneCreator`, `SchemaBeforeService`, `LockNotKept`, and liveness `TaskBoots` |
| `engine` | failing inference | `ReplyIsLegal`, `MateNotOverlooked`, `TreeConsistent`, `MaterialPlaysMaximin` |
| `resign_race` | none | a counterexample to `FinishedIsFinal` once a player resigns |
| `api_crash` | apiCrash | a counterexample to `EngineReplies` |
| `snapshot_gap` | none | a counterexample to `BrowserCatchesUp` |
| `relay_leak` | wsClose | a counterexample to `CancelUnsubscribes` |
| `refused` | redisDown | a counterexample to `RefusedMoveLeaves` |
| `underpromotion` | a board where only a knight promotion mates | a counterexample to `MateNotOverlooked` |

A run names exactly the failures under which it claims its properties, so the
table is also a statement about fault tolerance: the safety of the move log
survives everything, the hand-off to the engine survives crashing, failing and
slow workers, doubled jobs and failing deletes, and the archive row of a
game survives slow workers and redelivery but no crash and no database error.
(A worker that stops between the last write and `SaveFinished` leaves a finished
game out of the archive: its redelivered job is rightly dropped as stale, and
nothing else looks. The code calls the archival best effort.)

**Bounds.** One game is enough in the arena, as its games
interact only through a worker's batch (of two in `replies` and `endings`: copies of
the same job, or the jobs of two plies) and the
stats, where `StatsAddUp` covers every number of them. Two handlers and two workers give every
pairwise race; a game is at most three moves long. `MaxReceive` is 2 instead of
5: a job is received, redelivered and dead-lettered. `MaxBatch` is 1 or 2
instead of 5. `sent` needs no bound, as a game of bounded length sends finitely
many jobs. `races` uses symmetry among handlers and among workers: it checks
invariants and step properties only, which treat them alike. Liveness runs use
none. Deadlock is not checked, since the system rightly stops when every game is
over and every message gone, a tab when nobody clicks, and a call of `BestMove`
when it has returned; `boot` checks it.

`tab` has two games and two sockets, so that the tab replaces one socket by another
while events of the first are still under way; the channel holds one event, so that it
fills. Two requests may be in flight: in the lobby the user may press "new game"
again before the first answer, so that two answers compete for the screen and the
socket. Its remaining bounds are named constants, chosen to keep the run within
minutes: users play white (`Sides`; white wins with `a a a`), move in one of the
two games (`Played`), may press "Concede" after one move (`Conceded`), and only
requests for new games overlap (`Overlap`). The theorems `OneSocketIsHeard`,
`SocketsAreSessions`, `RecordGrows` and `MovesFit` have none of these bounds.

`MoveFitsScreen` says of every move that it is played in a continuation of the
position it was made in, and of White's that it is that position itself, unless the
user was hasty in this game. Both exceptions are the code's:

* White may move as soon as `newGame` has shown the board, before the handler of the
  socket has read its snapshot. A snapshot read before the move was
  served takes the move off the board, the board offers another one, and if it is
  sent before the state after the engine's reply arrives it is played there.
* When the engine begins, its first move can be written before the snapshot is read
  and published after the subscription is active, and so arrive twice. If Black
  answers in between, the second arrival takes the answer off the board (`onmessage`
  replaces the whole state), and a second answer is sent in the same way.

TLC finds either when the exception is left out of the property, without any
fault; White's is in the states of `tab`. No sentence of the repository promises
that a move is played in the position it was made in, so they are recorded
here and under `hazards` rather than in section 4.

`tab` leaves out one fault kind that would break it: with `overtake` (a process is so
late with its publication that others have read, written and published a later state)
the screen goes back to an older state. Nothing in the code orders the publications
of two processes, so this is what `ScreenGrows` and `MoveFitsScreen` rest on.

`engine` runs on five boards with a king move and a pawn that may promote to
queen or knight, two replies, and mate, stalemate and open positions at both
plies, under every evaluation with -1 and 1. Budgets 1 and 3 build the policy
engine and the search; three simulations reach the third ply (every sign) and
visit a finished position twice. `Horizon` is the depth at which the tree may be
cut off; a simulation descends one ply deeper at most than the one before, so the
search never looks beyond it.

**Fairness** (`Arena!Fairness`), weak and per process: a handler with a call to
make makes it, a worker with messages to receive or calls to make goes on, SQS
ends the visibility timeout of abandoned messages and redrives, and the relay
goroutine forwards. In the code each of these is a goroutine that does
nothing but wait for that call, or a loop that never exits (`Run`, the `select`
in `handleWS`). The call may fail where the run allows it. There is no
fairness on requests, players' moves, crashes, expiry, timeouts of messages
still being worked on, or closing of sockets.

In `WebClient` the handler's goroutine and the forwarder go on when they can
(weak), requests are answered and answers processed, and
`Unsubscribe` has strong fairness: with a message and a cancelled context both
ready, Go's `select` chooses at random, so the context is not passed over for ever.
In `Boot` a task goes on with its statements, a cancelled statement
returns, and `TakeLock` has strong fairness: Postgres queues the sessions that
wait for a lock. Nothing makes a task start, stop, fail or crash.

**What a mutant is for.** Every property of a passing run has one in
`PROJECT.json`: an operator next to the definition it changes (`CasIgnoresPly`,
`FailJobAcks`, `AfterPublishTurnFirst`, ...), with which TLC finds the property
violated.

## 4. What the runs disagree about with the repository

* **A resignation can be undone** (`resign_race`). `Resign` leaves `Ply` as it
  was, and `Ply` is all the conditional write compares. A move read before the
  resignation and written after it is accepted, and its record takes the place of
  the resigned one after "resigned" was answered. In TLC's trace the stale move ends
  the game in a draw; any other move makes the game ongoing again in the same way. A
  resignation that was archived stays in the archive, and that is the only way in which
  archive and store can disagree (`ArchiveAgrees`, in `replies`). This also holds for the engine's move, so a
  worker does not "drop" a job of a game that ended while it was searching.
  `RecordsCoherent` and `CopiesFit` hold nevertheless: each stored record is
  sound, only the resignation is lost.
* **An api task that stops between write and enqueue strands the game**
  (`api_crash`). Nothing looks for games that wait for the engine. A failing
  `SendMessage` has the same effect.
* **A browser can miss a move for good** (`snapshot_gap`), if it is published
  between the read of the snapshot and the subscription.
* **A session can leave a goroutine behind** (`relay_leak`). The forwarder's send
  into the channel does not look at the context. When the handler has returned,
  nobody empties the channel, and if it fills before the forwarder's `select` has
  picked the cancelled context, goroutine and Redis subscription stay until the task
  ends. It takes 16 events and some luck; `SocketsEnd` says that this is the only way.
* **A refused move stays on the board** (`refused`). The answer to a refusal sets the
  state to a copy of itself, and that still has the fen and the turn of the
  optimistic move. The board offers no move until a message comes over the
  socket. After a failed write none need come. Reloading the page, as the text for
  a lost connection advises, leads to the lobby, as the page keeps no id.
* **A mate by underpromotion is overlooked** (`underpromotion`). The mate probe
  tests every promotion piece, but its answer goes through the policy index,
  which always comes back as a queen. The README names the folding as a
  tradeoff of the network; the probe's comment promises that no immediate mate
  is missed.

## 5. Proofs

The theorems hold for every number of handlers, workers, browsers, tasks, requests
and games, every chess (`Positions`, `Outcome`), every `MaxReceive`, `MaxBatch` and
`Capacity`, and, where no hypothesis is named, every set of faults.

| theorem | property |
|---|---|
| `ArenaSafetyProofs!TypeCorrect` | `TypeOK` |
| `ArenaSafetyProofs!CopiesAlwaysFit` | `CopiesFit` |
| `ArenaSafetyProofs!AppendOnly` | `MoveLogAppendOnly` |
| `ArenaSafetyProofs!ExpiredForGood` | `ExpiredStaysExpired` |
| `ArenaSafetyProofs!Refinement` | `ImplementsGameLog` |
| `ArenaJobProofs!CoherentRecords` | `RecordsCoherent` |
| `ArenaJobProofs!SidesMoveThemselves` | `MovedByItsSide` |
| `ArenaJobProofs!AcknowledgedWhenSettled` | `AckOnlySettled` |
| `ArenaJobProofs!HandoffIsKept` | `HandoffNotLost`, without apiCrash, sqsSend, redisLost and redisRetry |
| `ArenaJobProofs!StatsAddUp` | `StatsPartition`, for finitely many games |
| `ArenaEndProofs!ToldStaysTrue` | `ToldIsPast` |
| `ArenaEndProofs!RuledForGood` | `RuledIsFinal` |
| `ArenaEndProofs!FinishedForGood` | `FinishedIsFinal`, if nobody resigns |
| `ArenaEndProofs!ArchiveAgreement` | `ArchiveAgrees` |
| `WebClientProofs!TypeCorrect` | `TypeOK` of `WebClient` |
| `WebClientProofs!OneSocketIsHeard` | `ListensToItsGame` |
| `WebClientProofs!SocketsAreSessions` | `ImplementsFanout`, with wsClose |
| `ScreenProofs!RecordGrows` | `ScreenGrows`, without overtake |
| `ScreenProofs!MovesFit` | `MoveFitsScreen`, without overtake |
| `BootProofs!CreatorsExclude` | `OneCreator` |
| `BootProofs!TablesBeforeService` | `SchemaBeforeService` |
| `BootProofs!NobodyKeepsTheLock` | `LockNotKept` |
| `EngineProofs!RoundTrip` | a legal move comes back from its index with its promotion folded |
| `EngineProofs!OnlyPromotionsShareAnIndex` | two moves share an index only by their promotion piece |
| `EngineProofs!BestMoveIsLegal` | `ReplyIsLegal`, for every board, network and budget |
| `EngineProofs!MatesArePlayed` | `MateNotOverlooked`, if folding a promotion keeps every mate a mate |
| `EngineProofs!MaximinIsPlayed` | `MaterialPlaysMaximin` |
| `EngineProofs!SearchAddsUp` | `TreeConsistent` |

**Assumptions**, each named in the module that declares its constants and
evaluated by TLC: `RulesAssumption` (what the code relies on in the chess
library: prefixes of replayable lists are replayable, a position that is not over
has a legal move, the start is not over), `QueueAssumption`,
`FaultsAssumption`, `RequestsAssumption`, `CapacityAssumption`, `UserAssumption`, and that `Absent`, `NoRow`,
`NotStarted`, `Gone` and `NoTask` differ from the values they stand beside;
for the engine, `EngineAssumption`, `BoardsAssumption` (a board is a finite set of
lines of moves, cut off only at the horizon) and `MovesAssumption` (a legal move promotes exactly on a
last rank, and a pawn that may promote may promote to a queen).

**Argument.** `GameProofs` shows what `NewGame`, `ApplyMove` and `Resign` return.
`TypeStep` goes action by action through `Next`. Append-only is not inductive: it
needs to know about every copy in flight. `CopiesFit` says that a copy at
`"update"` was read no later than the stored ply, and that if its `prev` still
equals the stored ply then it continues the stored list by one legal move (or
repeats it, for a resignation). It is inductive together with `TypeOK` because
the stored list changes only in a write: a write with a new ply makes every
other copy late (`prev` becomes smaller than the stored ply), a write with the same
ply keeps the list (`FitsStable`). Each accepted write then extends the list
or keeps it, which gives `AppendOnly`, and with `ExpiredForGood` (a key is
created only under an id not yet issued, and an update needs an existing key)
every step is a step of `GameLog` or a stutter, which is `Refinement`.

`ArenaJobProofs` adds `JobsFit`: what a handler, a worker and a message know about
their game at each point of the code. A job belongs to a game that has reached
the job's ply, and its ply is one at which the engine moves; a worker at
`"update"` holds a copy one ply past its job; from `"publish"` on its job is
settled; a receipt whose message is still stored has that message's job. None of
this is inductive alone: a job can only be known to be settled because the
stored ply never goes down, and the ply never goes down because each copy in flight
fits, which is why `JobsFit` is proved together with `TypeOK` and `CopiesFit`. The
proof does not go through pairs of processes. `Keeps` says what a step may do to
the stored games (nothing, forget one, create a fresh one, or a write that keeps
the player's colour and either adds a ply or finishes the game), `QueueKeeps` what
it may do to the queue; each action is shown to be such a step, and everything in
`JobsFit` to survive such steps. Then each theorem is one step: a deletion
comes from `Ack` or `DropStaleJob`, where the job is settled
(`AcknowledgedWhenSettled`); a write at the engine's turn cannot come from a
handler, as its copy would have the wrong parity (`SidesMoveThemselves`); and when
the engine comes to be on move the writer is a handler that has `Enqueue` before
it, whose message then stays until it is settled (`HandoffIsKept`). The
four hypotheses of `HandoffIsKept` are the ways in which a stored move has no
handler that goes on to `Enqueue`, or one whose `Enqueue` fails; `api_crash`
shows what becomes of a game without the first.

`WebClientProofs` keeps a similar invariant per socket (`Fits`): nothing happens before
the handler runs, a running handler's socket has been opened, and the context is
cancelled only when the browser is gone. Moving an event from the subscription to
the forwarder's hand and on to the channel leaves their concatenation as it is,
so these steps are stutters of `Fanout`. `SocketsAreSessions` needs the
fault wsClose since `connect` closes a socket, which `Fanout` calls `CloseWS`.

`ScreenProofs` follows a state from the write to the screen. `Coming` is what is on its
way to the tab, the snapshot first, and each step of a socket either leaves it alone,
takes its first, puts one behind its last or ends it. That the screen does not go back
needs two facts (`OrderInv`): whatever was written, is coming or is shown is a prefix of
the stored list (`GamesKnown`), and it comes in the order of the writes (`Ordered`). The
order could break at the snapshot only, which may have been read after the write of a
state that is published later. It does not, because a game whose player has no socket
yet (`Waiting`) has at most the engine's first move, or is that of a hasty player
(`WaitingFits`): this one has asked for at most one move, the game's first
(`HastyFits`), and his board, which shows it and offers no other, has still the empty
record, of which every list is a continuation. Of two prefixes of one list the one that
is not shorter continues the other (`PrefixesCompare`), which is `RecordGrows`.

`MovesFit` says for everybody that a request's move was made in a prefix of the stored
list, as the screen is one and the stored list only grows. The position itself, for a
White player who is not hasty in that game, rests on `TurnInv`: an offer to the player
to move is a written state, a coming one, the screen, or a request that has taken it up,
and at any time there is at most one of them, about the stored list of moves. A step of
the engine makes one when there is none, since then it is not the player's turn in any
of them; from there on it is handed over, never copied. With Black it is copied where
the engine's first move is both in the snapshot and still to be published; with White no
such state is the player's turn, which is where the proof uses the colour. Both theorems
are about resignations, refusals, lost sockets and failing writes as well.

`BootProofs` needs to know that a task between lock and unlock holds the lock.

`ArenaEndProofs` adds `ToldFits`: everything a handler or worker is about to tell,
every event and snapshot on its way, every screen and every row of the archive is
`Past`, a state of an issued game whose moves are a prefix of those stored. It is
inductive because whoever tells a state has just read or written it, and by
append-only it remains a prefix. A record the rules have ended is determined by its
moves and its player's colour (`WholeRecord`) and has no legal continuation that a
copy in flight could hold, so it is final (`RuledForGood`). A resignation leaves the
moves as they are, so it is not: `FinishedForGood` assumes `"resign" \notin Requests`,
which is the configuration of `endings`, and `resign_race` shows that it needs it.
`ArchiveAgreement` needs no such hypothesis. A row that the rules have ended is a
prefix that has no continuation, hence the whole list and, by `WholeRecord`, the whole
record. A row of a resignation is either the stored record's or a shorter or
overwritten one's, which `KeptResignation` describes; it can be no record
that the rules had ended, since nobody can resign from one (`Coherent`).

`BestMoveIsLegal` needs no strengthening beyond the board being one of `Boards`:
each return goes through `RoundTrip`. `MatesArePlayed` has the hypothesis
`MatesSurviveFolding`, true of the boards of `engine` and false of the one of
`underpromotion`: the search starts only where the probe found no mate, and what
the probe found is a mate after folding, too. `MaximinIsPlayed` compares the
negamax of `material.go`, a recursive function over lines of at most two moves, with the
reference by unfolding it twice; that a finite set of scores has a largest one is
`LargestValue`. `SearchAddsUp` goes by `TreeInv`: the walk has come through
expanded nodes, ancestors of expanded nodes are expanded, and below a node that is not
expanded nothing was visited. `Simulate` then changes the two sums of each node on the
path at one child only, by the value that the path passes on to it (`BackpropagateSums`).

The sums of `TreeConsistent` are folds over finite sets, whose definition chooses an
element and recurses on the rest. That such a fold exists, unfolds at any element
and does not depend on the order is proved by least counterexample
(`WFMin` on the naturals, then `SmallestSet`), which needs no induction
theorem with an operator as parameter.

**Only model-checked**: liveness, which TLAPS does not reach (`EngineReplies`,
`FinishedIsArchived`, `EventReachesBrowser`, `TaskBoots`, `SocketsEnd`).

## 6. Not modelled, and why

* The input planes of the encoding: a translation table without state, whose
  only check would be its own text.
* ONNX inference and the export script: floating point in a foreign library.
* Static files, drawing (the board, the record of play, `SearchTree.jsx`), the stats line,
  deployment scripts, load tests: no state of their own.
* Messages whose body is not a job (deleted by `Receive`): no code sends one.
* go-redis dropping messages when its own buffer is full for a minute; it would
  be a further way to the gap of `snapshot_gap`.
* The error line, the selected square, and the read-only handlers (`handleGet`,
  `handleStats`, `handleVersion`, `handleHealthz`), which change nothing.

## 7. Plan

1. Done: the services, the two processes, the arena, the game log; the engines and
   the encoding; the sockets, the tab and the boot protocol; type correctness,
   append-only, refinement, coherence, sides, acknowledgement, hand-off, stats, the
   sockets' refinement, and the boot protocol's safety proved.
2. Done: every invariant and every action property of the passing runs is proved.
3. What would add most: `HandoffIsKept` says what is still there for the engine to
   reply to, and `EngineReplies` that it does; between the two, that a message is
   received at most `MaxReceive` times before it is dead-lettered, and that each receipt
   ends, are safety properties and could be proved.
