# Synaptex Protocol: verification development

TLA+ specifications of the protocol's own logic, model-checked with TLC on
small instances, and theorems about them checked by TLAPS for all values of
their constants. Paths are relative to the repository root.

## 1. The system

AI agents compete in *seasons* of virtual trading. A Node process (the arena
engine) polls the market, asks every agent for signals cycle by cycle, and at
the end of a season computes weights and a Merkle root. A settler contract
records the result and sets the weights in a staking vault, where users who
staked ARENA on agents claim their parts. Beside this, users pay agents for
single *tasks* through an escrow contract.

| component | state it keeps | operations | talks to |
|---|---|---|---|
| `SimpleTaskEscrow.sol` | tasks by id, used result hashes, fee, treasury, limits, pause | fund, deliver, release, refund, setters | token (transfer) |
| `ArenaVault.sol` | stakes per season, agent, user; weights; claim flags; settler and its lock | stake, setSeasonWeights, claim, claimAgent, claimAgents, setters | token; called by the settler |
| `SeasonSettler.sol` | results by season, vault and its lock, NFA, pause | submitSeasonResult, setters | vault, NFA; called by the submitter |
| `AgentNFA.sol` | tokens by agent key, reputation, season counts, authorized settlers, ERC-721 state | mint, updateReputation, approvals, transfers, agent data, identity roots | called by the settler and the registrar |
| `AgentAccount*.sol` | authorized callers per owner; accounts by salt | execute, executeCall, rescue, createAccount | any contract |
| `LearningRootOracle.sol` | cycle roots, count per season, pause | submitCycleRoot | called by the learning submitter |
| `SynaptexToken.sol`, `Ownable.sol` | balances, allowances, cap; owner, pending owner | ERC-20, mint; two-step transfer | – |
| arena engine: `arena-engine.ts`, `season-manager.ts` | season (also `season_current.json`, `seasons/`), agents with their signals, timer; appends `cycle_commitments.jsonl`, rewrites `leaderboard.json` | registerAgent, start, stop, cycle, settle | agents, hooks, market poller |
| agents (`agents/*.ts`) | consecutive failures, disqualification | decide with a timeout | webhooks, child processes, LLMs, IPC |
| virtual portfolio, leaderboard, softmax, Merkle root | cash, positions, trades | applySignal, rank, weigh, hash | called by the engine |
| season submitter, alerts (`cli/src/arena/season-submitter.ts`, `cli/src/ops/`) | dead letters, receipts, alert windows | submit with retries, notify | HTTP endpoint or `cast` |
| learning submitter, `arena sync-learning` | replay cursor | submit, replay | oracle, commitments file |
| identity registrar | receipts | ensureAgent (mint, create account) | NFA, account registry |
| task API and worker (`routes/tasks.ts`, `workers/task-worker.ts`) | `tasks.json` | create, deliver, release, refund; poll and work | escrow (by the client), LLMs |
| agent registry API, SIWE, idempotency | registry, nonces, sessions, idempotency records | register, update, sign in | engine |
| webhook registrations, log routes, vault route | `webhook_agents.json`; nothing; nothing | register, remove; pages; read the vault | engine, log files, chain |
| server and broadcaster (`server.ts`, `ws/broadcaster.ts`) | open connections | connect with a token, broadcast | called by the engine's hooks |
| arena CLI (`cli/src/commands/arena.ts`, `cast-signer.ts`) | nothing of its own | preflight and start, bootstrap-onchain, sync-learning | builds the submitters and the registrar |
| IPC client, Python server | requests awaiting an answer; last trade times | snapshot, health, recordTrade | each other over TCP |
| scheduler, decision gate, market poller, executors | running cycles, price cache | poll, check, decide, execute, record | Python, models, venues |
| strategies, mixer, backtest (Python) | what a strategy remembers between calls | generate signals, merge, fill | the Python engine |
| web front end | – | views | the API |

Behaviours that are hard here:

* **money**: the escrow and the vault each pay everything out of one balance;
  ids that do not exist read as valid zero records; payouts round;
* **interleaving**: engine cycles overlap because the interval timer does not
  wait for the previous one, and one cycle may settle the season that others
  are still working for; agents are replaced under running cycles; hook and
  replay submit the same row; request handlers rewrite whole files;
* **crash and restart**: every settlement and cycle is several file writes;
  submissions may land although the caller sees an error;
* **ordering and time**: deliver, refund, release and auto-release around two
  deadlines; fees and settings changed under running tasks; weights against
  late stakes; replies and timers on one socket; ids made of the clock;
* **shared objects**: one portfolio, one failure count, one meta and one
  strategy object serve calls that overlap, or agents that know nothing of each
  other.

What makes each component correct is in `PROJECT.json` under `hazards`, each
at its line with the properties that cover it, and in section 3.

## 2. Modules

```
TaskPromise  <-- implemented by --  TaskEscrow  <-- TaskEscrowProofs
    ^                                   |               |
    | INSTANCE                       NatSums  <--  NatSumTheorems
BoardChain  -->  TaskBoard  <-- TaskBoardProofs
VaultView  -->  ArenaVault  <--  SeasonSettlement  <-- ArenaVaultProofs
ArenaEngine | LearningSync | SettlementSubmit                   <-- ArenaEngineProofs
AgentIdentity | ArenaApi | LogPages | Standings | Startup       <-- AgentApiProofs
AgentCalls | IpcClient                                          <-- AgentCallsProofs
TradingLoop | Strategies | StrategyMixer | Backtest             <-- TradingLoopProofs

MCContracts         = TaskEscrow | ArenaVault
MCSeasonSettlement  = ArenaEngine | SettlementSubmit | SeasonSettlement
MCLearningSync      = LearningSync | ArenaEngine
MCTaskBoard         = TaskBoard | AgentIdentity
MCAgentCalls        = AgentCalls | IpcClient
MCArenaApi          = ArenaApi | LogPages | Standings | Startup
MCTradingLoop       = TradingLoop | Strategies | StrategyMixer | Backtest
```

A bar means *side by side*: a variable `part`, chosen at the start, says which
module moves while the others rest. The parts share no variable, so their product
would show nothing more. Where one part hands something to another (the
payload of a settlement to the submitter, the weights to the settler) the
receiver takes it from all it may be handed.

**TaskEscrow** is `SimpleTaskEscrow.sol` with the token balances. One action
per external function; a transaction is atomic, so an action is enabled just
when no `require` on its way fails. `tasks` is total, like a Solidity mapping:
an id that was never funded is a FUNDED task of amount 0. `Tick` moves
`block.timestamp`. The treasury may be any account, the escrow included.
**TaskPromise** is what it promises: a sealed box per task that is opened
once, for the taker or for the poster.

**ArenaVault** is `ArenaVault.sol`. Weights arrive as a sequence of entries in
which an agent may repeat, as in the two arrays of `setSeasonWeights`. The
three claims share `PayFor`. `received` is a history of what users were paid.
**SeasonSettlement** composes it with `SeasonSettler.sol` and the reputation
counters of `AgentNFA.sol`: `SubmitSeasonResult` contains the vault's
`SetSeasonWeights` and is enabled only when the inner calls are.
**VaultView** is `routes/vault.ts` over the vault: two rounds of calls with
blocks in between, each named by the selector in the source; a call that fails
reads as zero. `Answered` are the selectors of the getters' signatures.

**ArenaEngine** is the process of `arena start`. A step is what Node runs
between two awaits: the end of `getSnapshot` (`BeginCycle`, `Settle`), one
agent's answer, the end of `Promise.allSettled` (`CompleteCycle`). `flight`
holds the cycles that await agents, `held` which `AgentState` object each cycle
picked up. Where one step writes several files, `WroteCycle(c, k)` and
`WroteSettlement(k)` give the files after the first k writes, and `DiedIn...`
ends the process there; `TornSeasonFile` ends it inside the write of
`season_current.json`, which `load()` then discards. The season in memory and
on disk is one variable because every change is saved in the same step.

**SettlementSubmit** is `season-submitter.ts` and `alert-notifier.ts`. A post is
one run of the HTTP loop: an attempt may arrive although its answer is not seen.
The on-chain mode is one `cast` call, which may fail although it was mined.
`ToWeightsWad` is the conversion with its remainder; `Softmax` is the relation
between results and weights, not the exponentials. `Fate` is what the alert
guard and the router make of a call of `notify`, in their order.

**LearningSync** is the way of a commitment to `LearningRootOracle`: the
engine's hook and `arena sync-learning` both ask `hasCycleRoot` and then send,
as two separate steps. A call may fail, or land while the caller sees an error.

**TaskBoard** is the task API with its file and its worker. A
route reads, changes and writes the file without an await, so it is one
action. `polls[p]` is what a poll has listed and not worked off: between the
list and the answer anything may happen to the file. `calldata` is a history of
what the routes handed out. Left out: requests the routes refuse, for these change
nothing; what an answer says, only whose it is (`uid`); amounts; and clients who
answer another task than they mean to. **BoardChain** adds the chain: clients send
each call once, in any order, or never, under the selector that `tasks.ts` writes
out (`SEL`); a call whose selector is not among those of the compiled contract
(`MethodIds`) reverts. The contract is TaskPromise, which TaskEscrow is shown to
implement, with ids that count up with funding.

**AgentIdentity** is the ERC-721 part of `AgentNFA.sol`, `AgentAccount.sol`,
its registry, and `agent-identity-registrar.ts`. Accounts are addresses: they
own tokens and act through `execute` when somebody with a say in them acts
(`Sends`, chains of up to two). The registrar's calls of `cast` are one step
each and may fail or land unseen. It is fair to the registrar only.

**AgentCalls** is one agent of any kind over overlapping cycles: `decide` with
its outside party, `applySignal` on the shared `VirtualPortfolio`, and the
replay row. `Decided` gives what each kind leaves when a call ends well, fails
or is answered by JSON of another shape. Each cycle of an sdk agent that has no module
yet loads it first, before its timer is set. A position that a sale leaves below
`Dust` is thrown away. An internal agent's signals are not sanitised: their amounts
may be zero or less. **IpcClient** is the bridge of the internal agents: `pending`
is `pendingRequests`, a map from ids to calls; a later call with an equal id
replaces an earlier one's callback and not its timer. A reply that the callback
cannot read leaves its call `dropped`: the timer is stopped, and nothing settles it.
The server answers one line at a time and may restart.

**ArenaApi** is the stores behind the API: nonces and sessions, registry,
idempotency records, webhook registrations, and the roster `arena start` builds
of them. A handler is a sequence of file writes (`ws`), done in one step or cut
by a death after some of them, perhaps with the next file truncated.
**LogPages** is a client that turns the pages of an append-only file counted
from its end.
**Standings** is how the agents of a season stand: the live leaderboard with the
thresholds of `arena.yaml`, the final one with the settlement's own, the file
that both are written to, and the viewers, to whom the hooks broadcast in the
step that writes the file. A viewer without the token stays in the server's list
while its connection closes. Cycles are slots with the agents they still wait
for; an agent that is replaced or removed under a cycle drops out of it, because
no leaderboard reads the old object again. Softmax is a relation: nothing to
invalid agents, a better one no less than a worse one.
**Startup** is one command, run in any environment: `arena start` with
`collectPreflightIssues`, `bootstrap-onchain`, `sync-learning`. Each builds its
parts, every part resolves a signer on its own, and what is built may then send
transactions, agent by agent and row by row; `txs` is a history of these.

**TradingLoop** is the loop of `cli/src/index.ts` with `cron-engine.ts`, the
poller's cache, the Python risk manager, the decision gate and five executors,
each by what its `execute` may come to. A cycle is cut at its awaits. An order has
the amount decided and what the venue is told to trade, in dollars (`worth`): 0x
and MoonPay sell as many units of the token as there are dollars, at the token's
`UnitPrice`, which is fixed; the other venues trade the dollars. The portfolio it
trades against is the default one, since nothing writes `state/portfolio.json`.
**Strategies** are the sixteen classes of `python/strategies`: a *reading* says
which of the conditions a strategy computes hold, and one object serves all agents
and seasons. The rebalancer weighs every target of its configuration, whether its
price was seen or not, and counts the stable and the native balance beside
positions. **StrategyMixer** and **Backtest** are `mixer.py`, to which each
strategy answers a list, and the fills of `backtesting/engine.py`.

**NatSums**, **NatSumTheorems**: sums over 1..n and the facts used in proofs.
**...Proofs** modules hold the theorems, for the modules that the diagram shows
beside them; the theorem modules of the library are used for sets and sequences.
**MC…** modules give constants that a .cfg cannot write, symmetry, and the
side-by-side specifications. Two properties of runs are named there:
`CallsEnd` (MCAgentCalls) and `StrategiesKeepWord` (MCTradingLoop), which put
together what the parts promise. All others belong to the module of their
part, where the theorems find them too; a part at rest keeps them.

Operators whose name ends in `Mutant…` are not part of the specifications: each
is a plausible mistake in the definition that follows it, and shows that a
property can fail.

## 3. Runs

| run | bounds | shows |
|---|---|---|
| `escrow` | escrow: 2 users, 2 tasks, 2 result hashes, every fee rate and delay from 0 to beyond what the setters accept, 4 time units. Vault: 2 users, 3 agents for a list of 2, 3 entries per call, WAD = 3 so that weights and payouts round | `EscrowSound`: the escrow holds what open tasks lock, unknown ids stay zero, results are unique, locks are bounded; `FundsSafe`: every account is whole, and a task can always be ended once its time has come; `EveryTaskSettles` when those who gain act; `KeepsPromise`: refinement of TaskPromise. `VaultSound`: stakes add up at three levels, each part is paid once, a claim misses nothing, lists are bounded, the balance covers the rest; `SettledIsFrozen` |
| `season` | engine: 2 agents, 2 registrations per process (both agents, or one that is replaced), 2 overlapping cycles, 2 seasons, 2 processes. Submitter: 1 season, 2 attempts, 2 agents, 3 alerts. Contracts: 2 seasons, 2 vaults, 2 settlers | `SeasonsApart`: rows and roots have only their own season; `BooksSurvive`: deaths between writes lose at most the write they hit; `ArchiveIsFinal`; `SettleCoversCommitted`. `SubmissionSound`: a submitted settlement is there, a failed one is in the dead letters and notified, and the vault accepts the weights; `AlertsSound`: what silences an alert is short, and floods are cut. `SettlementSound`, `RecordedWithWeights`: settler, vault and reputation move together, and seasons do not pay for each other |
| `sync` | 2 rows (3 lines with the empty one), limit 2; engine: 1 agent, 2 registrations, 2 overlapping cycles | no double count; the cursor passes only rows on chain, save the row that later takes the place of an empty last line; the backlog is recovered; the engine settles expired seasons and commits the cycles it began |
| `board` | board: 2 tasks, 2 overlapping polls of 1 task each (3 in the code, against any number of tasks). Identity: 2 users, 2 agents, 1 registrar, 1 grant at a time | `BoardSound`: an answer reaches the task it was worked out for, and the calldata handed out for a task never contradicts itself; `AnswerIsFinal`: once and for good; `EveryTaskAnswered`, or refunded. `NfaBooks`: the ERC-721 books agree and approvals end with a sale; `LogIsTrue`: the registration log; `EveryAgentRegistered` once a registrar was started |
| `agents` | 5 kinds, 3 overlapping cycles, prices that halve, double and vanish; sales that leave less than the dust of 2 units; 3 IPC calls, 2 ids in time | `TradesConserveValue`: trades make no value, lose none but dust, and but for internal agents spend what is there; struck out stays struck out for later calls; a row's meta is of its own or an overlapping cycle; replies belong to their calls; `CallsEnd`: every call that asks ends, unless the bridge drops its reply |
| `api` | files: 2 wallets, 2 ids, 2 keys of which 1 is remembered, 2 nonces, 1 death, 3 changes; 6 log rows; standings: 2 agents, 2 returns, 2 registrations or removals, 2 cycles at once, up to 3 signals each (the settlement's own threshold), 1 viewer; startup: every choice of modes and signers, with one other setting missing or wrong, 1 or 2 agents | a nonce is good for one attempt, a key for one effect; the engine has the webhooks of the file; pages leave no gap. `StandingsSound`: viewers were told what the file says, and the paid stand in the order of their weights. `StartsEquipped`: no transaction without a node, a complete signer, and addresses; the preflight overlooks three settings and no other |
| `trading` | 2 overlapping cycles of up to 2 signals, 4 venues, 1 restart; 2 agents on each strategy; 2 mixed strategies of up to 2 signals each, 3 in all; 4 bars | cooldown and recording hold; `LargeOrdersApproved`: without a model no order is of another amount than asked or above the limits, nor worth more where the venue trades dollars; every cycle ends; `StrategiesKeepWord`: runs of one side stay short, sales have something behind them, merged signals are one-sided; a fill costs what it says |
| `sync_cursor` | violation | the row that takes the empty line's place is never replayed |
| `engine_root` | violation | the season's root misses signals of cycles in flight at settlement |
| `board_calldata` | violation | the board's calldata carries selectors the escrow does not have: a fund call sent in time reverts |
| `trading_units` | violation | a sale within the approval threshold trades for its amount times the token's price |
| `vault_view` | violation | the API shows a settled season as open, since its selectors are not the getters' |

The bounds: two of everything that can race (users, agents, cycles, seasons,
processes) and one more where a limit must be exceeded (agents against the
cap, lines against `--limit`, cycles where an agent must be struck out between
two calls). Amounts are small, but chosen so that integer division leaves a
remainder. Times are a few ticks around each deadline, each tick standing for
"before", "at" and "after". In `season` the engine polls the market once at a
time; `engine_root` and the deaths do not need more. There, routes of alerts
vary only in the mode in which nothing is submitted, for routing does not touch
the submission. In `trading` the 0x executor is left out, for what it may come to is
what MoonPay may come to, without the simulation; `trading_units` has it.

Deadlock is checked where the system cannot stop (`escrow`,
`board`); elsewhere a bounded number of calls, processes or rows ends.
Symmetry is used in `season` (agents) and `api` (wallets, keys, entrants) only,
where no liveness is checked.

### Fairness

* `TaskEscrow.SelfInterest`: block time advances; a poster or taker whose own
  money is at stake and who *can* end the task does so. Nothing is assumed of
  the owner or of strangers. The code gives both parties that right, and that
  is what the property tests.
* `ArenaEngine.EngineFairness`: the interval timer fires; Node runs what is ready;
  every agent's `decide` ends, which `CallsEnd` of `agents` shows for calls that
  ask. It is an assumption in two cases that the code does not exclude: the module
  of an sdk agent that never finishes loading, and a reply of the bridge that
  cannot be read (section 5) hold their cycle for good. A market poll
  succeeds now and then (strong fairness on `BeginCycle` and `Settle`). Nothing is
  assumed of stops, deaths or registrations.
* `AgentCalls.Fairness`: timers fire and continuations run; nobody has to answer.
  Nothing makes a module load: the import is awaited outside of the timer
  (`sdk-agent.ts:77`, `:113`). The prompt agent has no timer of its own and relies
  on that of Node's `fetch`. `IpcClient.IpcFairness`: timers fire.
* `TaskBoard.FairSpec`: the worker's interval timer fires; calls of the language
  model have a timeout or fail, so each listed task is worked off; for no task
  do they fail for ever, and the process stops crashing at some time. The third
  is an assumption about the provider that the code does not enforce: three
  tasks that always fail hold back all that come after them until they are
  refunded. Nothing is assumed of clients.
* `LearningSync.Fairness`: the runbook's "run repeatedly"; for no row does
  the RPC fail for ever; from some time on the command is run without
  `--reset-cursor` and not killed with unsaved progress. In `sync` it is asked
  only of behaviours in which the sync is the part that moves.
* `AgentIdentity.RegistrarFairness`: the commands are run again; every call ends; from
  some time on a call fails only when it must.
* `TradingLoop.Fairness`: calls end: an answer, the IPC timer, or the HTTP
  client's; then the cycle goes on.

## 4. Proofs

Every safety invariant and every action property of the runs is a theorem, for
all values of the constants, except `TradesConserveValue`. A theorem is about
the specification of its part; the run checks the same definition on a small
instance.

**Escrow** (`TaskEscrowProofs`), for any sets of users, hashes and amounts, any
settings and any number of tasks. The inductive invariant is `TypeOK`,
`UnknownIdsUntouched` and `Solvent`: a refund of an id that was never
funded moves amount 0 and so costs nothing, and this is why solvency is not
inductive without the second conjunct. Each money step changes one summand of
the locked total, and `SumUpdate` says by how much the sum changes. For
`ResultHashUnique` and `BoundedLock` the invariant also records that every hash
held by a task is in `usedResultHashes`. `EscrowAlwaysSound` puts them together.
`FundsAlwaysSafe` needs besides that the parties of a funded task are accounts
the token accepts (`PartiesInv`), and that no fee the owner may set leaves a
taker less than `LeastNet`: what a user spent and earned are two more sums of
which a step changes one summand (`AccountMoves`). That a task can be ended is
stated by the guards of refund and release (`Refundable`, `Releasable`), for the
prover does not know ENABLED.
`ImplementsPromise` maps each step to a step of TaskPromise or to a stutter.

**Vault and settlement** (`ArenaVaultProofs`), for any users, agents, seasons,
stakes and weights. That the one balance covers what is owed is not inductive
alone. The invariant adds that a season not yet settled has no weights and no
claims (`Fresh`), that the weights of a season sum to at most the whole
(`Weighed`), and that only listed agents have stakes (`Listed`). Then floor
division makes each agent's payouts sum to at most its weight's part of the
pool, and those parts to at most the pool (`PoolCovers`); a claim lowers what is
open by exactly what it pays, by agent or for the whole season. Before a
settlement a stake raises pool and balance alike. `SettlementAlwaysSound` is the
same over the steps of the settler, whose step contains the vault's, with the
count of scored seasons beside it; `RecordsStayTogether` is about each step.

**Engine** (`ArenaEngineProofs`), for any agents and bounds. The invariant ties
what a process holds to its one season: every cycle in flight, and every
signal an agent still holds, began in the season of now, since a new season needs
a new process (`FlightInv`, `RowsInv`); an ended season is no longer active
(`EndedInv`). Losses are counted: rows are ahead of the counter, and seasons are
given up, by at most `torn` (`RowsCounted`, `SeasonsCounted`). For
`SettlementsCover` objects of agents are numbered anew, so that an object still
in place has the signals of all cycles that hold it (`CoverInv`).

**Replay** (same module), for any number of rows and any limit. The
invariant adds `Behind(cursorFile)` and `Behind(sync.cursor)`: the saved cursor
takes its value from a scan, so the scan must satisfy at every point what the
cursor promises afterwards. `ScanAlwaysSound` is the run's `ScanSound`. That
the hook reports no root that is not on chain is shown here only.

**Submitter and alerts** (same module), for any seasons, attempts, agents and
windows, and any `Wad`. `SubmissionsAlwaysSound` rests on the conversion: for all
weights that softmax may return, the rounded weights with the remainder, which one
agent gets, sum to exactly `Wad`, and none is negative. `PostsInv` says of each
season's post how many of its attempts may have arrived, and that one which
failed is in the dead letters and in the alerts. What silences an alert is short
because a key is kept away only by an earlier alert of that key that came as far
as the limit (`Noted`), and a window stops only calls after `RateMax` others
(`WindowCounts`); hence `Silenced`. A span of a window's length meets at most two
windows, which gives `SpansBounded`, and with it `AlertsAlwaysSound`.

**Board** (`TaskBoardProofs`), for any number of tasks and polls of any length.
`AnswerFitsTask` is not inductive: a poll answers under an id it listed long
ago. The invariant adds `Listed` (what a poll holds still stands in the file
under that id), which rests on `IdsUnique` and on the worker ending with the
server when the file is lost and ids start again. `BoardAlwaysSound` adds the
calldata: what was handed out is never ahead of the record (`CallsInv`), and while the
file was never lost ids count the tasks created (`InOrder`), so that an id is one
task's. `AnswersStay` adds that only delivered tasks have an author.

**Identity** (`AgentApiProofs`), for any number of agents, users and
registrars. `TokensInv` says how far minting has come; a step changes at most the
two tokens' owners that a balance counts. What a registrar has read of a key stays
true because keys are never freed (`KeysStay`), and so its log is.

**API** (same module), for any wallets, ids, keys and number of deaths. Each
conjunct of `ApiInv` is about one file, whole, or lost when a death truncates it.
A session's nonce was tried, and a nonce still unused was not (`SignInInv`: the
handler writes the nonce before it answers); a registered agent was registered
with a session (`RegistryInv`); a key that worked is on record, or its record was
lost (`KeysInv`); the engine has the webhooks of the file (`HooksInv`). `PagesInv`
says that the client has read every row between the end of its pages and where it
began. *Standings*: the invariant is the property with the shape of the viewers'
records. `FinalInOrder` draws the order of weights from the order of returns,
which ranking and settlement each compute; `ToldOfFile` and `ViewerMoves` say what
a broadcast and a change of connections leave. *Startup*: `StartupInv` says for
each phase that the parts were built, and that `arena start` got so far only with
its preflight passed; `CastPartBuilt` and `SendsEquipped` lead from a part that
was built to a transaction that is equipped, `PreflightChecked` and
`BuildFailsOverlooked` from a preflight that passed to what constructors refuse.

**Agents and bridge** (`AgentCallsProofs`), for any number of calls. A call that
asks was made before the agent was struck out (`AskersUnstruck`); calls in flight
together know of each other (`FlightsMet`), so the meta an answered call would
show is its own or of one that it met (`MetaNear`). Over
the bridge, ids name what their call is about (`NamesOne`), and so do the lines
under way (`LinesTrue`); an answer to an earlier call with an equal id is therefore
an answer to the later one.

**Trading** (`TradingLoopProofs`), for any cycles, venues, tokens and signals.
`CyclesInv` says what a cycle carries past each await: signals that passed the
risk check at the time it names, and decisions that stand for such signals.
`RecordsInv` says that the risk manager remembers of each token at least as late a
trade as this life recorded; `PromisedInv`, that an order keeps what its check and
decision promised; `ReceiptsInv`, that an order with a receipt is recorded, or its
cycle still will, or says why not; `DollarsInv`, that an order at a venue that
trades dollars is worth the amount decided. *Strategies*: `RunsKept` ties what
price_change remembers to what it really signalled; `SalesBacked` follows for each
strategy from what it looks at: `RebalanceBacked` from what counts toward a target
that is over its share.
*Mixer, backtest*: `MixTyped`, with the property itself; `BackInv`, that balances
are natural numbers.
`StrategiesKeepTheirWord` puts strategies and mixer together under the run's own
specification, since its property speaks of two parts.

**Sums** (`NatSumTheorems`). Sums are a recursive function. Induction is done
by the least counterexample in Nat, which needs no theorem with an operator
parameter: existence of the prefix-sum function, its equation, and from these
the facts about one changed summand, about order, scaling, adding two sums
and swapping a double sum.

Assumptions are the named ASSUMEs on constants, evaluated by TLC in the runs, and
for the engine and the bridge the hypotheses of the theorems: `EngineConstants`
(the bounds are natural numbers) and `IpcConstants` (calls are numbered, and the
names of cycles, tokens and health checks are told apart). Most say that
bounds are natural numbers and sets finite; the others, that names which the code
tells apart are different (the escrow and its users, the zero address and the
settlers, tokens), that the settler's vault is one of the vaults and that the
settler may settle, that an agent that counts failures is a webhook or a prompt
agent, and in which set environments, signals and wishes lie.

Model-checked only:

* `TradesConserveValue`: a trade turns cash into units at a price, and loses no more
  than dust only where prices divide the amounts, as in the run. Any integers would
  make it false by their rounding, which the code's floating point does not have; and
  worth is a fold over tokens, that is, induction over data;
* liveness, which the prover cannot do: `EveryTaskSettles`, `BacklogRecovered`,
  `EngineGetsOn`, `EveryTaskAnswered`, `EveryAgentRegistered`, `CallsEnd`,
  `EveryCycleEnds`;
* the five violations, which are counterexamples.

## 5. Where code and documents disagree

Runs show five disagreements (section 3, *violation*). Others were met while
modelling; the models follow the code. Those in the first group are stated as
definitions beside the model, and the code does not satisfy them:

* `TaskEscrow.DoneRefundableAfterDeadline`: the lifecycle comment lets anyone
  refund a DONE task after its deadline (`SimpleTaskEscrow.sol:30`); `refund`
  requires FUNDED (`:223`).
* `ArenaVault.ZeroWeightRefunded`: "invalid agents get full refund — handled by
  smart contract" (`arena-engine.ts:293`); a weight of 0 pays nothing
  (`ArenaVault.sol:217`).
* `AgentCalls.StruckForGood`: three failures strike an agent out
  (`PROJECT_GUIDE.md:169`); a call already under way resets the count.
* `IpcClient.EveryCallerHears`: each request has its own timeout
  (`PROJECT_GUIDE.md:412`); a reply with an error and no message stops the timer and
  settles nothing (`ipc-client.ts:107-111`, `:90`).
* `Strategies.OpensForEachAgent`: the opener "guarantees at least 1 BUY per agent per
  season" (`opener.py:13`); its flag is of the process, so that it buys for one agent,
  in one season (`opener.py:39`).

The others:

* the momentum strategy never signals: its MACD signal line is undefined at
  every bar (`momentum.py:4`);
* the trailing high of take-profit survives seasons and is shared by all agents;
* the replay row's hash of the positions before the decision is of an array that
  later trades change in place;
* `sdk_timeout_seconds` (`config/arena.yaml:22`) bounds an sdk agent's function
  and not the loading of its module;
* a position below 0.000001 units is deleted with its value
  (`virtual-portfolio.ts:120-121`), however much a unit is worth;
* an amount that a model adjusted for an internal agent is never checked, and may be
  zero or negative (`internal-agent.ts:84-93`);
* behind the board's wrong selectors lies a mix-up that would appear with right
  ones: the board's ids count the tasks created, the contract's those funded, so a
  task funded late or never makes deliver, release and refund name another task;
* the exposure limit is checked against `state/portfolio.json`, which nothing
  writes (`cli/src/index.ts:96`, `PROJECT_GUIDE.md:334-338`);
* tokens traded before an executor throws start no cooldown (`cli/src/index.ts:115`);
* `min_signals_to_qualify` and `min_trades_to_qualify` (`config/arena.yaml:15-16`)
  are ignored by the settlement, which has thresholds of its own
  (`leaderboard.ts:23-30`): the live leaderboard shows as valid who is paid nothing;
* a cycle in flight at the settlement writes a live leaderboard over the final one,
  and no viewer is connected when `season_start` is broadcast;
* the preflight accepts, and `arena start` then fails on, an unlocked signer without
  its address where a keystore or key is set too, a raw key that is not allowed
  where only registration is on, and a salt that is no number;
* `sync-learning` without on-chain mode counts rows as submitted and moves its
  cursor, though nothing is sent (`learning-root-submitter.ts:12-21`);
* `bootstrap-onchain` without the registration flag logs "on-chain identity
  ensured" for every agent and does nothing (`arena.ts:634-640`);
* an agent that has its token still needs an owner or `ARENA_AGENT_NFA_MINT_TO`:
  the owner is resolved before the token is looked up
  (`agent-identity-registrar.ts:40`);
* the "upsert" script of `export-sql` (`AUDIT_FIXLOG.md:563`) inserts nonces and
  replay rows without a conflict clause;
* the mixer's amount is a weighted mean, unlike its docstring;
* the backtest charges the fee of a purchase twice and counts it once, and its
  command accepts 50 candles where the engine needs 51.

## 6. Plan

Theorems next: `TradesConserveValue` for prices that divide the amounts, with
sums over tokens in place of the fold; what `CallsEnd` rests on, that no call can
be stuck before its timer.

Models next: two registrars at once, token mint and cap, Ownable's
two steps, the account's token rescue and signatures, the SQL export.

## 7. Not modelled

Numbers over series (indicators, exponentials of softmax, the hash tree): floating
point and hashing, by what they may return only. Encodings and quotes of outside
services. The web front end, events of tasks to viewers, read-only routes,
reports, the SQL export: presentation of what the models hold. Ownable: two
guarded assignments. Deployment scripts, proxies and upgrades. `task_analysis.py`,
which nothing imports. Vendored code.
