# stellar-plus in TLA+

stellar-plus is a TypeScript library that builds, signs, submits and follows up
transactions on the Stellar network. It is single-threaded and persists
nothing. What makes it hard is that every operation is a chain of `await`s over
shared objects: one pipeline object serves any number of concurrent calls, its
plugins keep state across them, and the two servers it talks to see the ledger
at different times.

Paths below are relative to `src/src/stellar-plus/`.

## 1. Inventory

| Component | State | Operations | Correct when |
|---|---|---|---|
| Conveyor belt `utils/pipeline/conveyor-belts` | plugin list; per call, the progress of `execute()` | `execute`, its three hook loops, `process` | each hook of the phase runs once and in order; a call settles; a failure reaches the error hooks |
| Multi-belt pipeline `utils/pipeline/multi-belt-pipeline` | inner plugins | constructor, `getInnerPluginsByType` | a plugin reaches the belts of its type and no other |
| Channel accounts plugin `utils/pipeline/plugins/soroban-transaction/channel-accounts` (base class of the classic one) | `freeChannels`, `lockedChannels` | `registerChannels`, `preProcess`, `postProcess`, `processError` | no channel in two transactions, none lost, every waiter served |
| Channel accounts handler `channel-accounts` | none of its own | `openChannels`, `closeChannels` | what the application is given as a channel is an account, until it closes it |
| Soroban and classic transaction pipelines `core/pipelines/*-transaction` | handlers | `process`: the inner belts one after the other | output only for an included, successful transaction; nothing submitted by a simulation |
| Build, simulate, submit pipelines | none | one request each | sequence number of the source plus one; errors of the request become rejections |
| Soroban get transaction pipeline | deadline and sleep of the call | poll loop | the verdict is the ledger's, the loop ends, "not found" not before the deadline |
| Soroban auth pipeline | none | sign entries, rebuild, simulate again | every entry signed by its address; same sequence number after the rebuild |
| Classic sign requirements, sign transaction pipelines | none | bundle thresholds, sign | every required source signs once |
| Fee bump pipeline and plugin | fee bump header | wrap and sign | wraps exactly when it raises the fee or changes the payer |
| Auto restore plugin | restore invocation | nested restore transaction, sequence bump | outer sequence number fits after the restore |
| Profiler plugin, profiling handler | timers and log entries by item id | hooks, extraction callbacks, aggregation | an entry gets its own execution's numbers |
| Contract engine `core/contract-engine` | `contractId`, `wasmHash`, `wasm`, `spec` | upload, deploy, wrap, invoke, read, restore, load spec | state changes only after success; requirements hold when used |
| Freighter handler `account/account-handler/freighter` | `publicKey` | connect, disconnect, sign, signSorobanAuthEntry | signs for the account that is connected |
| Classic asset handler `asset/classic` | issuer's public key | transfer, burn, mint, trustlines, flags | each call moves its amount once, in its unit, or not at all |
| Soroban token and Stellar asset contract `asset/soroban-token`, `asset/stellar-asset-contract` | that of their engine | the token functions, wrap | calls reach the contract of the asset |
| Unit conversion `utils/unit-conversion` | none | numbers, bigints and their decimal strings | what is written reads back |
| Default and base account handlers, certificate of deposit, RPC and Horizon handlers, network, extractors, error builders | none or constant | one request, one conversion | see PROJECT.json for each |

Interactions. A transaction pipeline *is* a belt, and its `process()` runs inner
belts, passing them its own item id, so that plugins on inner belts can tell
which outer execution they serve. Plugins are objects shared by all executions
and, if the application wants, by several pipelines. The channel plugin rewrites
the source of the item before `process()`, which then builds with the sequence
number that Horizon reports for that account, submits to the RPC server (or
Horizon) and polls the RPC server. The only concurrency is the interleaving of
continuations at `await`s and timers, and that of the program with the network.

Hard behaviours: interleaved executions over the pool; hooks that throw between
an acquisition and its release; waiting without a queue; answers that are late,
lost or older than the state they describe; two servers that disagree. Each is
listed under "hazards" in PROJECT.json at the line where it bites, with the
properties that cover it or a note.

## 2. Modules

| Module | Models | Composes |
|---|---|---|
| `ConveyorBelt` | `execute()` of a belt with N plugins | |
| `ChannelAccountsPlugin` | the plugin's pool on such a belt | extends `ConveyorBelt` |
| `ChannelLease` | abstract: what the plugin promises | refined by `ChannelAccountsPlugin` |
| `SorobanGetTransaction` | the polling loop, on a clock | |
| `StellarNetwork` | external: Horizon, RPC server, ledger, as `src/` uses them | |
| `TransactionPipelines` | `process()` of both transaction pipelines | extends `StellarNetwork` |
| `AutoRestore` | the auto restore plugin, its nested transaction and the sequence bump | extends `TransactionPipelines` |
| `ChannelTransactions` | channel plugin, belt and pipelines together | extends `ChannelAccountsPlugin`, instantiates `TransactionPipelines` |
| `ChannelAccountsLifecycle` | opening and closing channels beside the transactions on them | extends `ChannelTransactions` |
| `Profiler` | the profiler plugin, the filters that route plugins to belts, the log and its reports | extends `ChannelAccountsPlugin` |
| `SorobanAuth` | signing of authorization entries and the rebuild | |
| `TransactionSigning` | signature requirements, signing, fee bump, and a Freighter handler among the signers | |
| `ContractEngine` | the methods of one engine, overlapping | |
| `UnitConversion` | amounts and their strings | |
| `AssetHandlers` | the classic and the token handler of one asset, on the balances both move | extends `ContractEngine`, `UnitConversion` |
| `*Proofs` | theorems on the module of that name and those it extends or that extend it | |
| `MC*` | constant values for TLC | |

### How state and actions correspond to the code

*One action is what runs between two awaits*, or several such steps when nothing
another actor does in between can be told apart.

**ConveyorBelt.** `phase[i]` is the part of `execute()` call `i` is in; `at[i]`
is the position of the `for` loop over the plugins; `ran[i]` records the hooks
that returned and is history: no guard reads it. `HookReturns` and `HookThrows`
are the two ends of an awaited hook. All loops skip plugins that do not define
the hook (`Due`). The loops are outside the `try` of `execute()`, so
`HookThrows` goes straight to `rejected` in every phase; only `ProcessThrows`
enters the error hooks. Items and errors are left out: which of them a hook
returns does not change what `execute()` does next.

**ChannelAccountsPlugin.** `freeChannels` is the array used as a stack,
`lockedChannels` the locks. The code keeps the locks in an array and takes the
first with the item's id: the model keeps a set and takes any. The two differ
only under a reused id, where the set allows more behaviours. `AllocateChannel`
joins `allocateChannel` and `injectChannel`, which a resolved promise separates:
the injected item is the execution's own. `NoChannelPipeline` is the one-second
timeout; `asleep` records who is in it. `registered` is history.
`registerChannels` is modelled with fresh channels: with one registered twice
the pool holds it twice by definition. Ids are `IdOf`, fresh (`UniqueIds`) or
not: `existingItemId` is a public parameter of `execute()`.

**SorobanGetTransaction.** Time is in ticks, `Second` of them to a second,
because the deadline mixes whole seconds (`Math.floor(Date.now() / 1000)`) with
milliseconds. A poll is two steps, `ServerAnswers` and what follows its arrival,
with the clock and the ledger moving in between: that is where answers grow
old. `Apply` and `Tick` are the environment. `start`, `slept` and `appliedAt`
are history.

**TransactionPipelines.** `stage[i]` is the inner belt that is awaited.
`Build` reads `horizonSeq`, which is the ledger's number or, with
`HorizonMayLag`, an older one. `Submit` leaves the transaction pending or
refused; the Soroban pipeline does not read the submission's status, so both
lead to the follow up. `LateFailures` is every failure after the submission:
the request or its answer is lost, a poll fails, a hook of the belt throws.
`TimeoutsSet` says envelopes have a time bound; that polling then outlasts it is
what `SorobanGetTransaction` proves (`NotFoundIsLate`). Left out: operations,
signatures, fees, the shape of the output.

A ledger that closes exactly in the second of the envelope's `maxTime` may still
include the transaction after the poll loop's deadline, at the start of that
second, has passed; `TransactionPipelines` abstracts from that second.

**AutoRestore.** The restore transaction is an execution like any other, of a
Soroban pipeline of its own, so it is one of `Executions`; `RestoreOf` says
which, and `Running` keeps it from starting before `CallRestore` and its outer
execution from moving while it awaits. That a simulation asks for a restore is a
choice. `RestoreReturns` is what follows the nested `execute()`: `BumpSequence`,
whose builder adds one to the number in the envelope, and the rest of the
simulate belt. `RestoreThrows` is the rejection of the nested execution and
every failure after it. Left out: the footprint, and the time bounds of the
rebuilt envelope (PROJECT.json, hazards).

**SorobanAuth.** Between any two steps the clock and the ledger move: the time
left is computed before the ledger is asked for, and the signer answers after
both. `LedgerTime` is what the code takes for the time of a ledger, five
seconds; `LedgerCloses` lets ledgers be later but not earlier, and
`LedgerAnswers` gives the latest one. Both are assumptions about the network,
and `SignaturesOutliveTransaction` is false without them. Sequence numbers go
through JavaScript numbers: `ToDouble` rounds to the doubles there are above
`MaxSafe` (2^53), `ToDecimal` prints. Entries are sets: their order in the
operation is left out, as are the contents of an entry. `FreighterAnswers` is a
signer that is a Freighter handler: `signSorobanAuthEntry` documents
`validUntilLedgerSeq` as the ledger until which the signature is valid
(`freighter/index.ts:129`) and does not use it, so the signature keeps the
expiration the simulation gave the entry, which is 0, and the key is that of
whatever account the handler is connected to by then.
`SignaturesOutliveTransaction` is false of these signatures and leaves them out;
`FullyAuthorized` asks of them only that they were made.

**TransactionSigning.** A job is a classic transaction on its way from its
requirements to its submission, through the fee bump plugin or not. The
synchronous loop that bundles requirements is a step for each operation, so that
the theorem on it is an induction over steps; no one else reads what it writes.
Operations are a few types, each for those the code treats alike. Which signers
the caller passed is a choice at each requirement (`LocalSigner`,
`FreighterFound`, `SignerMissing`). The handler's `sign` is three points:
`FreighterFound`, where the pipeline finds the handler by its key,
`FreighterReady`, where the key is read for the request, and `ExtensionSigns`.
Whether the extension is installed, allowed and on the right network is asked
between the first two and may change at any time, so every answer is a choice
and the three questions are one. `FreighterNotReady` starts the `connect()`
that nobody awaits. Fees are numbers, and `StringAtLeast` compares them as the
strings they are. `operations`, `required` and `rekeyed` are history.

What the code understates: `setOptions` fields that are zero, and operations it
does not list, require nothing of their own; `RequirementsAreThresholds` leaves
them out, and levels are not used when signing. The handler's documentation says
that `getPublicKey` triggers a connection; it returns the key. The plugin's own
comment on when no fee bump is applied holds for fees of as many digits, and
`BumpedWhenEffective` says so: with a fee of 300, a bump of 1000 is dropped.

**ContractEngine.** A method runs from its call to its first await in one step
(`Call`): it checks its requirements and reads the registers there, and writes a
register only after its last await (`Return`, `AlreadyWrapped`, `SpecLoaded`).
The pipeline between the two is what `TransactionPipelines` promises of it: it
returns after the transaction succeeded (`ReturnedMeansSucceeded`) and may
reject at any time. An unset register is `"none"`; a deployed contract has the
name of the call that deployed it. With `simulateOnly` the pipeline has no
transaction to take an output from, so upload, deploy and wrap reject. A wrap
whose simulation says that the contract exists takes the id from that error.
`constructed` and `entries` are history and environment. Left out: archival (a
simulation may fail anyway), arguments and outputs.

Two things the module makes plain and no run calls an error, for no text of the
repository denies them. Two overlapping wraps both pass `requireNoContractId`,
and the register is that of the last to end. `restoreContractInstance` wants a
wasm hash, which it does not use.

**AssetHandlers.** The token handler adds to the engine which method a call is
of (`method`) and what its function does to the asset's contract when its
transaction is included (`TokenOps`); the classic handler's calls are made,
submitted, included or dropped, and returned or thrown (`classic`). Both work
on one `ledger` of trustlines, balances and allowances, which is external: an
operation that the ledger does not allow is not included. A transaction applies
all its operations in order or none (`After`, `AllowsAll`), which is what
`addTrustlineAndMint` relies on. `SpecHas` is the spec a handler gets when it is
given none; it lacks `admin`, `set_authorized`, `clawback` and
`spendable_balance`, so those methods throw until another spec is loaded.
(`setAdmin` passes an `id` beside `new_admin`, of which the spec knows only the
second: the first is not encoded, and arguments are left out.) `toStroops` converts the units of the classic methods. The
contract of the asset has no `initialize`; a token contract of another kind,
which the application deploys, has whatever effect and is not on this ledger.
Left out: authorization of trustlines, which makes an operation fail, as
anything may; the reads; the native asset.

**UnitConversion.** A decimal string is its integer part, its fraction and its
width. A bigint is an integer. A number is a double, a whole number of steps of
which `Scale` make one; up to `Significand` steps (2^53) each is a double, above
every second, then every fourth, which is what `spacing` says, and
every operation of the code that rounds does so here (`Nearest`: to the nearest,
a tie to the even one). With the constants of the program 1.005 to two places is
`"1.00"`, as the unit test has it. Two outcomes of the code are kept as they
are: with no decimals `numberBalanceToString` writes one digit all the same, and
a fraction that rounds up to a whole is not carried (`Carries`): 0.96 to one
decimal is `"0.10"`. `BalancesReadBack` states of an amount that carries what the
string is, which contradicts the function's own comment (Findings). The string of
any other is within half of its last place, but only of numbers with at most as
many digits as doubles tell apart (`Distinguished`): above, neighbouring stroops
are one number. Left out: numbers whose whole part is not below `Significand`,
which `toString` writes with digits of its own choice, and negative ones.

**Profiler.** `logs` and `timers` are the plugin's entries by item id, `log` is
the handler's. `ProfilerStarts` is `preProcess`, `ProfilerEnds` is `postProcess`
or `processError`; `InnerBelt` is a step of `process()` through one of the two
inner belts an extractor listens on, as far as `getInnerPluginsByType` routes
the extractors there. A timer has no time but whose start it was set at
(`since`). `overlapped` is history: executions that were in flight with another
under their id, for which entries may be anyone's. `filterLog`, `aggregateLog`
and `Sum` are the reports; an entry of a report keeps its position in the log.
A simulation may give no value of a resource (`Undefined`): such an entry passes
no filter on that resource, neither one nor its complement, and adds nothing to
a sum. The columns of a report are those of its first entry, so a report that
begins with an execution that failed before its simulation has no totals.
`SplitReportsAddUp` says which reports have totals, what the fees of two halves
and of the entries in neither add up to, and what the totals do where all three
reports have them; it does not hold without that condition (Findings).
Left out: averages, deviations, formats.

**ChannelAccountsLifecycle.** The two calls of the handler execute a classic
pipeline of their own, abstracted to what `TransactionPipelines` promises: it
returns after the transaction succeeded and may throw at any time. `accounts`
is what of the channels is on the ledger. The executions of
`ChannelTransactions` are restricted by it: `AccountLoads` (Horizon finds no
account that is not there) and `ChannelNetworkStep` (nor does a ledger include a
transaction of it). `closeChannels` looks at nothing, so a channel may go at any
point of an execution. An `openChannels` that throws after its submission loses
the keys of accounts that are made: the second half of `ChannelsAreAccounts`
says that there is no other way for an account to be without an owner.

**ChannelTransactions.** `process()` runs while the belt is in `"process"`; it
ends as its last stage did. The pool's and the belt's actions are those of
`ChannelAccountsPlugin`, unchanged.

## 3. Runs

| Run | What it shows | Bounds |
|---|---|---|
| `channel_pool` | exact pool, exclusive sources, no starvation, refinement of the lease | 3 executions, 2 channels, 3 plugins that throw only where no channel is held |
| `profiler` | logged entries are the execution's own, the reports of two halves and of the entries without a value add up to that of the whole where they have the same columns, and under a reused id channels may be lost but never shared and hooks run as they should | 3 executions, two with one id, one a simulation; 2 channels; the channel plugin, the profiler and a plugin that throws; 2 resources, of which the two that share the id, and do the same, have no value of one |
| `channel_pool_leak` | finding: rejected executions that keep their channel | same, fresh ids |
| `get_transaction` | verdicts, back-off, deadline, end of the loop | 2 ticks a second, expiry at second 4 or none, default 3 s, calls from 0 to 5 s, clock to 13 s |
| `auto_restore` | output implies inclusion; only what went through every stage is submitted; a restored footprint and a fitting sequence number before the transaction goes on | an execution with the plugin, its restore, a simulation and a classic transaction on 2 accounts shared in any way, all failures on |
| `auto_restore_reads` | finding: a simulation that submits a restore | same, the simulation has the plugin |
| `soroban_auth` | every entry signed by the account it names, signatures as long-lived as the transaction, same sequence number up to `MaxSafe` | an entry of each kind of credential, 3 sets of signers, one of the two signers a Freighter handler's, with and without each bound, clock to 6 ticks, `LedgerTime` 2, sequence numbers around a `MaxSafe` of 8 |
| `soroban_auth_sequence` | finding: the sequence number is not kept above `MaxSafe` | same, sequence numbers to 40 |
| `asset_handlers` | registered contracts and code exist; what was deployed is code the engine was given or has uploaded; after wraps and deploys, overlapping or not, one of theirs is registered; a token handler calls no contract but its own; balances are what the calls asked for, each in its unit; they read back from their strings | 2 engine calls of any method or token function and 1 classic call, 2 holders of whom one has a trustline and 1.96 units, 2 decimals, amounts of a unit and of 45 stroops, doubles of 13 bits; what the handler uploads is new to the ledger, it is constructed with wasm or with a contract, and with the wasm's hash as well where the asset is not wrapped |
| `transaction_signing` | requirements are the highest thresholds, once per account; what is handed on is signed as required; a bump that raises the fee is made | 2 jobs of up to 2 different operations in any order and number, 2 accounts, a connection besides those that failed checks start, fees of 3 digits |
| `channel_lifecycle` | no sequence clash, what is used is an account unless it is being closed, all transactions settle | a Soroban transaction and a classic one, 2 channels, a call that opens 0 to 3 of at most 2 and one that closes any |
| `channel_clash` | finding: a failure after submission leads to a clash | 2 executions, 1 channel |

The belt has no run of its own: it is checked as part of the channel pool, whose
plugins stand before, at and after the channel plugin, each with other hooks,
and of the profiler. Nor has the engine, which is that of the token handler.

Why the bounds are enough. With three executions and two channels one may always
have to wait, be overtaken, and be served by a channel another gave back; a
third channel only adds a pool without contention. Three plugins put one on
either side of the channel plugin, the only positions that matter. The clock
bound is past the last time the loop may be awake (the deadline plus the longest
sleep), so no run ends for lack of time. 196 and 45 stroops at two decimals give
balances that are cut, rounded up, carried, and halfway when written to one
decimal; a `Significand` and a `Scale` of 2^13 keep TLC's integers small and give
doubles that miss most decimals, on either side. A handler that is constructed
with a hash deploys with its first call, so two deploys overlap in
`asset_handlers`, and so do an upload and a deploy. Two
channels and two executions are enough for a channel that is closed at any point
of its use while the other waits or goes on. The theorems below hold without these
bounds.

`CHECK_DEADLOCK FALSE`: executions are finitely many and end; a finished system
stops.

### Fairness

Weak fairness of the steps of each started execution: the event loop runs a
continuation that is ready, timers fire, and requests are answered or fail. The
library puts no time limit on requests, so the last is an assumption on the SDK
and the servers. A call need never be made: `Execute` has no fairness. Nothing
is assumed about who gets a channel: a waiter with the pool empty at each of its
wake-ups is owed nothing. Waiters are still served (`WaitersServed`) because
each execution takes one lease and ends. With endlessly many new executions a
waiter may be overtaken for ever; the code has no queue, and no property here
says otherwise. `TransactionsSettle` also assumes that the network includes or
drops what it took; calls that open or close channels are owed nothing.

### Findings

Four violation runs, each against a line of the documentation or the code, and
three where a property that holds says of the code what the repository denies;
the quotes are in PROJECT.json.

1. A hook that throws in `preProcess` after the channel plugin, or in
   `postProcess` or `processError` before it, leaks the channel
   (`channel_pool_leak`). With every such hook safe (`SafePlacement`) no channel
   leaks, and that is proved.
2. A failure between submission and verdict frees the channel while its
   transaction is pending (`channel_clash`).
3. With `simulateOnly` the auto restore plugin still signs and submits a
   restore transaction (`auto_restore_reads`).
4. The rebuild in the auth pipeline changes sequence numbers above 2^53
   (`soroban_auth_sequence`). Those numbers start at the creation ledger of the
   account times 2^32, so they pass 2^53 for accounts created after ledger 2^21.
5. No `postProcess` hook follows the `processError` hooks, as the documentation
   of the belt has it (`HookAccounting`). The library's own plugins do their
   clean-up in both, and would do it twice otherwise.
6. The report that is to give "a total view of resource usage" has no totals when
   its first entry failed before its simulation (`SplitReportsAddUp`).
7. `numberBalanceToString` "handles rounding" but not the carry
   (`BalancesReadBack`).

Some properties leave out states in which they are false, and say so where they
are defined: `RequirementsAreThresholds` the zero fields, `BumpedWhenEffective`
fees of different length, `SignedAsRequired` jobs during which the handler was
connected or disconnected, `SignaturesOutliveTransaction` signatures of Freighter
handlers. Nor does a property say that a transaction reported as not found is not
included later: between the last answer and the verdict, or while the envelope has
no time bound, it may be.

The clash theorem needs two more assumptions (`Calm`), and a run without either
ends in a clash as well: Horizon, which gives the sequence number, is not behind
the RPC server, which gives the status; and transactions carry a time bound, so
that one reported as not found is gone.

## 4. Proofs

All are for any number of executions, plugins, channels and ids; they assume
only the named `ASSUME`s of the modules and, where stated, `UniqueIds`,
`SafePlacement` or `Calm`.

- `ChannelAccountsPluginProofs`, first part, on the belt: `BeltTypeCorrect`,
  `BeltAccountsHooks`. `HookAccounting` with `TypeOK` is inductive: it fixes
  `ran[i]` from `phase[i]` and `at[i]`.
- `ChannelAccountsPluginProofs`, second part. Pool steps are belt steps, so the belt's
  theorems carry over. `ChannelsInOnePlace` needs only the pool itself
  (`PoolInv`: `PoolDisjoint` plus every channel on the stack or locked being
  registered, which keeps new batches apart) and so holds for reused ids. For
  the rest the locks must be tied to the executions: with `UniqueIds`,
  `LockInv` says that the locks are those of the holders, that nothing
  registered is lost and, through `HookAccounting`, that an execution in process
  holds. From it follow `LocksAreHolders`, `NoChannelLost`, `NoSharedSource`,
  `ChannelsComeBack` (with `SafePlacement`) and `PluginImplementsLease`: initial
  states map to initial states, and every step to `Open`, `Acquire`, `Release`
  or a stutter of `ChannelLease`.
- `SorobanGetTransactionProofs`: `VerdictsAreSound` needs that the last answer,
  if final, is what the ledger says; `BackoffIsBounded` that the next sleep is
  one second more than all before it and that a sleep starts before the
  deadline; `NotFoundIsLate` that the deadline is not before the envelope's
  expiry unless that had passed at the call.
- `AutoRestoreProofs`, first part, on `TransactionPipelines`: `PipelinesTypeCorrect`,
  `ReturnedTransactionsSucceeded`, `NetworkHoldsSignedOnly`. The last needs that
  a simulation never passes the simulate stage (`SubmittedInv`).
- `AutoRestoreProofs`, second part: the two theorems above hold with nested restores, from
  the same step lemmas. `RestoredFirst` needs that an outer execution stays in
  the simulate stage until its restore is settled (`NestedInv`). `SequenceFits`
  adds that the network holds only what was handed to it, with numbers that were
  due (`LedgerInv`), and that the number of a sole user's transaction is the next
  one, or the one after while its restore is on its way (`FitInv`).
- `SorobanAuthProofs`: `ReturnedFullyAuthorized` needs that every entry to sign
  is still to be signed, being signed, or signed by its account, or by Freighter
  (`Accounted`);
  `SignaturesOutlive` that each signature covers as many ledgers as can close
  before the time bound (`Covers`, an inequality between ticks and ledgers that
  every tick and every ledger keeps). `SafeSequencesKept` is for every number up
  to 2^53. So is `AuthTypeCorrect`: above, `ToDecimal` looks for at most 9 digits,
  enough for the numbers of the run and not for all.
- `TransactionSigningProofs`: `BundleIsThresholds` needs that the list covers the
  thresholds of the operations so far (`BundledInv`; `BundleCovers` is one round
  of the loop). `EnvelopesSignedAsRequired` needs that what is signed is what the
  loop over the requirements has passed, and that the request of a handler that
  was not written to names the account it was found for (`JobInv`).
  `BumpsAreEffective` needs that once fees were compared the envelope is the one
  the comparison decides for (`BumpInv`), and that strings of as many digits
  compare as numbers (`StringsCompare`).
- `ContractEngineProofs`: `RegistersAreReal` needs that what a successful
  transaction made is on the ledger (`RegisteredInv`), and `DeploysUploadedCode`
  that a contract is there only through its deploy, which read the hash that was
  registered, and that a hash gives way only to that of the engine's own wasm
  (`DeployedInv`). `StoredIsRegistered` is inductive given the types and what
  wraps and uploads are about (`KindInv`). `HandlersImplementEngine`: a step of
  the handlers is a step of the engine or leaves it alone, so these hold for the
  handlers. `TokenHandlerCallsAsset` needs that a handler wraps its own asset
  (`OneAssetInv`) and that the contracts that are its own stay so (`OwnGrows`).
- `ContractEngineProofs`, on balances. `BalancesAreAccounted` needs that
  methods are those of their calls and that a call that resolved was included
  (`MethodInv`), and that the balances are the opening ones and the totals over
  exactly the included calls (`AccountedInv`): a step that includes a call adds
  one summand to one total and moves the balances by as much
  (`TokenMovesBalances`, `ClassicMovesBalances`), and no other step touches either.
  `AssetTypeCorrect` is part of it.
- `ProfilerProofs`: `ProfilerImplementsPool` makes the pool's theorems those of
  a belt with a profiler. `LoggedEntriesAreOwn` needs that the entry of an
  execution in flight holds exactly what its inner belts have extracted, unless
  the id is shared, and that who has no rival never had one since it started
  (`ProfilerInv`). `EntriesAreThere` is part of it.
  `SplitReportsSum` follows from `EntriesAreOwn`, which tells the entries with
  costs from those without: at every position of the log what the whole adds is
  what the two halves and the entries in neither add (`Halves`, `PartAdds`), so
  the sums agree (`SplitSums`); which columns there are is `ReportColumns`, and
  `ReportTotals` that their totals are the sums.
- `ChannelTransactionsProofs`: `ChannelsAvoidClashes`. `Calm` is: no failures
  after submission, time bounds set, Horizon not behind. `NumbersInv` adds to
  `LockInv` that a built transaction has the next number of its source, that a
  pending one belongs to an execution still following it up, and that included
  numbers are not above the ledger's. `NoSharedSource` then makes pending
  transactions of one channel equal. `LifecycleImplementsChannels` carries this
  over to channels that open and close (`LifecycleAvoidsClashes`).
  `ChannelsExist` needs that the calls tell which accounts there are
  (`CallsMatchAccounts`) and that the pool, the items and the network have no
  channel that was not opened (`SourcesOpened`).
  `ResolvedMeansSucceededOnce` is about the whole of `execute()` and needs
  neither `Calm` nor fresh ids: resolved, the execution has one transaction on
  the network, included with success, and none other waiting or failed; rejected,
  it has at most one. `OutcomeInv` adds what links the belt to the network: the
  `postProcess` hooks start only from a `process()` that returned, an execution
  whose transaction the network knows is past its submission, and a simulation
  never gets there (`SimulateOnlyAssumption`: only the Soroban pipeline has the
  option). A rejected execution may still have had its transaction included: this
  is the other half of what `channel_clash` shows.

Some of these are about recursive functions: totals over sets of calls, running
totals over a log, powers of ten, the digits of a fee. The library's induction
rules cannot be instantiated by the provers, so what such a function computes is
proved by a least counterexample: a subset of a finite set that has no smaller
one (`MinimalSubset`), or a number (`LeastNatural`), and cannot be one. That the
recursion defines a function at all is proved the same way (`SumsExist`,
`PowersExist`, `RunningExists`, `AboveToExists`).

Only model-checked: the liveness properties (`WaitersServed`, `PollingEnds`,
`TransactionsSettle`) and the fairness part of `ImplementsLease`, out of the
prover's reach; `BalancesReadBack`, which is false of doubles unless `Significand`
and `Scale` are powers of two and far enough apart from the amounts; sequence
numbers above 2^53; the findings 1 to 4. Every other safety property that a
passing run checks is a theorem.

## 5. Plan

What could follow:

1. Two channel plugins, a Soroban and a classic one, that are given the same
   channels, as the integration test of the plugin does: two pools, and nothing
   in the code that keeps one from handing out what the other has.
2. Time bounds in `AutoRestore`: the bumped envelope of a transaction without
   one.
3. `ToDecimal` for numbers of any size, and with it the types of the auth
   pipeline above 2^53.

## 6. Not modelled, and why

The certificate of deposit client is one engine call a method, of a contract
whose code is not in the repository. The default account, RPC and Horizon
handlers pass one request on and keep no state; the Validation Cloud handler is
HTTP and the parsing of answers. The plugins that extract a contract id or an
output, and the debug plugin, rewrite one value; on the belt they are plugins
that may throw. Error builders are formatting; where an error is thrown is
modelled at its thrower. The test ledger and mocks are test support. Of modelled
components, what is left out is said above, at the module. PROJECT.json lists
every component with its status.
