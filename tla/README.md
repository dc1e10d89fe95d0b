# Verification of the Codex quota plugin

The plugin (`src/`, Go) runs inside a proxy that serves requests through a pool
of credentials. It bills what each request costs, learns from the percentages
upstream reports what a quota is worth, and rotates the pool: it switches spent
and refused credentials off and standbys on, by rewriting their files.

This directory holds TLA+ modules translated from that code, the TLC runs that
check them on small instances, and TLAPS proofs of every safety property those
runs check, for instances of any size.

    tlc -workers 2 -config pool_safety.cfg MCPool     # one run; section 3 names the others
    tlapm PoolProofs.tla                              # one proof module; section 6

## 1. The system

| component | state it keeps | operations | talks to |
|---|---|---|---|
| Rotator lease (`rotator.go`) | `rotator.lease` on disk; `startedAt`, `standDown` per instance | `newRotator`, `claimLease`, `holdsLease`, `loop`, head of `tick` | other instances through the file; a hot reload leaves the old one running |
| Rotation (`rotator.go`) | credential files; `RotatorState` (`Log`, `LastSwitch`, `DayCount`, `LastReason`) | `tick`: derive, resync, confirm, widen, vet, retire, recount, promote, drain | upstream (probes), host (list, files), the ledger's readings |
| Refusals (`health.go`, `rotator.go`, `rotator_view.go`) | `ModelHealth.Rejected/RejectedAt`, `probeMemo.Rejected/Fingerprint` | `recordHealth`, `trafficRejection`, `clearRejection`, `reconcileRejections`, `settle`, `retireRejected`, `pinRejection` | request threads write, ticks and panel refreshes read and write |
| Probe budget and cycles (`rotator.go`) | `probeMemo` (`Day`, `Count`, `Epoch`), the last probe's and the last request's windows | `derive`, `probeAllowed`, `ask`, `settle`, the resync | ticks and panel refreshes, over the same memo |
| Window arithmetic (`rotator.go`) | none | `effectiveWindows`, `probeEpoch` | called by `derive` and `settle` |
| Credential files and the cached list (`rotator.go`, `store.go`) | the file, its `.tmp`; `authCache` | `writeState`, `writeCredentialAtomic`, `authMetadata`, `invalidateAuthCache`; the order of locks | the host, which reads, lists and refreshes the same files |
| Kick-start (`kickstart.go`) | `KickDue`, `Kicks`, `IdleSweepAt`, `App.earlyReset` | `sweepIdle`, `greet`, `confirm`, marks set by `settle` | called by the tick; refreshes set marks too |
| Quota ledger (`store.go`) | one `Window` per credential and period | `HandleUsage`, `advance`, `startCycle`, `bill`, `observeReading` | every served request and every reading |
| Persistence (`store.go`) | `state.json`, `.tmp`, event log; `dirty`, `events` | `markDirty`, `Flush`, `Shutdown`, `loadState` | flush loop and the host's shutdown thread |
| Model health (`health.go`) | one `ModelHealth` per credential and model | `recordHealth`, `clearRejection`, `cooldownFrom`, `state`, `pruneHealth`, `modelHealth` | every request; served probes and reconciled refusals; the panel |
| Pricing (`pricing.go`) | catalog, overrides, `prices.json` | `refresh`, `merge`, `setOverrides`, `loadCache`, `Lookup` | models.dev; every request that is billed |
| Estimates, reports, endpoint and transport, ABI, panel, configuration | see section 8 | | |

The goroutines are: one rotator loop and one flush loop per instance; a thread
per request (`HandleUsage`); a thread per management call (`POST /rotate` runs a
whole tick, `/refresh` runs up to four probes at once); and the host's shutdown
call. The locks of `App` and `rotator` protect single reads and writes. Nothing
serialises two ticks, a tick and a refresh, or two flushes: what is read under a
lock is used after network calls of many seconds.

What is hard here, and what makes each component correct:

* **Lease**: check-then-act over a shared file, and an instance that stands down
  does so for good. The newest must never stand down; older ones must stop.
* **Rotation**: decisions are made on snapshots minutes old. Retirement must
  keep the target and the right order whatever fails or changes in between, a
  day's writes must be bounded, and a short pool must be filled in the end.
* **Refusals**: two ledgers stamped in seconds, both about "the" token, while
  logins replace it at any moment. A pinned fingerprint must name a refused
  token, a refusal must neither be asked about again nor outlive its token.
* **Probe budget**: a count read in one critical section and written in another,
  keyed by a boundary that is computed from readings of different ages.
* **Credential files**: a document read through the host and written back later;
  a list fetched before a write and kept after it; three locks that nest.
* **Kick-start**: rate limits whose bookkeeping comes after the act; marks that
  several goroutines set and clear; a window nobody looks at must be found.
* **Ledger**: readings are older than the bills they come with; upstream rounds;
  cycles end on time, early, in place, or while the plugin is down.
* **Persistence**: two flushers, one temporary name, crashes at every step.
* **Model health and pricing**: facts of different times laid over each other; a
  model must be called down just when it is, and a priced one must stay priced.

`PROJECT.json` lists each of these hazards at its line with the properties that
cover it.

## 2. Modules

| module | models | how state and actions correspond |
|---|---|---|
| `Lease` | the lease protocol of any number of instances | an instance is its `startedAt`; `ClaimRead`/`ClaimWrite` are the two halves of `claimLease`; `TickBegin` is the head of `tick`, by the loop or by `POST /rotate`; `Restart` ends the process, `Vanish` loses the file |
| `Pool` | one tick (or two) over the whole pool | the record `tick[t]` is the local variables of `tick`; each probe (`Ask`), each write (`RetireRefused`, `Promote`, `RetireDrained`) is one step; the steps between (`Judge`, `Confirmed`, `Widened`, `Vetted`, `Recount`, `Promoted`, `Rotated`) are the code between the calls; a recount whose list fails goes on with none; `known` is what the ledger says, and `pinned` a refusal noted with the token on disk, which traffic does not outdate and only a login lifts |
| `Refusal` | one credential's refusals | tokens are numbered, a fingerprint is a token's number; a request or probe meets upstream at `Send`/`Asked` and is recorded later by `RecordHealth`/`Settle`, then `SettleClear`; `PinRejection` reads the token again, after `RetireRejected`; each of `settle`, `PinRejection`, `reconcileRejections` and `derive` may find the file unreadable (`Unread`) |
| `Windows` | `effectiveWindows`, `probeEpoch` | operators over a reset, a period and the time |
| `ProbeBudget` | the asks of one credential with any number of windows | `asking[a]` is where a tick or a panel refresh is between `derive` (`Derive`) and the second critical section of `settle` (`SettleRead`, `SettleWrite`); a tick goes through the resync and the later stages that ask; a refusal in traffic (`barred`) takes the windows from `derive` until a probe or a reconciliation lifts it |
| `CredentialStore` | one credential file over inodes, and the cached list | one action per file operation of `writeState` (`Get`, `OpenTmp`, `WriteTmp`, `Rename`, or the host's `Save`); `Hit`, `Fetch`, `Keep` are the three parts of `authMetadata` |
| `AuthFile` | what the file is to everybody else | read whole, replaced whole, changed in `disabled` and, on a promotion, in `priority`; `CredentialStore` implements it |
| `Locks` | the critical sections that nest | a goroutine comes to a section, takes its outer lock, and may take one of the inner ones |
| `Health` | `ModelHealth` and the panel's rows | `Served`, `Unauthorized`, `Failed` are `recordHealth` by what upstream answered; `ClearRejection` is the other writer, called for a served probe and for a replaced token; `State`, `Standing`, `ModelState`, `NextBack` are the code's functions of the same names |
| `Pricing` | the price book | `Refresh`, `SetOverrides` and `NewApp` (restart) over `catalog`, `overrides` and the saved catalog; `Lookup` as the code searches it: a name is its sequence of parts |
| `Kick` | the kick-start of one credential | `job[t]` is where each tick or refresh is between a `look` and its `settle`; `kick.recent` and `sweepOpen` are the code's comparisons of ages |
| `Meter` | the ledger of one quota window against upstream's own count | `Advance` composes `Rolled`, `CaughtUp` and `Calibrated` in the order of `advance`; upstream charges units and reports whole points; a request is billed its cost or, failed or unpriced, nothing (`BillNothing`), and one answered without quota headers reaches no window (`HandleUsageBlind`) |
| `Persist` | flushes, files as inodes, shutdown, crash, load | one action per file operation of `writeFileAtomic` and `appendEventLines` |
| `*Proofs` | proofs about the module they name; `PartsProofs` about `Windows`, `Locks`, `Pricing`, `Health`, `ProbeBudget` and all of `MCParts` | section 6 |
| `MCParts` | the lease, probe budget, credential store, locks, health and pricing, each a *scene* of its own | section 3 |
| the other `MC*` | values of constants for TLC | |

Each module keeps the control of the code - guards, early returns, error paths
and their order - and abstracts its data: a quota is one of `ample` (above the
floor), `low`, `pausing` (empty, refilled in minutes) and `empty`; an age is
"within the gap or not", renewed by an environment action in place of the clock;
a change is a number. What one module does in detail another takes as given:
`Pool` takes from `Refusal` that a probe without a reading may outdate a refusal
seen in traffic (a refusal that could not be noted with its token is
`Refusal`'s business), from `ProbeBudget` that a credential may or may not be asked
again, from `CredentialStore` that a write replaces the file or fails, and from
`Lease` that it acts at all.

Histories (`orderly`, `told`, `hasty`, `raced`, `booked`, `clean`, `word`, ...)
record what the code does not keep, for the properties only; no action of the
code reads them, except counters such as `fails` and `crashes` as a bound on
further ones.

Each property is accompanied in its module by a *mutant*: a definition marked
`\* Mutant:` that changes a mapped one the way a plausible bug would, and
against which TLC finds the property violated.

## 3. Runs that pass

| run | instance | what it shows |
|---|---|---|
| `small_parts` | six scenes, see below | `StandDownJustified`, `NoActAfterHandover`, `HandoverCompletes` (liveness): the lease. `ProbesBounded`: the daily budget, and no second resync for a boundary that had passed at an answered one (the key settle files, `probeEpoch`, names one boundary, but windows of several lengths have several, which is why the property speaks of each). `ImplementsAuthFile` (refinement: the file is replaced whole, and only `disabled` and a promotion's `priority` change), `RecountSeesWrite`: credential file and list. `SomeoneMoves`: no deadlock. `OutageReported`: a model is down just when the panel says so. `PricesHold` |
| `pool_safety` | 3 credentials, target 2, 2 changes a day, 1 outside change or failure | `DayBudget`, `DrainKeepsTarget`, `EmptyGoesFirst`, `NewcomerJoinsBack` |
| `pool_fill` | 2 credentials, target 1, one `never_disable`, 1 change a day, 1 outside change or failure | `ShortfallIsFilled` (liveness) |
| `refusal` | 1 model, tick + 1 refresh, 2 tokens, 2 seconds, 1 failed probe, 1 unreadable file, 1 restart | `FingerprintNamesRefused`, `NoReask` |
| `refusal_live` | the same, no restart | `ReLoginRestores`, `RefusedIsRetired` (liveness) |
| `kick` | 1 credential, loop + refresh, cap 2, 1 failure, 1 restart | `GreetingsBounded`; `WaitingIsStarted` (liveness) |
| `meter` | 1 request or look at a time, 2 units a point, costs of 0 to 2 units, period 2 of 3 ticks, 1 grant, 1 unit billed nothing, 1 charge without a reading (another client's, or answered without headers), 1 restart | `PendingInCycle`, `EvidenceIsOwn`, `CoverageWithinAPoint`, `QuotaWithinAPoint`, `GrantsAreReal`, `CyclesAreReal` |
| `persist` | 3 instances in turn, 3 changes, 4 files, 2 shutdowns, 1 failed write, 1 crash | `DiskNeverRegresses`, `EventsLoggedOnce`, `RestartRemembers`; `ChangeIsSaved` (liveness) |

Each of these but `refusal_live` and `pool_fill` also checks its `TypeOK`
(`PartsTypeOK` is the six of `small_parts`). Deadlock is checked except where
the system really stops: `persist`, `lease_two_writers` and the lease scene of
`small_parts` end when the last instance is gone, and the other scenes of
`small_parts` when their bounds are used up (that a lock is never waited for in
a circle is `SomeoneMoves`, not the absence of TLC's deadlock).

**Scenes.** The six small parts share no state and are checked in one run. A
behaviour picks one scene and stays in it, so its steps are those of one part,
and each property sees exactly the behaviours it would see in a run of its own.

| scene | instance |
|---|---|
| lease | 3 instances, restarts, failing claims, vanishing file |
| probes | loop and one panel refresh, windows of 2 and 3 hours in a day of 3, cap 2, gap 1, 4 hours, 1 request, revocation or failure of upstream's, any refused requests; a behaviour stops once a refresh and an ask have overlapped, where the property says nothing more |
| store | 1 ticker, 1 reader of the list, 2 priorities, 2 inodes, 2 writes, 2 logins, failures or crashes |
| locks | 3 goroutines over every section |
| health | 2 credentials, 2 models, memory of 1 second, 3 seconds, 3 answers |
| prices | 4 names (plain, effort, dated effort, unlisted), 5 refreshes, settings or restarts |

**Bounds.** Three instances are enough for one to be outranked while a third
claims. A day and a window shorter than the clock's range let both roll, the
shorter one twice; a cap of 2 is reached and stays smaller than the number of
tries. One write may fail, crash or meet a login between any two of its steps,
and be followed by another. Three goroutines can form the shortest cycle over
three locks. Two models and two credentials tell a refusal of a token from one
of a model. Two tokens and two seconds give every order of refusal, login and
probe, equal stamps included; the second token may be refused too. Three
credentials and a target of two allow two members to be spent at once with one
standby, which is what the order and count of retirement depend on; one outside
event is placed at every point of every tick, from every initial standing of
every credential, known or not. In `meter` two units a point make "less than a
point" a non-trivial amount; requests of up to two units on a window of less than
four, the last of which may go beyond it, reach two points, so a percentage can
rise twice and fall; a unit that is billed nothing is half a point, enough to
tell the allowance for it from none; three ticks hold a window end and the start of the next.
Every bound is a constant of its module with a comment that says so, and bounds
inputs or outside events, never a step of the code.

**Symmetry** is used in `pool_safety` and `pool_failed_confirm` only, where no
credential is named by a constant and nothing temporal is checked.

## 4. Fairness

Weak fairness of the loop's own steps: a goroutine is scheduled, its ticker
fires, and a tick returns because every upstream call in it has a timeout. In
`Lease` this is fairness of each loop goroutine as a whole (`LoopStep`), and of
the end of a tick that `POST /rotate` began. `POST /rotate` itself, refreshes,
traffic, logins and upstream are obliged to nothing. The passage of time is fair
where something waits for it (a gap, an hour, a day, the host's watcher),
strongly where the code may close the interval again before it is used. In
`Refusal`, `TickAsk` and `RetireRejected` are strongly fair: a tick that finds
the credential in the state they need takes them before it ends, again and again
(the pool's reasons not to are `Pool`'s business). No fairness makes anything
succeed: `WaitingIsStarted` holds because the bound `MaxFail` leaves a last
failure, which is to say "as long as greetings are taken sooner or later".

## 5. Where the code and its comments part

Four runs state what a comment says and are *violated* by what the code does.

| run | says | what happens |
|---|---|---|
| `lease_two_writers` | `rotator.go:341` "two rotators writing credentials is the one failure this component must not have" | the lease is checked once per tick; a tick of the old instance that passed the check runs on beside the new one's (in the trace the new instance's `POST /rotate`, before it has claimed) |
| `pool_failed_confirm` | `rotator.go:114` "alive() is false for a probe that merely failed to complete, and retiring a credential on that would let one network blip cost real capacity" | a failed confirmation makes a member "dead" to `memberState` (in the trace one of which nothing has been read, so that the pool is judged short); once a replacement is in, `retireDrained` disables it |
| `refusal_second_refusal` | `rotator.go:1925` "expires refusals that have stopped describing anything" | a memo about the previous token makes `reconcileRejections` discard a new refusal of the present one |
| `meter_overlap` | `store.go:558` "Upstream granted a mid-cycle reset" | a request answered before a quota look is billed after it (two overlapping requests billed in the other order do the same); the older percentage looks like a reset, the cycle's spend is dropped and all idle credentials are read again |

### Further counterexamples

The properties of section 3 state the cases they except. Each exception is there
because TLC finds a violation without it; these are the ones a maintainer may
want to see, with what to change in a copy of the run to get the trace.

| change | violated | the code |
|---|---|---|
| `pool_safety`: `Ticker <- LoopAndRotate`, `MaxDrift = 0` | `DrainKeepsTarget` | two ticks each retire down to the target by their own count (`rotator.go:1432`) |
| `pool_safety`: `MaxDrift = 2`, no `fresh` in the property, starting from one member refused, one low and an ample standby | `DrainKeepsTarget` | a tick that retires a refused member and promotes nobody starts no switch gap; the next one still counts that member (`store.go:1345`). `min_switch_gap: 0` does the same |
| `pool_safety`: no `fails = 0` in the property | `NewcomerJoinsBack` | a recount whose `host.auth.list` fails knows no member, so the newcomer starts at -1 (`rotator.go:516`); with `KeepEnabled = 1`, `MaxDrift = 2`, an unreadable file counts as priority 0 (`rotator.go:1988`) |
| `small_parts`, scene probes: `clean' = clean` | `ProbesBounded` | a panel refresh that overlaps an ask writes back the count and boundary it read before: three asks on a day with a cap of two (`rotator.go:1116`) |
| `small_parts`, scene store: `MCTicker == {"tick", "rotate"}` | `ImplementsAuthFile` | two ticks share `path.tmp` and can rename a torn document over the credential (`rotator.go:1588`) |
| `small_parts`, scene store: no `overtaken` in the property | `RecountSeesWrite` | a list on its way when the cache was emptied is kept, and served for a minute (`store.go:1363`) |
| `small_parts`, scene health: no `~Tied` | `OutageReported` | success and failure of the same second: the failure wins, whichever came last (`health.go:83`) |
| `small_parts`, scene prices: an override required to win for every name it is the longest prefix of | `PricesHold` | among prefixes of one length the catalog's wins (`pricing.go:262`), where `config.go:30` says an override "wins over both" |
| `small_parts`, scene lease: no `orderly` | `NoActAfterHandover` | overlapping claims, a failed one, or a vanished file let an older instance go on |
| `refusal`: no `crashes = 0` | `FingerprintNamesRefused` | a restart brings back a refusal lifted since the last flush; `pinRejection` pins it to the good token |
| `refusal`: no `~hasty` | `FingerprintNamesRefused` | a login between the answer and `settle`, or before `pinRejection`, gets the new token pinned |
| `refusal`: no `hasty'` in `TickStart` | `FingerprintNamesRefused` | `rejectionStands` takes a token it cannot read for the one refused (`rotator.go:1979`): the login's token is retired and pinned |
| `refusal_live`: no `memo.fp = NoPrint` | `ReLoginRestores` | a probe's refusal whose token could not be read is noted without a fingerprint and stands through every login (`rotator.go:1142`, `rotator.go:1975`) |
| `kick`: `Ticker <- LoopAndRotate`, no failures, no crashes | `GreetingsBounded` | both read the memo before either saves it (`kickstart.go:233`); `README.en.md:60` promises at most 3 a day |
| `kick`: no `crashes > 0` in the property | `GreetingsBounded` | a greeting is written down only at its confirmation, some seconds later (`kickSettle` is 3, and the rest of the batch comes between) |
| `meter`: `ReportsReset = FALSE` | `CyclesAreReal` | without a reset time every reading starts a cycle (`store.go:551`), where `store.go:2011` speaks of a window that "has no cycles to tell apart" |
| `meter`: no `grants = 0` | `EvidenceIsOwn` | a reset granted in place keeps the cycle's key, so old samples count as the new cycle's own (`store.go:2015`) |
| `meter`: no `externals = 0` in `Alone` | `CoverageWithinAPoint` | a covered cycle is only ours if nobody else uses the account (`store.go:617`), and if every answer has quota headers (`store.go:505`) |
| `meter`: no `ledger.unbilled` | `CoverageWithinAPoint`, `QuotaWithinAPoint` | a failed request, or one of a model without a price, is billed nothing (`store.go:476`), and the cycle stays covered |
| `persist`: no `~raced` | `RestartRemembers` | `Shutdown`'s flush finds nothing dirty while the loop's is still writing, and the process ends (`store.go:1253`) |
| `persist`: no `stops = 0` | `DiskNeverRegresses` | two flushes share one temporary name: one renames what the other has just truncated (`store.go:1967`) |
| `persist`: `Reloads = TRUE`, nothing stopped or failing | `DiskNeverRegresses` | the instance a hot reload leaves running writes `state.json` too |

Smaller things met while modelling, none of them checked by a run:

* A refresh that straddles midnight resets the new day's probe count. The look a
  new login is due is not counted against the day. A resync that fails leaves
  the boundary due, so it is asked again at the gap, up to the day's cap.
* A token the host refreshes between `host.auth.get` and the rename is
  overwritten with the older one; `AuthFile` allows exactly that.
* A request served on one model does not lift a refusal seen on another, where
  `rotator_view.go:69` speaks of a token the panel "has not seen ... work since".
  A refused credential still counts for the single-point warning.
* An empty `price_source_url` does not freeze the built-in table
  (`config.go:24`): a `prices.json` of an earlier run is still loaded.

**Assumption.** The host's list, watcher and one-minute cache together trail the
files by less than `min_switch_gap` (`GapElapses` waits for `host = disk`). The
default gap is minutes; the configuration does not enforce it. `LastSwitch` is
when the tick that rotated *began*, so the assumption is that this tick and the
lag after it fit into the gap. `Meter` takes any request that upstream answers,
a failed one too, to start a window that waited.

## 6. Proofs

For every value of the constants, under the named assumptions of the modules
(which TLC evaluates in the runs) and those stated here.

`PoolProofs`, any number of credentials, any target, budget and settings:

* `TypeCorrect`: `Spec => []TypeOK`, with any set of tickers.
* `BudgetHolds`, `TargetKept`, `SpentGoFirst`, `NewcomersJoinBack`: `DayBudget`,
  `DrainKeepsTarget`, `EmptyGoesFirst` and `NewcomerJoinsBack`, **assuming one
  ticker** (`Ticker = {t}`); section 5 shows that two do not keep the target.
  None of them is inductive, as all speak of files while a tick counts names in
  its own snapshot. `Alone` ties the two together: a tick acts outside the
  switch gap only, where the host's list has every enabled file
  (`HostKnowsEnabled`); nobody is enabled behind its back (`NobodyJoins`); so
  what it disables, promotes and retires are different credentials
  (`ListsApart`), what it counts as live is on disk (`LiveIsEnabled`), what it
  has yet to write was allowed for (`WithinAllowance`), the priority it gives
  is below that of every enabled file (`QueueHasABack`), and the spent are in
  the list it retires from (`SpentAreListed`). `LeastExists` (a finite set of integers has a
  minimum) is proved from well-foundedness of subset.

`CredentialStoreProofs`:

* `OneWriterReplacesWhole`: `StoreSpec => ImplementsAuthFile`, a refinement,
  assuming one ticker and that `None` is no document. `FileInv` says that the
  temporary file is never the file, and holds what its writer has written of
  the document it read; a failure or crash maps to `Forget`, a rename to
  `Replace` (with its priority if it enables), every other step but a login to a stutter or a `Read`.
* `NoStaleRecount`: `RecountSeesWrite` for any number of tickers and readers
  (`None` no list). `ListInv`: between its write and the emptying of the cache a
  ticker asks for no list (the two follow each other in the code); at any other
  time a list it may be given, cached or under way, is no older than its write
  or was overtaken by that emptying (`Kept`).

* `StoreTypeCorrect`: types, likewise (`StoreInv`).

`LeaseProofs`, for every set of instance stamps:

* `TypeCorrect`, and `NewestKeepsTheWheel` (`StandDownJustified`). The property
  is not inductive: an instance stands down because the *file* holds a newer
  stamp. `LeaseWasClaimed` adds that a stamp in the file is of an instance that
  has been through its claim, and claims are never undone.
* `HandoverIsFinal` (`NoActAfterHandover`). `LeaseCurrent` says that while all
  was orderly the file holds at least the stamp of each instance that has
  claimed; `LoadedInOrder` and `ClaimsInOrder` say why no older claim can still
  be under way to move it back. An older instance that begins a tick then fails
  `HoldsLease`.

`MeterProofs`, any period, costs, grants, other clients and restarts:

* `TypeCorrect`, with any number of requests and looks at once, through one
  lemma per stage of `Advance`; what makes it more than typing is that no
  subtraction goes below zero.
* `NothingPendingUnbilled` (`PendingInCycle`), likewise. The inductive invariant
  says the same of the copy in `state.json`, since a restart brings that back.
* `EvidenceIsAlwaysOwn` (`EvidenceIsOwn`), **for one request or look at a time**.
  Samples outlive their cycle, so the point is that a closed cycle's key never
  returns. `OwnInv`: the boundary upstream would name (`Said`) only moves
  forward, a reading in flight has not fallen behind the ledger (`InTurn`), and
  no ledger, saved or live, has a sample of a cycle to come (`OwnSamples`).
* `GrantsAreNeverInvented` (`GrantsAreReal`), for one at a time: `meter_overlap`
  shows that two do invent one. A count of grants is not inductive, since the
  ledger learns of a grant long after it. `GrantInv` adds to the count what the
  next reading would conclude (`Lost`, `Unnoticed`): a grant raises that, a
  reading moves it into the count, a restart gives both back (`Concluded`).
* `CyclesAreNeverInvented` (`CyclesAreReal`), for one at a time and an upstream
  that names its boundaries (`ReportsReset`; section 5 has what happens
  otherwise). `CycleInv`: the cycles counted and the one a next reading would
  start (`Due`) are at most upstream's windows and what hid how one started.
* `CoverageIsEarned` and `QuotaIsRightToAPoint` (`CoverageWithinAPoint`,
  `QuotaWithinAPoint`), for one at a time. `CostInv`: while the account is the
  plugin's alone and every answer has quota headers, what a covered cycle missed
  is the part of a point its first reading hid, as much for each restart
  (`Slack`), and what the requests it billed nothing have cost (`unbilled`), in
  the ledger, in `state.json`, and in the ledger a reading in flight is about to
  make (`Costed`).

`PersistProofs`, any number of instances, changes, failed writes and crashes:

* `TypeCorrect`, and `NoEventTwice` (`EventsLoggedOnce`), also with overlapping
  flushes and reloads. An event is in one place at most: a buffer, one flush, or
  the log (`Once`).
* `DiskKeepsUp` (`DiskNeverRegresses`), **assuming `Reloads = FALSE`**: section 5
  shows that the instance a reload leaves running writes older state. With one
  instance at a time (`Solo`), and the loop alone flushing until `Shutdown`
  (`LoopAlone`), `DiskInv` holds until two flushes have met: one flush at a time,
  `state.json` whole and no newer than what any flush carries, the temporary file
  its writer's own.
* `NothingForgotten` (`RestartRemembers`), under the same assumption. `KeptInv`:
  what is not on disk is marked dirty or on its way there (`NothingLost`), and
  nothing is either once `Shutdown` has flushed (`ShutdownSaves`).

`RefusalProofs`, any models, panel refreshes, tokens, times and failures:

* `TypeCorrect`; the hard part is that a newest refusal exists (`LatestExists`).
* `NobodyAsksAgain` (`NoReask`). `SilencedInv`: a token a probe was refused for
  is pinned, and no probe is under way that could overwrite the memo. A restart
  empties the history, as it may lose the memo.
* `OnlyRefusedIsPinned` (`FingerprintNamesRefused`). A pin is made last, from
  what a tick decided, from what a probe or a request was told. `CurrentInv` says
  of each of these links that what it holds is of a token upstream stopped
  accepting, as long as logins are orderly, nothing restarts, and no tick takes
  a token it cannot read for the one refused (`Orderly`, the property's own
  exceptions). A refusal noted without a token names none.

`KickProofs`, any cap, panel refreshes, refusals and failures:

* `TypeCorrect`, with any number of tickers: the memo's count stays within the
  cap, since a tick writes one more than it saw below it (`CountsWithinCap`).
* `LoopGreetsWithinBounds` (`GreetingsBounded`), **for one ticker**: section 5
  shows that two break it although the count they write is within the cap.
  `Booked`: from the look to the greeting the memo is what the tick read, and it
  has counted every greeting but the one in progress.

`PartsProofs`, the small parts, for every size of each:

* Windows, of operators: `EffectiveIsNext` (a rolled boundary is the first one
  after now), `EffectiveAgrees` (rolling early and again is rolling once) and
  `RolledSettles` (what was rolled is not due again at the same time). The
  arithmetic of remainders is in `Quotient` and its lemmas.
* Locks: `LocksTypeCorrect`, and `NoDeadlock` (`SomeoneMoves`) for any number of
  goroutines. `Rank` orders the locks and every section nests upwards; of the
  waiting holders the one with the highest lock waits for a lock whose holder
  waits for nothing.
* Prices: `PricesTypeCorrect`, and `PricesAlwaysHold` (`PricesHold`) for any
  tables, names and efforts: refreshes and restarts only add to the names
  `Lookup` finds.
* Health: `HealthTypeCorrect`, and `OutagesAreReported` (`OutageReported`) for any
  credentials, models, headers and memory, while no success and failure share a
  second. `TellsAll`: each entry tells the last answer it was given, which ties
  the ledger to the history of what upstream said: a refusal stays in that
  history until its model is served or `clearRejection` lifts it on all.
* Probe budget: `ProbeTypeCorrect`, and `ProbesStayWithinBudget`
  (`ProbesBounded`) for any windows, day, cap, refreshes, failures, refusals and
  logins. `ProbeBooks`: the memo has counted every ask of its day but the one in
  flight, and no day before the memo's has asks to come. `ProbeFresh`: what is
  stored after an answered resync lies ahead of it (the reading was rolled), so
  no later tick finds an old boundary passed. `ProbeTimes` keeps readings, jobs
  and answers in the order of the clock.
* `PartsTypeCorrect` (`PartsTypeOK`): all six in the specification the run checks,
  where "no holder" is not a goroutine and "no list" not a list.

**The assumptions of single theorems.** One ticker (`Pool`, `Kick`, the
refinement of `AuthFile`), one reading at a time (`Meter`) and no reload
(`Persist`) are where the properties stop holding, not a convenience of the
proofs: TLC refutes each of them with two (`Ticker <- LoopAndRotate`,
`Slot <- TwoSlots`, `Reloads = TRUE`). The one exception is `EmptyGoesFirst`,
for which the search with two tickers is too large to finish and has found
nothing. What this says of the code: the rotator keeps its promises as long as
nobody calls `POST /rotate` beside its loop, the ledger as long as the readings
of one credential do not overtake each other, and `state.json` as long as no
replaced instance goes on beside the new one.

**Model-checked only**: liveness (`HandoverCompletes`, `ShortfallIsFilled`,
`ReLoginRestores`, `RefusedIsRetired`, `WaitingIsStarted`, `ChangeIsSaved`),
since fairness and `ENABLED` are beyond the prover. Every safety property of a
passing run is the subject of a theorem.

## 7. Plan

Done: the components of section 1 down to Pricing, and the proofs of section 6.
Left, in this order:

1. `PoolPromise`, an abstract pool (enough members, a budget, the back of the
   queue) that `Pool` implements under a refinement mapping; the same for
   `Persist` (a register that only moves forward).
2. The theorems that assume one ticker or one reading, under the weaker
   assumption that two never overlap on one credential.
3. `EstimateWith` as operators over `Meter`'s ledger, and `pruneSamples`.

## 8. Not modelled, and abstracted

* Reports, charts and estimates (`Report`, `EstimateWith`, hourly buckets) read
  the ledger and format it; `Meter` checks what they rely on. Of model health,
  sorting, names, ages and the single-point warning are left out.
* `Cost` is floating-point arithmetic, and how the catalog is fetched (through
  the host or directly) is one choice: prices, or an error. Transport and the
  parsing of answers and configuration are I/O; `main.go` is ABI glue; the panel
  is HTML, its routes are callers in the models.
* `Meter` counts in units, a request costing none or more; what requests that
  are billed nothing have cost stands for the counts `Failed` and `Unpriced` the
  code keeps of them; a look is a reading like any other; joining a window in its first point hides less than a point,
  and a restart as much again. `pruneSamples` (160 samples, 21 days), the split
  by model and `pruneEventLogs` are beyond the bounds.
* `Pool` leaves the order of `rank` among equals open, and treats `dry_run`,
  `confirm_before_switch` and `disable_dead_tokens` as constants; the runs use
  the default settings that write. Configuration does not change while a model
  runs, except the overrides of `Pricing`.
* `ProbeBudget` follows one credential and one tick at a time; how the pool
  orders its asks is `Pool`. A second tick (`POST /rotate`) reads and writes the
  same memo as a panel refresh does, and an overlap of two is excepted alike; it
  could also pass `probeAllowed` beside the first and ask once more.
  `pinRejection`, which marks the memo refused and keeps its count and cycle, is
  in `Refusal` and `Pool`. In `CredentialStore` a document is a token, a flag and
  a priority, in one of three conditions: whole, torn or absent.
* Critical sections are single actions: data races are not modelled, as every
  shared field the models use is read and written under a lock, except
  `standDown`, whose two callers can only both set it, and the price catalog,
  which `refresh` encodes for `prices.json` after it has let go of the lock
  (`pricing.go:179-183`); `Pricing` takes it as it was under the lock.
