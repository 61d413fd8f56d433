# Bronx in TLA+

Bronx is a Discord bot in C++ on the D++ library with MariaDB behind it: an
economy (wallets, banks, loans, trades, games), levels earned by chatting,
moderation, and a few hundred commands. This directory models the parts whose
correctness depends on the order in which threads, SQL statements and failures
happen, checks the models with TLC on small instances and proves the central
invariants with TLAPS for every instance.

Every command runs on a thread of its own (`src/command_handler.h`; `README.md:239`
"The events execute concurrently"), takes a connection from a shared pool for each
database call, and keeps nothing locked between two calls. That is the reason for
the level of detail here: one step is one SQL statement, one call of `Database` or
one critical section.

## The system

| Component | State | Operations | Talks to | What makes it correct |
|---|---|---|---|---|
| Connection pool, `database/core/connection_pool.cpp` | queue of idle connections, counter, mutex | acquire (ping, skip the dead, open more), release | every `Database` method | nobody shares a connection; the counter is exact; the pool stays bounded |
| Balances, `database/operations/user/user_operations.cpp`, `schema.sql` | `users` rows: wallet, bank, bank_limit, prestige | update_wallet, update_bank, update_bank_limit, deposit, withdraw, transfer_money, perform_prestige | pool, InnoDB row locks | every call is atomic, never overdraws, loses no concurrent change, tells the truth |
| Cooldowns, `cooldown_operations.cpp` | `cooldowns` rows | try_claim_cooldown | every timed reward | a claim is granted once per period; no set of claims waits for itself |
| Bank and loans, `commands/economy/bank.h`, `loan_operations.cpp` | the row, `user_loans` | deposit, withdraw, upgrade, take, confirm and pay a loan | balances | space is paid for; debt equals what was borrowed less what was paid |
| XP queue, `performance/xp_batch_writer.h` | three maps of sums, a flush thread | enqueue, flush, stop, level-up callback | `handle_message_xp`, `event_handlers.cpp`, user_xp tables | no award lost or counted twice; levels follow totals; each level-up announced once; stop() drains and returns |
| Trades and bazaar, `commands/economy/trading.h`, `bazaar.h`, `inventory_operations.cpp` | `trade_offers`, `bazaar_listings`, `user_inventory` | offer, accept, decline, cancel, sell, buy, expire | balances, inventory | items and coins are conserved |
| Punishments, `commands/moderation/infraction_engine.h`, `infraction_operations.cpp` | `guild_infractions` rows, timers in memory, what Discord enforces | punish, escalate, lift, pardon, change the duration, sweep, restore | Discord, `dpp::timer` | a temporary punishment ends when its row says so, across restarts, and not before |
| Payments, rewards, shop, rob, rebirth (`commands/economy/`) | wallets, cooldowns, inventory, daily totals | one handler per command or button | balances, cooldowns, inventory | what is taken is gone before anything is given; failures give back |
| Gambling (`commands/gambling/`), heists, raids, duels, word games | sessions in maps, most behind a mutex | join, start, play, resolve, pay out | balances | a session is resolved once, a stake is paid out once, nobody waits for ever |
| Fishing, mining, pets, crafting, ponds, claims, autofishers, crews | rows per user, sessions in maps | collect, sell, craft, upgrade | inventory, balances | a catch or a product is collected once |
| Server settings, reaction roles, tickets, giveaways, panels, staff | one row per setting, maps filled at start-up | read, change, write back; timers | Discord | concurrent changes of different things do not undo each other |
| Caches and write-behind queues (`performance/`) | maps with an expiry, an SQLite copy, queues | fill, invalidate, promote, sync, flush | MariaDB | what was queued reaches its table once |
| Quiet moderation | configuration maps | filter, punish | moderation | a match is acted on once |
| Logging, media, fun, configuration | none that commands share | | | |

`PROJECT.json` lists every component with its files and what is left out.

What is hard here: statements of two handlers in an order nobody tried; a value
read, checked and written back later as an absolute one; a result nobody looks at;
a connection lost in the middle of a transaction, which the reconnect option
silently replaces; locks taken in opposite orders, or twice by one thread; a gap
lock two claims share; sums that have left the queue and are not stored yet; a
timer that repeats because nobody stopped it; a restart between a row and its
timer; a shutdown that races the flush thread.

## The modules

| Module | Models | Correspondence |
|---|---|---|
| `Accounts` | one row and what each operation computes on it | pure operators: checks, 64-bit wrap-around, the columns' range |
| `Ledger` | what the balances promise: operations applied atomically | the abstract specification |
| `AccountStore` | the same operations, statement by statement | `pc[s]` is the next statement of session `s`; `lock` is InnoDB's row locks, `staged` the uncommitted rows; deadlock, refusal, lost connection, lock wait timeout and lost COMMIT are actions |
| `AccountStoreReconnect` | `AccountStore` plus calls whose START TRANSACTION was lost and that run on in autocommit mode | the reconnect option of `connection_pool.cpp:43` |
| `ConnectionPool` | acquire and release, one action per critical section; ping and connect happen between them | `total` is `total_connections_`; `Drop` is the caller that never releases (`raid_operations.cpp:28`) |
| `Claims` | what try_claim_cooldown promises: a claim happens at once | the abstract specification |
| `CooldownClaim` | its SELECT ... FOR UPDATE, decision, upsert and COMMIT, with retries | `lock` is the lock of a row that exists, `gap` the sessions that hold the gap of one that does not; `harmed` marks a call whose START TRANSACTION or SELECT failed unseen |
| `BankDesk` | every handler of the bank command as the list of calls it makes | a call on the row is one step, because `AccountStore` implements `Ledger` |
| `XpWriter` | message handlers, flush thread, stop() | one action per locked section, wait and statement; a flush's snapshot, read-backs and level updates are state |
| `Market` | trade offers and bazaar listings over the inventory | `task[h]` is the list of statements a command has left, with the values it read |
| `Punishments` | cases, timers and commands about one member | `work[m].pc` is where a command waits for Discord or the database; `timers` run, `known` is the map `get_active_timers`; `contested` marks a case two threads timed at once |
| `Statements` | how any other handler touches shared state | an errand is a list of statements on cells; `left[h]` is what is left of handler `h`'s |
| `Tables` | the `Database` operations handlers use, each as its statement on cells | conditional UPDATE, blind UPDATE, INSERT IGNORE and read-then-write differ in `do` |
| `EconomyErrands`, `GamblingErrands`, `OutdoorErrands`, `ServerErrands`, `CommunityErrands`, `RecordErrands`, `CacheErrands`, `ModerationErrands`, `GameErrands` | about 500 handlers of commands, buttons, events and timers, one definition each | the statements of the handler in its order; `PROJECT.json` maps each to its lines |
| `AccountStoreProofs`, `ConnectionPoolProofs`, `XpWriterProofs`, `CooldownClaimProofs`, `PunishmentsProofs`, `StatementsProofs`, `BankDeskProofs`, `MarketProofs` | theorems | |
| `MC...` | constants, symmetry and views for TLC | |

`BankDesk`, `Market` and the errands sit on top of the balances: they use
update_wallet, deposit and the others as single steps, and the refinement theorem
`StoreImplementsLedger` is what justifies it; in the same way the errands take a
cooldown in one step because of `ClaimsAreAtomic`. Operators marked *Mutant* are
plausible bugs; replacing the definition named after them by the mutant must break
the property it is listed with, which shows that the property depends on that piece
of code.

### Errands

Most of the bot is hundreds of short handlers. Each is written once as a list of
statements on cells; a cell is a column of one row or an entry of one map, and what
matters of its value is a small number: a price is one unit, a row is there or not,
a cooldown is over (1) or not. `Need`, `Trust` and `Below` are the early returns of
a handler (`Trust` when nothing asks again later), `Must` the conditional UPDATE
whose result is looked at, `Try` the one whose result is ignored, `Read` and `Write`
a value that goes through the bot's memory, `Sweep`, `Take` and `Deliver` rows that
are moved, `Lock` and `Unlock` a `std::mutex`. A command that branches is one errand
per branch, guarded by what takes it there.

`Statements` interprets them with any interleaving and compares the outcome with
the two orders in which the errands could have run one after the other. That only
holds where the code protects itself. Two patterns defeat it, and the module names
them instead of hiding them: `Spoils` (a check or a read the handler relies on later
is falsified by a statement of the other errand, and no common mutex is held) and
`Tears` (both change the same two cells, one of them whatever it holds, in two steps
that can be interleaved). Properties about outcomes speak of agendas without them.
Of the 3,305 pairs of errands that are checked, 1,903 are free of both; the others
are races the code accepts. In 679 pairs the outcome really is one no serial order
has, and each of those is excused by one of the patterns or by an errand that gives
back what it took.

## What the runs check

| Run | Bounds | What it shows |
|---|---|---|
| `account_store` | 2 users, 2 sessions, five kinds of operation, balances up to 2, bank limits of 1 lowered to 0 (granted to an empty bank, refused to a full one), faults on; 1.3 M states | `Solvent` no row overdrawn, over its bank limit, or wrapped; `NoLostUpdate` a value a session is about to commit is its operation applied to the newest rows; `ImplementsLedger` every step is one ledger operation or none |
| `account_store_live` | the same users and sessions, wallet changes, crossing transfers and prestige, no faults | `EveryCallReturns`; `TruthfulResult` ok exactly when the effect is in the table |
| `connection_pool` | 3 threads, 4 connections, maximum 2, 1 caller that never releases | `Accounting`, `Exclusive`, `PoolBounded`, and `AcquireEnds` |
| `cooldown_claim` | 2 sessions, 2 cooldowns in one gap or apart, a clock of 0 to 3 with the bot one second ahead, a cooldown of 2; 0.5 M states | `ImplementsClaims` every grant is an atomic claim; `NobodyStuck` a session moves or InnoDB sees the cycle |
| `bank_desk` | 1 user, 2 handlers, two presets, one free amount (all even, which `BooksBalanceAlone` needs), a loan rate of 100 %, incomes up to 3; 3.0 M states | interleaving: `RowSound`, `LoanIsOwed`, `LoanNotReplaced`; one handler after the other: `BooksBalanceAlone` |
| `xp_writer` | 1 user, 1 guild, global XP and coins, 2 gateway threads, 2 messages, awards of 1 and 3, levels at 2 and 3 XP | `XpConserved`, `LevelMatchesXp`, `LevelUpsAnnounced`, `AnnouncedOnce`, `StopDrains`, and with fairness `StopReturns`, `PendingIsFlushed` |
| `xp_writer_faults` | 1 handler, every statement may fail, unregistered user, one reset; 2.4 M states | `NeverTwice`: sums may be lost, never stored twice |
| `market` | 3 users, 2 commands at a time, 2 posts, 2 copies, prices 0 and 20 (the smallest price with a tax of a whole coin); 0.77 M states | `EscrowHoldsUncontested`, `NothingLost`, `CoinsConserved` |
| `errands` | 2 handlers, 2 users, 3,305 agendas, each from every start in which a shared cell has enough for one or for both; 0.35 M states | `Serializable`, `NothingMinted`, `DebitFirst` (at every statement, so a stop of the process is covered), `FailuresUndone`, `ClaimsExclusive`, `EveryErrandEnds` |
| `punishments` | 1 member, 2 moderators, bans and warnings of 0, 1 or 2 seconds, 3 commands, 2 cases, 1 crash; 3.4 M states | `TimersCoverRows`, `NoEarlyPardon` |
| `raid_rounds` (fails) | the clock and a raider | `RaidRoundsEnd`: the round waits for a mutex its own thread holds |
| `permanent_ban` (fails) | 2 moderators, 1 ban | `PermanentBansStay`: a timer, or a duration of 0, ends a permanent ban |

Why the bounds are enough: every hazard listed in `PROJECT.json` needs at most two
actors at once and one value that tells "before" from "after"; two sessions on two
rows include every crossing of locks, two sessions in one gap include the cycle gap
locks make, two levels include the skipped one, two copies include the partial
purchase, three commands include ban, unban, ban. Pairs of errands are checked
within an area when they meet on a cell that is not a balance, and every errand
beside a payment into and out of the same wallet; pairs that share nothing cannot
influence each other. With four commands of one kind `punishments` passes as well
(8.3 M states). Named bounds (`MaxBalance`, `MaxMessages`, `MaxPosts`, `MaxIncome`,
`MaxLimit`, `MaxLost`, `MaxResets`, `MaxPrestige`, `MaxCommands`, `MaxCases`,
`MaxTime`, `MaxCrashes`) only end the behaviours; except for `MaxBalance`, which is
the range of BIGINT and part of the code's checks, no code depends on them. Deadlock
checking is off where the behaviour ends: after stop(), when all posts have been made
and closed, when the commands are used up, and when every errand is done.

The histories (`spent`, `debt`, `alone`, `contested`, `doubled`, `tax`, `granted`,
`told`, `start`, `got`, ...) do not influence any action. `BankDesk`'s view forgets
`spent` and `debt` once handlers have overlapped, because no property reads them
after that.

### Disagreements between the code and what it says

The two failing runs are findings, quoted with their lines in `PROJECT.json`. More
configurations are kept beside the runs; each finds a counterexample and can be
repeated with `tlc -config <file>.cfg MC<module>.tla`:

| Configuration, module | Shows |
|---|---|
| `AccountStoreLost.cfg`, `MCAccountStoreReconnect` | `StillLedger`: START TRANSACTION's failure is ignored (`user_operations.cpp:340`) and the reconnect option runs the rest in autocommit mode, where an absolute UPDATE overwrites another call's change |
| `BankDeskFreeSpace.cfg`, `MCBankDesk` | `SpacePaidFor`: a wallet spent between the new limit and the debit (`bank.h:433`) gives the space away |
| `BankDeskUnpaid.cfg`, `MCBankDesk` | a loan shrinks and nothing is paid (`bank.h:586`) |
| `XpUnregistered.cfg`, `MCXpWriter` | `XpConserved`: the foreign key refuses the sum of a user who only chats, and it is dropped (`xp_batch_writer.h:215`) |
| `XpReset.cfg`, `MCXpWriter` | XP queued before a reset comes back |
| `MarketEscrow.cfg`, `MCMarket` | `EscrowHolds`: two commands on one offer both hand its items out (`trading.h:314`) |
| `MarketRows.cfg`, `MCMarket` | `OneRowEach`: two add_item calls make two rows (`inventory_operations.cpp:65`) |

What writing the errands and `Punishments` showed, beyond these:

- Prizes of giveaways are never taken from the treasury: `add_to_guild_balance(-prize)`
  returns false for amounts that are not positive (`server_economy_operations.cpp:640`),
  and `giveaways.h:455` does not look. A giveaway that cannot be created is refunded all
  the same.
- create_infraction's case number is not "atomic via FOR UPDATE"
  (`infraction_operations.cpp:24`): it is a plain SELECT MAX + 1. Two moderators at once
  draw one number, the unique key refuses one row, and that member stays punished
  without a case or a timer (`NumberTaken`).
- Timed mutes and jails are never lifted: the timer ends bans and timeouts only
  (`infraction_engine.h:209`). Escalation bans have no timer until the next restart, and
  restore_active_timers skips rows that ran out while the bot was down.
- launch_raid reads wallets, then debits them, and ignores both results
  (`global_boss_raid.h:326`).
- try_claim_cooldown ignores the results of START TRANSACTION, SELECT and COMMIT: a
  failing SELECT is taken for "no row", a lost COMMIT returns true without a row
  (`cooldown_operations.cpp:126`). `harmed` and the action for a lost COMMIT keep these
  apart from the claims the refinement speaks of.
- Slots applies what was won or lost twice: update_gambling_wallet and then
  apply_verified_gambling_winnings move the same coins (`slots.h:157`, `slots.h:162`).
- An expired minesweeper game is refunded before anyone asks whether it is still active
  (`minesweeper.h:686`), and the erase that was put off by 30 seconds drops whatever game
  the user has started meanwhile (`minesweeper.h:611`).
- poker.cpp destroys its lock_guard by hand and returns (`poker.cpp:384`, `405`, `411`,
  `423`): the scope destroys it again and unlocks a mutex another thread may hold by then.
  The errands have that stray `Unlock`, and it takes the mutex from whoever holds it.
  With two handlers there is nobody else to take it from; three threads would show it.
- A title is refunded when its debit was refused as well, because one condition holds
  both calls (`shop.cpp:716`, `BuyTitleUnpaid`); an item picked from the menu is not
  refunded when it cannot be stored (`shop.cpp:1553`, `SelectItemFails`).
- Losses at mines and frogger, and busts at blackjack, do not feed the jackpot that
  other losses feed. A lobby of russian roulette whose message cannot be sent keeps the
  host's stake. A heist's lobby timer ends whichever lobby its channel has by then, also
  one opened later; that it refunds nobody is meant (`heist.h:429`).
- A deleted message can be queued twice and the one before it never
  (`snipe_cache.h:70`). The key of the prefix cache mixes two ids in one word, so two
  users may share an entry (`optimized_command_handler.h:143`).

### Races the code accepts

These pairs have outcomes no serial order has; `Spoils` or `Tears` holds of each, so
`Serializable` does not speak of them: two payments that both pass the daily cap
(`pay.h:230`); two administrators writing back one settings row (`leveling.h:169`); two
views of the challenges that both assign three (`challenges.h:606`); a configuration read
before a change and cached after it (`xp_handler.h:48`); stakes and fees checked on a
wallet that other commands spend before a debit whose result is ignored (most gambling
games, `heist.h:397`); sales that sum rows up and delete them in a second statement; two
equips of one rod that each look at the other's row; XP added by read and write;
loading the reaction roles beside a change of them (`reactionrole.cpp:258`); joining or
voting in maps no mutex guards (`blacktea.h`, `poll.h`).

## Fairness

- `AccountStore`: weak fairness of each statement of a call (the server executes
  it or fails it), strong fairness of the two statements that take a lock (InnoDB's
  queues are first come, first served, so a session that could get the lock again and
  again gets it), weak fairness of the deadlock detector. Issuing calls is not fair.
- `ConnectionPool`: weak fairness of acquire's steps. The mutex is held for bounded
  sections; pings and connects end by their timeouts. Releasing is not fair: callers
  may keep a connection, and acquire() ends all the same because it opens more.
- `XpWriter`: weak fairness of the flush thread, of a flush under way and of stop()
  once it was called. The thread wakes by itself because wait_for times out. Messages
  and the call of stop() are not fair.
- `Statements`: weak fairness of each handler's next statement, and of a mutex it waits
  for. A handler is a thread that runs to its end, and with two handlers a mutex that is
  free stays free for the one that waits. `EveryErrandEnds` then fails only when a handler
  waits for a mutex nobody will give back.

## What is proved

All proofs are for any values of the constants that satisfy the named assumptions
(finite bounds are not assumed beyond those), faults included.

- `AccountStoreProofs`. `IInv` is `TypeOK`, `Solvent` and `InCall` for each session.
  `InCall` ties a session's `pc` to what it holds: the locks it needs by that
  statement, working rows equal to the operation applied to the rows as they are,
  and nothing applied yet. `Solvent` alone is not inductive, since a write comes
  from a row read earlier; `InCall` carries the fact that a locked row has not
  changed since. From it follow `TypeCorrect`, `AlwaysSolvent`, `LosesNoUpdate`,
  `ResultsAreTruthful` (for `Faults = FALSE`) and `StoreImplementsLedger`, the
  refinement of `Ledger` step by step. `CoinsAreMoved` is an action property on top
  of the refinement: a step of the table is update_wallet, update_bank or a prestige,
  or it moves coins between two rows and makes none. On rows that satisfy `Solvent`
  no sum of a deposit or a transfer wraps around, which is why it needs `IInv`.
  `WaitsCanEnd` (finitely many sessions): while a call is in progress some call can go on,
  or InnoDB finds a deadlock to break. A session that makes others wait holds its locks
  in a transaction; a smallest set of sessions closed under "waits for" is a cycle.
  The rest is about `AccountStoreReconnect`, calls that have lost their transaction, for
  which `Solvent` and the refinement fail. `InvR` keeps `InCall` for the calls that have a
  transaction and `BareCall` for the others (no lock, no negative value computed).
  `StaysNonNegative`: balances keep their sign and their sum stays in BIGINT.
  `KeptTransactionsLoseNothing` and `OnlyBareCallsDiffer`: nobody else's commit is
  affected, and a step that is not an operation of the ledger is the UPDATE of a call
  without a transaction. `NeverNegative`, `OnlyBareDiffer` and `InvR` hold on the instance
  of `AccountStoreLost.cfg` with two users and transfers (1,002,309 states).
- `ConnectionPoolProofs`. `IInv` is `TypeOK`, `Accounting`, `Exclusive` and
  `PoolBounded`, for any number of threads and connections. The counting argument
  uses cardinalities of the sets of held, pooled, opened and dropped connections.
  It gives `TypeCorrect`, `CounterIsExact`, `ConnectionsAreExclusive` and
  `PoolStaysBounded`.
- `XpWriterProofs`. `IInv` is `TypeOK`, `SnapEmpty` (between flushes nothing is
  swapped out) and `NeverTwice`. `StoresNothingTwice` holds whatever fails;
  `LosesNothing` adds that nothing is lost while no statement fails, no guild is
  reset and every user is registered.
  `LevelsMatch` (no failure, no reset) adds to
  `LevelMatchesXp` that the level the flush has in hand is the one of the total it
  read. `StoppingDrains` (no failure, no reset, all registered) needs `DrainInv`:
  sums only move forward, from a map to its copy and from the copy to a row (`Flows`),
  and once stop() drains, what was due has left each map the flush has swapped.
  The announcements (no failure, no reset) need `RaisedInv` (the events a flush has
  ready are levels its rows have reached and that were not handed out yet; what was
  handed out is at most the row's level) and `Promised` (a level that was reached has
  been announced or is among those events). They give `AnnouncedOnlyOnce`, and
  `LevelUpsReachCallback` for flushes that have no more events than the callback takes
  (`MaxPerFlush`, `event_handlers.cpp:221`). `FewEvents` proves, failures included, that a
  flush has at most one event per row of user_xp, so that `FewRowsAllAnnounced` gives
  `LevelUpsAnnounced` where there are no more rows than that. The run is such an instance
  (2 rows, 2 events); with more rows than events the code does drop announcements.
- `CooldownClaimProofs`. `IInv` is `TypeOK`, `Locks` and `Ages`. `Locks` says who holds
  what: a session that has decided holds its row, or the gap of a row that is still
  absent, unless a failure harmed it; hence two sessions that decide on one key never
  both write. `Ages` says that a row, or its absence, and the moment a session decided
  at tell of every earlier grant. Neither holds without the other: the row tells of
  all grants because whoever writes it locked it first. `ClaimsAreAtomic` is the
  refinement of `Claims`, and `NoSilentWait` is `NobodyStuck`. `GrantsAreApart` follows
  from the refinement: two moments at which a key was granted are a cooldown apart, less
  the seconds (`Ahead`) by which the bot's clock, which decides, is ahead of the
  database's, which writes the row.
- `MarketProofs`. The sums over rows, posts and wallets are counted as sets of units
  (`Total`), so that what one statement changes follows from facts about finite sets. The properties speak of moments at which no command is
  under way; the invariant has to say what a command owes in between. `Carried` is what it
  has taken out and must still hand on, `Claims` the posts it will still close or reduce
  after handing their items out, `Paid` and `Dues` the coins it moves or must still take.
  `Forms` lists the lists of statements a command can have left, `Room`, `Named` and
  `Offered` keep ids and quantities of posts sound. Then `Covered` says that the stocks,
  the hands and what the posts still cover are at least what there was, also when two
  commands claim one post (`NothingIsLost`); `Settled`, while no post is contested, that
  each open post has one claim at most and the sum is exact (`EscrowIsKept`); `Charged`,
  while nobody has had two purchases under way, that a buyer can still pay, so that the
  debit whose result is ignored succeeds (`CoinsAreConserved`). INSERTs that fail and
  the expiry of offers are included.
- `PunishmentsProofs`. `IInv` is `TypeOK`, `Names` (every timer, map entry and command
  names a case, and one command at a time is about a new one), `Agreement` (a case that
  was never contested has no timer the map does not know, and that timer does not end
  it before its row says) and `TimersCoverRows`. `TimersCoverRows` is not inductive
  because a change of duration stops the timers the map knows: it needs that the map
  knows all of them. `NoEarlyPardon` follows from `Agreement` for the step `Fire`.
- `StatementsProofs`. For any finite number of handlers and any errands: `IInv` is
  `Shape`, `Ends` (what a handler has left is the end of its errand) and `OneHolder`, from
  which `TypeCorrect` follows. What the errands promise when they meet is proved from
  conditions on each errand by itself. How many of the 3,305 agendas of the run meet them
  was counted with TLC.
  - `ClaimsAreExclusive` (`Claimed`): what is only got by conditional UPDATEs that are
    looked at is gone once it is got.
  - `MutexKeepsChecks`: if every errand reaches a cell under one mutex (`GuardedBy`) and
    unlocks only what it locked (`Disciplined`; 3,273 agendas, poker's stray `Unlock` is
    left out), what a handler checked of the cell under it stays true while it keeps the
    mutex. The invariant is `Locked`: what an errand has locked so far its handler holds.
  - `FailuresAreUndone`: an errand `GivesBack` if there is an account of what it owes each
    cell after each statement, nothing at its ends, that every statement keeps whatever
    the cell holds. `AllOwed` says a cell and what is owed to it are what there was. The
    four errands that fail half-way and refund (`BuyTitleFails`, `BuyFails`,
    `SellItemFails`, `EscrowFails`) are of this kind; `RefundGivesBack` shows how.
  - `DebitsComeFirst` and `NothingIsMinted`: an errand `PaysFirst` if it has an account of
    the coins it may still give, nothing at first, that no statement overdraws as long as
    the checks it relies on (`Trusted`) hold; it `PaysInFull` if it may start on credit
    and ends with it. `TrustStands` says that those checks still hold while no errand
    spoils another's, which needs `Locked`; `Covered`, that the wealth in the cells and
    the open accounts is at most what there was. 389 of the 445 errands pay first and 391
    in full, 2,453 and 2,469 of the agendas. The others are mostly paid from outside
    (rewards, winnings), which the properties except (`Mints`).
  - `OneMeetingIsSerial`: an errand meets the others from the first to the last statement
    on a cell somebody else reaches too. If that stretch is in one transaction, or in one
    hold of a mutex that all it shares a cell with hold over theirs (`MeetsOnce`), the
    handlers are serializable. `Merged` says that the cells are what they would be if
    those who have met had done their whole errands, in the order in which they met, and
    the others had not begun: `Outcome` is what a handler's remaining statements would
    leave. `Within` and `Locked` keep the others out during a meeting. No check is assumed
    unspoiled, so this holds beyond what `Serializable` speaks of. 1,676 agendas are
    `Disciplined` and meet once, 1,435 of the 1,889 of which `Serializable` speaks.
  - `NobodyIsStuck`: where no errand locks a mutex while it holds one or is in a
    transaction, which is so of all 445, some handler can go on until all have returned
    (`HeldByNow`, `Inside`); and `ErrandsShrink`: every step leaves fewer statements. With
    fairness that is `EveryErrandEnds`, whose last step is left to TLC. `raid_rounds`
    shows the errand for which the first condition fails.

  What `After` computes is reached without an induction theorem: `Climb` takes the least
  number at which a trace fails (`WFMin`).
- `BankDeskProofs`. `IInv` is `RowOK`, `LoanOK`, `TasksOK` (the sums a handler remembers)
  and `BooksOK`, and gives `TypeCorrect`, `RowStaysSound`, `LoansAreOwed` and
  `LoansStay` for any number of handlers. `BooksBalance` needs `AloneInv`: between
  handlers the books are settled, and inside one they are off by exactly what its last
  calls still have to do (`Halfway`). It has two hypotheses the code does not check. The
  sums of space are even: an odd `.bank upgrade` costs half a coin less than its space
  (`bank.h:35`, `bank.h:820`). And `MaxIncome + MaxLimit <= MaxBalance`: a wallet at the
  end of BIGINT refuses the loan's money and the handler does not look.

Only model-checked: liveness, which is out of the prover's reach; and the agendas outside
the conditions above: for `Serializable`,
errands that meet in several stretches and come out right because what they do there
commutes or because a conditional UPDATE notices; for `NothingMinted` and `DebitFirst`,
the eight errands that do not pay first and mint nothing either, because they hold a seat
or a stake, or read a value before they reset it (stakes under a mutex, the lottery's
pool, the autofisher's fish).

## Not modelled

Embeds, menus, text and permission rules; Discord itself, beyond accepting or refusing
a request; amounts inside the errands, where a price, a reward and a catch are one unit
each (the modules of the balances, the bank and the market have amounts); random
outcomes, which are errands of their own; what the servers' own economies share with the
global one, where it only repeats it over other tables; failures of statements inside
an errand other than the ones its variants name; agendas of three handlers; the pool's
destructor; components marked `not_modelled` in `PROJECT.json` with their reason: web
and media commands, logging, parsing of the configuration, scripts and the Lean files
have no state whose order matters. The leaderboards and most of the `*_query_*` files
only read. Code outside `src` is modelled from its use: InnoDB's row and gap locks and
deadlock detection, the client's reconnect option, `std::condition_variable`,
`std::mutex`, and `dpp::timer`, which repeats until it is stopped.

What a next step would add: agendas of three handlers for TLC, and conditions under which
errands that meet in several stretches are serializable as well.
