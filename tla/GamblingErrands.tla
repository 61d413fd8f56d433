--------------------------- MODULE GamblingErrands --------------------------
(***************************************************************************)
(* The gambling games as errands.  A stake is charged without a look at    *)
(* the result of the charge, kept in a map of the process while the game   *)
(* runs (cells "stake", "chips"), and paid back by a button or a timer.    *)
(* What a game pays is counted as the stake given back: what a win adds    *)
(* is left out, so that coins a race makes can be told from winnings.  A   *)
(* button that is not the last of its game leaves the stake where it is.   *)
(***************************************************************************)
EXTENDS Tables

Stake(p, g) == <<p, g>>                    \* 1 while the entry says active
Bet(p)      == CanPay(p) \o ChargeBlindly(p)
\* The players of a session are paid one by one for what they have in it.
PayOut(p, c) == Read(c) \o Deliver(Wallet(p)) \o Put(c, 0)

-----------------------------------------------------------------------------
(* Games of one command: verified against the balance read before.          *)

\* create_gambling_transaction writes its line before anything is verified.
OpenBet(p) == LogHistory(p)
\* verify_gambling_transaction: go on only if the balance is what it was.
VerifyBet(p) == Same(Wallet(p))
ApplyBet(p, n) == UpdateWallet(p, n) \o LogHistory(p)
VerifiedBet(p) == Read(Wallet(p)) \o OpenBet(p) \o VerifyBet(p)
\* Counts and challenges after a game; a loss told with its amount feeds the jackpot.
Track(p) == Tally(p)
TrackLoss(p) == ContributeToJackpot \o Track(p)
\* A win may bring the jackpot, read and emptied before it is paid.
TrackJackpot(p) == TryWinJackpot \o Deliver(Wallet(p)) \o Track(p)
CoinflipWin(p) ==
    TryClaimCooldown(p, "coinflip") \o CanPay(p) \o VerifiedBet(p) \o ApplyBet(p, 1)
    \o Track(p)
CoinflipLoss(p) ==
    TryClaimCooldown(p, "coinflip") \o CanPay(p) \o VerifiedBet(p) \o ApplyBet(p, -1)
    \o TrackLoss(p)
CoinflipSlash(p) == CoinflipWin(p)
DiceWin(p) ==
    TryClaimCooldown(p, "dice") \o CanPay(p) \o VerifiedBet(p) \o ApplyBet(p, 1)
    \o Track(p)
DiceLoss(p) ==
    TryClaimCooldown(p, "dice") \o CanPay(p) \o VerifiedBet(p) \o ApplyBet(p, -1)
    \o TrackLoss(p)
DiceSlash(p) == DiceWin(p)
\* The reels turn for a second and a half before a thread applies the result, and
\* applies it twice: update_gambling_wallet, then apply_verified_gambling_winnings,
\* of which it does not look whether the wallet covered the second time.
SlotsApply(p, n) ==
    VerifiedBet(p) \o UpdateWallet(p, n) \o Try(Wallet(p), n) \o LogHistory(p)
SlotsWin(p) ==
    TryClaimCooldown(p, "slots") \o CanPay(p) \o SlotsApply(p, 1) \o Track(p)
SlotsLoss(p) ==
    TryClaimCooldown(p, "slots") \o CanPay(p) \o SlotsApply(p, -1) \o TrackLoss(p)
SlotsSlash(p) == SlotsWin(p)
JackpotWon(p) == UpdateWallet(p, 1) \o TrackJackpot(p)

-----------------------------------------------------------------------------
(* Lottery: the pool is a setting, read and written back.                   *)

Lottery(p) ==
    Bet(p) \o LogHistory(p) \o UpdateLotteryTickets(p) \o Read(<<"bot", "lottery">>)
    \o SetMlSetting("lottery", 1)
LotterySlash(p) == Lottery(p)

-----------------------------------------------------------------------------
(* Crash: the map is under crash_mutex, the wallet is not.  An entry stays  *)
(* for half a minute after its game, and no new game starts meanwhile.      *)

CrashEntry(p) == <<p, "crashEntry">>
CrashStart(p) ==
    TryClaimCooldown(p, "crashed") \o Under("crash", Below(CrashEntry(p), 1)) \o Bet(p)
    \o Under("crash", Atomically(Put(CrashEntry(p), 1) \o Put(Stake(p, "crash"), 1)))
CrashNotSent(p) ==
    Lock(Mutex("crash")) \o Need(CrashEntry(p), 1) \o UpdateWallet(p, 1)
    \o Atomically(Put(CrashEntry(p), 0) \o Put(Stake(p, "crash"), 0))
\* The mutex is given back and taken again before the loss is told.
CrashTick(p) ==
    Under("crash", Empty(Stake(p, "crash")))
    \o Lock(Mutex("crash")) \o Need(CrashEntry(p), 1) \o TrackLoss(p)
CrashCashOut(p) ==
    Under("crash", Empty(Stake(p, "crash"))) \o UpdateWallet(p, 1) \o Track(p)
CrashForgotten(p) ==
    Under("crash", Atomically(Put(CrashEntry(p), 0) \o Put(Stake(p, "crash"), 0)))

-----------------------------------------------------------------------------
(* Minesweeper: some buttons take the mutex, some do not.                   *)

MinesEntry(p) == <<p, "minesEntry">>
MinesKept(p) ==
    Under("mines", Atomically(Put(MinesEntry(p), 1) \o Put(Stake(p, "mines"), 1)))
MinesStart(p) == TryClaimCooldown(p, "mined") \o Bet(p) \o LogHistory(p) \o MinesKept(p)
MinesStartSlash(p) == TryClaimCooldown(p, "mined") \o Bet(p) \o MinesKept(p)
\* The loss is told without its amount: the jackpot gets nothing.
MinesHit(p) == Trust(Stake(p, "mines"), 1) \o Put(Stake(p, "mines"), 0) \o Track(p)
MinesCleared(p) ==
    Trust(Stake(p, "mines"), 1) \o Put(Stake(p, "mines"), 0) \o UpdateWallet(p, 1)
    \o Track(p)
\* The whole click is under the mutex.
MinesCashOut(p) ==
    Lock(Mutex("mines")) \o Trust(Stake(p, "mines"), 1) \o UpdateWallet(p, 1)
    \o Track(p) \o Put(Stake(p, "mines"), 0)
\* A game older than five minutes is refunded whether or not it is still active.
MinesExpired(p) ==
    Lock(Mutex("mines")) \o Need(MinesEntry(p), 1) \o Put(Stake(p, "mines"), 0)
    \o UpdateWallet(p, 1) \o Put(MinesEntry(p), 0)
\* Half a minute after a game its thread erases what is under the player's key,
\* a game started meanwhile included.
MinesForgotten(p) ==
    Under("mines", Atomically(Put(MinesEntry(p), 0) \o Put(Stake(p, "mines"), 0)))

-----------------------------------------------------------------------------
(* Frogger and blackjack: maps without a mutex.                             *)

FroggerStart(p) ==
    TryClaimCooldown(p, "frogged") \o Bet(p) \o LogHistory(p) \o Put(Stake(p, "frog"), 1)
FroggerStartSlash(p) == FroggerStart(p)
FroggerHit(p) == Trust(Stake(p, "frog"), 1) \o Put(Stake(p, "frog"), 0) \o Track(p)
\* Paid first, then no longer active: two clicks at once are paid twice.
FroggerCashOut(p) ==
    Trust(Stake(p, "frog"), 1) \o UpdateWallet(p, 1) \o Put(Stake(p, "frog"), 0)
    \o Track(p)
BlackjackStart(p) ==
    TryClaimCooldown(p, "dealt") \o Bet(p) \o LogHistory(p) \o Put(Stake(p, "bj"), 1)
BlackjackStartSlash(p) == BlackjackStart(p)
BlackjackDealt(p) ==
    TryClaimCooldown(p, "dealt") \o Bet(p) \o LogHistory(p) \o UpdateWallet(p, 1)
    \o Track(p)
\* finish_game: no longer active first, then paid.
FinishGame(p, n) ==
    Trust(Stake(p, "bj"), 1) \o Put(Stake(p, "bj"), 0) \o UpdateWallet(p, n) \o Track(p)
\* Going over 21 is told nobody: no count, no history, no share for the jackpot.
BlackjackHitBusts(p) == Trust(Stake(p, "bj"), 1) \o Put(Stake(p, "bj"), 0)
BlackjackStand(p) == FinishGame(p, 1)
\* The second stake goes in without a look at the charge, and is paid with the first.
BlackjackDouble(p) == Trust(Stake(p, "bj"), 1) \o Bet(p) \o FinishGame(p, 2)
BlackjackDoubleBusts(p) ==
    Trust(Stake(p, "bj"), 1) \o Bet(p) \o Put(Stake(p, "bj"), 0)
BlackjackSplit(p) == Trust(Stake(p, "bj"), 1) \o Bet(p) \o Put(Stake(p, "bj"), 2)

-----------------------------------------------------------------------------
(* Roulette: a table per command, no mutex.                                 *)

Table == <<"table", "open">>
TableEntry == <<"table", "entry">>
Chips(p) == <<p, "chips">>
RouletteStart == Put(TableEntry, 1) \o Put(Table, 1)
RouletteBet(p) == Trust(Table, 1) \o Bet(p) \o LogHistory(p) \o Try(Chips(p), 1)
RouletteNumber(p) == RouletteBet(p)
\* The spin copies the bets to a thread that pays some seconds later and erases the
\* table then, unless the results have several pages.
RouletteSpin(p) == Trust(Table, 1) \o Put(Table, 0) \o Read(Chips(p))
RoulettePays(p) ==
    RouletteSpin(p) \o Deliver(Wallet(p)) \o Track(p) \o Put(Chips(p), 0)
    \o Put(TableEntry, 0)
\* Cancelling asks for the table, not whether it is spinning.
RouletteCancel(p) ==
    Trust(TableEntry, 1) \o Read(Chips(p)) \o Deliver(Wallet(p)) \o LogHistory(p)
    \o Put(Chips(p), 0) \o Put(TableEntry, 0)

-----------------------------------------------------------------------------
(* Russian roulette: a table per command, no mutex; p's stake is in the pot. *)

Pot(p) == <<p, "pot">>
Lobby == <<"rr", "open">>
RRCreate(p) == Bet(p) \o Put(Pot(p), 1) \o Put(Lobby, 1)
\* The lobby's message is not sent: the table is erased with the stake.
RRNotSent(p) == RRCreate(p) \o Put(Pot(p), 0) \o Put(Lobby, 0)
RRJoin(p) == Trust(Lobby, 1) \o Below(Pot(p), 1) \o Bet(p) \o Try(Pot(p), 1)
RRStart == Trust(Lobby, 1) \o Put(Lobby, 0)
\* The last one standing: no longer active, then the pot is paid.
RRLastShot(p) == Trust(Pot(p), 1) \o Put(Pot(p), 0) \o UpdateWallet(p, 1) \o TrackLoss(p)
RRShoot(p) == RRLastShot(p)

-----------------------------------------------------------------------------
(* Poker: every handler is under g_poker_mutex, its database calls included. *)

Seat(p) == <<p, "seat">>
Turn(p) == <<p, "turn">>
PokerGame == <<"poker", "game">>           \* the entry, half a minute longer than the hand
PokerOpen == <<"poker", "open">>           \* not started yet
Poker(p) == Lock(Mutex("poker")) \o p
PokerStart(p) ==
    Poker(Below(PokerGame, 1) \o Bet(p) \o Put(PokerGame, 1) \o Put(PokerOpen, 1)
          \o Put(Seat(p), 1))
PokerJoin(p) ==
    Poker(Need(PokerOpen, 1) \o Below(Seat(p), 1) \o Bet(p) \o Put(Seat(p), 1))
PokerJoinText(p) == PokerJoin(p)
\* The host's button gives the mutex back before start_poker_game asks again.
PokerBegins(p) ==
    Under("poker", Need(PokerOpen, 1))
    \o Poker(Need(PokerOpen, 1) \o Put(PokerOpen, 0) \o Put(Turn(p), 1))
\* start_poker_game with one player: the stack is given back.
PokerTooFew(p) ==
    Poker(Need(PokerOpen, 1) \o PayOut(p, Seat(p)) \o Put(PokerOpen, 0)
          \o Put(PokerGame, 0))
\* Asked for is only the entry: that this is reached once is the turn's doing.
PokerShowdown(p) ==
    Under("poker", Need(PokerGame, 1) \o PayOut(p, Seat(p)) \o TrackLoss(p))
PokerFoldWin(p) ==
    Under("poker", Need(PokerGame, 1) \o PayOut(p, Seat(p)) \o Track(p))
\* advance_phase destroys its lock_guard by hand, so that the mutex is free for what
\* it calls, and the scope destroys it again: a mutex nobody has or another thread
\* has just locked is unlocked.
AdvancePhase(p) == Under("poker", Need(PokerGame, 1)) \o p \o Unlock(Mutex("poker"))
\* A player acts out of turn or twice: the queue of those to act is asked first.
PokerAction(p) == Under("poker", Must(Turn(p), -1))
PokerLastAction(p) == PokerAction(p) \o AdvancePhase(PokerShowdown(p))
PokerLastFold(p) == PokerAction(p) \o AdvancePhase(PokerFoldWin(p))
PokerCpuActs(p) == PokerLastAction(p)
PokerForgotten == Under("poker", Put(PokerGame, 0))

-----------------------------------------------------------------------------
(* The heist of commands/social: everything under its mutex.                *)

Robber(p) == <<p, "robber">>
HeistSession == <<"heist", "session">>     \* the entry of the channel
Heist == <<"heist", "lobby">>              \* not started yet
HeistStart(p) ==
    Lock(Mutex("social")) \o Below(HeistSession, 1) \o Bet(p) \o Put(HeistSession, 1)
    \o Put(Heist, 1) \o Put(Robber(p), 1)
HeistStartSlash(p) == HeistStart(p)
\* The timer of a lobby erases the session of its channel that has not started, a
\* later one included, and has no database to give the fees back with.
HeistTimesOut(p) ==
    Lock(Mutex("social")) \o Need(Heist, 1) \o Put(HeistSession, 0) \o Put(Heist, 0)
    \o Put(Robber(p), 0)
HeistJoin(p) ==
    Lock(Mutex("social")) \o Need(Heist, 1) \o Below(Robber(p), 1) \o Bet(p)
    \o Put(Robber(p), 1)
HeistBegins == Lock(Mutex("social")) \o Need(Heist, 1) \o Put(Heist, 0)
HeistPays(p) ==
    Lock(Mutex("social")) \o Need(HeistSession, 1) \o PayOut(p, Robber(p))
    \o Put(HeistSession, 0)
\* The vault withstands: the fees are lost.
HeistFails(p) ==
    Lock(Mutex("social")) \o Need(HeistSession, 1) \o Put(Robber(p), 0)
    \o Put(HeistSession, 0)
HeistCancel(p) ==
    Lock(Mutex("social")) \o Need(Heist, 1) \o PayOut(p, Robber(p)) \o Put(Heist, 0)
    \o Put(HeistSession, 0)
=============================================================================
