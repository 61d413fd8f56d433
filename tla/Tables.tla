------------------------------- MODULE Tables -------------------------------
(***************************************************************************)
(* The operations of the Database class that the handlers use, each as the *)
(* statement it makes on the cells it reaches.  A conditional UPDATE, a    *)
(* blind one and an INSERT IGNORE differ in what they do when another      *)
(* handler was there first; amounts are counted in units of one price.     *)
(* The operations of the users table with their transactions, locks and    *)
(* failures are in AccountStore; here each is the one step it comes to.    *)
(***************************************************************************)
EXTENDS Statements

Wallet(p)      == <<p, "wallet">>
Bank(p)        == <<p, "bank">>
Cooldown(p, c) == <<p, c>>                  \* 1 when it is over
Mutex(m)       == <<"mutex", m>>

Under(m, p)    == Lock(Mutex(m)) \o p \o Unlock(Mutex(m))

-----------------------------------------------------------------------------
(* Users, cooldowns, statistics.                                            *)

HasWallet(p)        == Need(Wallet(p), 1)
UpdateWalletAsked(p, n) ==                   \* mutant: a check, then a blind UPDATE
    Need(Wallet(p), IF n < 0 THEN -n ELSE 0) \o Try(Wallet(p), n)
UpdateWallet(p, n)  == Must(Wallet(p), n)
CanPay(p)           == Trust(Wallet(p), 1)
ChargeBlindly(p)    == Try(Wallet(p), -1)      \* update_wallet, its result ignored
UpdateServerWallet(p, n) == Must(Wallet(p), n)
UpdateServerBank(p, n) == Must(Bank(p), n)
HasBank(p)          == Trust(Bank(p), 1)
UpdateBank(p, n)    == Must(Bank(p), n)
TransferMoneyUnchecked(p, q) ==
                 \* mutant: the sender's balance is asked for first
    Need(Wallet(p), 1) \o Atomically(Try(Wallet(p), -1) \o Try(Wallet(q), 1))
TransferMoney(p, q) == Atomically(Must(Wallet(p), -1) \o Must(Wallet(q), 1))
SetPassive(p, on)   == Put(<<p, "passive">>, on)
IncrementStat(p, s) == Try(<<p, s>>, 1)
IncrementDailyStat(p, s) == Try(<<p, s>>, 1)
SetDailyStat(p, s, n) == Put(<<p, s>>, n)
TryClaimCooldownAnyway(p, c) == Try(Cooldown(p, c), -1)  \* mutant: rows not looked at
\* try_claim_cooldown: one transaction finds the cooldown over and starts it.
TryClaimCooldown(p, c) == Must(Cooldown(p, c), -1)
IsOffCooldown(p, c) == Trust(Cooldown(p, c), 1)
SetCooldown(p, c)   == Put(Cooldown(p, c), 0)
LogHistory(p)       == Try(<<p, "history">>, 1)
\* Statistics, milestones, challenges of the day: counts that only go up.  One
\* statement stands for those a handler makes in a row; what they may unlock is
\* GrantAchievement, and their blow at the global boss HitBoss.
Tally(p)            == Try(<<p, "records">>, 1)
PerformPrestige(p)  ==
    Atomically(Put(Wallet(p), 0) \o Put(Bank(p), 0) \o Try(<<p, "prestige">>, 1)
               \o Put(<<p, "fish">>, 0) \o Put(<<p, "rod">>, 0))

-----------------------------------------------------------------------------
(* Inventory.                                                               *)

Owns(p, i)      == Need(<<p, i>>, 1)
OwnsNot(p, i)   == Below(<<p, i>>, 1)
AddItem(p, i)   == Try(<<p, i>>, 1)
RemoveItemChecked(p, i) ==
    Need(<<p, i>>, 1) \o Try(<<p, i>>, -1)     \* mutant: asked first, then taken blindly
RemoveItem(p, i) == Must(<<p, i>>, -1)
RemoveBlindly(p, i) == Try(<<p, i>>, -1)       \* remove_item, its result ignored
DeleteItemForAll(p, i) == Put(<<p, i>>, 0)
UpdateItemMetadata(p, i, n) == Put(<<p, i>>, n)
AddFishCatch(p) == Try(<<p, "caught">>, 1)

-----------------------------------------------------------------------------
(* Market of a server, jackpot, lottery, the server's own balance.          *)

InStock(i)      == Trust(<<"market", i>>, 1)
\* The column is signed; to its readers anything below 0 means what 0 means.
AdjustStock(i)  == Drain(<<"market", i>>, 1)
CreateMarketItem(i) == Must(<<"market", i>>, 1)
UpdateMarketItem(i, n) == Write(<<"market", i>>, n)
DeleteMarketItem(i) == Put(<<"market", i>>, 0)
ContributeToJackpot == Try(<<"bot", "pool">>, 1)
\* The pool is read, emptied where it is not empty, and what was read is won.
TryWinJackpot   == Read(<<"bot", "pool">>) \o Empty(<<"bot", "pool">>)
StartEvent      == Put(<<"bot", "event">>, 1)
EndActiveEvent  == Put(<<"bot", "event">>, 0)
ExpireEvents    == Put(<<"bot", "event">>, 0)
GetMlSetting(k) == Read(<<"bot", k>>)
SetMlSetting(k, n) == Write(<<"bot", k>>, n)
DeleteMlSetting(k) == Put(<<"bot", k>>, 0)
UpdateLotteryTickets(p) == Try(<<p, "tickets">>, 1)
AddToGuildBalance == Try(<<"guild", "balance">>, 1)
=============================================================================
