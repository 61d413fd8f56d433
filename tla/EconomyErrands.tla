--------------------------- MODULE EconomyErrands ---------------------------
(***************************************************************************)
(* The economy commands as errands: what each does to shared state, in the *)
(* order of the code.  A command that branches is one errand per branch,   *)
(* each guarded by what takes it there; every price is one unit, and a tax  *)
(* or a fee less than one.                                                 *)
(***************************************************************************)
EXTENDS Tables

-----------------------------------------------------------------------------
(* Claims: a cooldown is started and a reward paid.                         *)

\* The wallet is credited, then the line of the history and the counts.
Earn(p)   == UpdateWallet(p, 1) \o LogHistory(p) \o IncrementStat(p, "earned")
Daily(p)  == TryClaimCooldown(p, "daily") \o Earn(p) \o Tally(p)
Weekly(p) == TryClaimCooldown(p, "weekly") \o Earn(p)
Work(p)   == TryClaimCooldown(p, "work") \o Earn(p) \o Tally(p)
\* The cooldown is spent before the bank is found empty.
BankInterest(p) == TryClaimCooldown(p, "interest") \o HasBank(p) \o UpdateWallet(p, 1)
\* Asked first, started last: nothing keeps two of them apart.
SupportDaily(p) ==
    IsOffCooldown(p, "support") \o UpdateWallet(p, 1) \o SetCooldown(p, "support")

-----------------------------------------------------------------------------
(* Payments between users.                                                  *)

\* do_pay_checks: the pair's cooldown, and what the recipient got today.
PayChecks(p, q) == IsOffCooldown(p, "pay") \o Below(<<q, "gotToday">>, 1)
RecordPayStats(p, q) ==
    Try(<<q, "gotToday">>, 1) \o SetCooldown(p, "pay") \o Tally(p)
Pay(p, q) ==
    HasWallet(p) \o PayChecks(p, q) \o UpdateWallet(p, -1) \o UpdateWallet(q, 1)
    \o LogHistory(p) \o LogHistory(q) \o RecordPayStats(p, q)
\* The same payment by slash command.
PaySlash(p, q) == Pay(p, q)
\* The credit fails and the debit is not given back.
PayFails(p, q) == HasWallet(p) \o PayChecks(p, q) \o UpdateWallet(p, -1)

-----------------------------------------------------------------------------
(* Robbery and passive mode.                                                *)

RobChecks(p, q) ==
    IsOffCooldown(p, "rob") \o OwnsNot(p, "passive") \o IsOffCooldown(p, "passiveOver")
    \o OwnsNot(q, "passive") \o CanPay(p) \o Need(Wallet(q), 1)
\* The transfer may be refused; only a transfer starts the cooldown.
RobSuccess(p, q) ==
    RobChecks(p, q) \o TransferMoney(q, p) \o SetCooldown(p, "rob")
    \o LogHistory(p) \o LogHistory(q) \o IncrementStat(p, "earned")
RobFined(p, q) ==
    RobChecks(p, q) \o ChargeBlindly(p) \o LogHistory(p) \o SetCooldown(p, "rob")
\* Caught by the police, a part of the wallet is gone.
RobCaught(p, q) == RobFined(p, q)
RobSlash(p, q) == RobSuccess(p, q)
\* That the rich may not ask is left out.
PassiveAsk(p) ==
    IsOffCooldown(p, "passiveOver") \o IsOffCooldown(p, "rob")
    \o Put(<<p, "asked">>, 1)
PassiveAskSlash(p) == PassiveAsk(p)
\* The whole click is under passive_confirm_mutex, its writes included; the
\* cooldown of a robbery made since the question is not asked again.
PassiveConfirm(p) ==
    Lock(Mutex("passive_confirm")) \o Empty(<<p, "asked">>)
    \o SetPassive(p, 1) \o SetCooldown(p, "passiveOver")

-----------------------------------------------------------------------------
(* The shop.                                                                *)

\* A title of which one is to be had: both checks count rows of the inventory.
BuyTitle(p) ==
    Below(<<"bot", "titleOwners">>, 1) \o OwnsNot(p, "title") \o HasWallet(p)
    \o UpdateWallet(p, -1)
    \o Atomically(AddItem(p, "title") \o Try(<<"bot", "titleOwners">>, 1))
BuyTitleFails(p) ==
    Below(<<"bot", "titleOwners">>, 1) \o OwnsNot(p, "title") \o HasWallet(p)
    \o UpdateWallet(p, -1) \o UpdateWallet(p, 1)
\* The debit is refused because the coins have been spent meanwhile: what was never
\* taken is given back.
BuyTitleUnpaid(p) ==
    Below(<<"bot", "titleOwners">>, 1) \o OwnsNot(p, "title") \o CanPay(p)
    \o Below(Wallet(p), 1) \o UpdateWallet(p, 1)
SelectTitle(p) == BuyTitle(p)
\* The debit's result is ignored.
BuyLootbox(p) == CanPay(p) \o ChargeBlindly(p) \o AddItem(p, "box") \o LogHistory(p)
BuyLootboxSlash(p) == BuyLootbox(p)
Buy(p) == HasWallet(p) \o UpdateWallet(p, -1) \o AddItem(p, "item") \o LogHistory(p)
BuyFailsUnpaid(p) == HasWallet(p) \o UpdateWallet(p, -1)     \* mutant: no refund
BuyFails(p) == HasWallet(p) \o UpdateWallet(p, -1) \o UpdateWallet(p, 1)
BuySlash(p) == Buy(p)
SelectItem(p) == Buy(p)
\* Bought from the menu, an item that cannot be stored is paid all the same.
SelectItemFails(p) == HasWallet(p) \o UpdateWallet(p, -1)
SelectBaitAmount(p) == HasWallet(p) \o UpdateWallet(p, -1) \o AddItem(p, "item")
SellItem(p) ==
    Owns(p, "item") \o RemoveItem(p, "item") \o UpdateWallet(p, 1) \o LogHistory(p)
SellItemFails(p) == Owns(p, "item") \o RemoveItem(p, "item") \o AddItem(p, "item")
SellItemSlash(p) == SellItem(p)
\* What is used is removed without a look at the result, and what it brings is given.
Use(p, i) == Trust(<<p, i>>, 1) \o RemoveBlindly(p, i)
OpenLootbox(p) == Use(p, "box") \o UpdateWallet(p, 1) \o LogHistory(p)
UseBoost(p) == Use(p, "boost") \o Put(<<p, "boosted">>, 1) \o LogHistory(p)
UseTool(p) == Use(p, "tool") \o UpdateWallet(p, 1) \o LogHistory(p)

-----------------------------------------------------------------------------
(* The market of a server.                                                  *)

MarketBuy(p) ==
    InStock("role") \o HasWallet(p) \o UpdateWallet(p, -1) \o AdjustStock("role")
    \o Try(<<p, "role">>, 1)
\* A quantity of 0 or less is taken for no limit at all.
MarketBuyUnlimited(p) ==
    Below(<<"market", "role">>, 1) \o HasWallet(p) \o UpdateWallet(p, -1)
    \o Try(<<p, "role">>, 1)
\* An administrator changes one field by writing the whole row back.
MarketUpdate == Read(<<"market", "role">>) \o UpdateMarketItem("role", 0)
MarketCreate == CreateMarketItem("role")
MarketDelete == DeleteMarketItem("role")

-----------------------------------------------------------------------------
(* Prestige and achievements.                                               *)

\* The requirements are met outside the transaction that resets everything.
Prestige(p) == CanPay(p) \o Trust(<<p, "fish">>, 1) \o PerformPrestige(p)
PrestigeSlash(p) == Prestige(p)
\* A statistic passes a threshold: the achievement is granted if it is missing.
GrantAchievement(p) ==
    IncrementStat(p, "stat") \o Need(<<p, "stat">>, 1) \o OwnsNot(p, "achievement")
    \o AddItem(p, "achievement") \o AddItem(p, "reward")
=============================================================================
