--------------------------- MODULE OutdoorErrands ---------------------------
(***************************************************************************)
(* Fishing, mining, crafting, pets, ponds, claims, crews, challenges,      *)
(* rebirth, the global boss and the games of two players, as errands.      *)
(***************************************************************************)
EXTENDS Tables

Charge(p) == HasWallet(p) \o UpdateWallet(p, -1)     \* its result looked at
ChargeUnseen(p) == CanPay(p) \o ChargeBlindly(p)     \* its result ignored
Fish(p) == <<p, "fish">>

-----------------------------------------------------------------------------
(* Fish and ores sold, to the shop and to the commodity market.             *)

SellFish(p) ==
    Owns(p, "fish") \o RemoveItem(p, "fish") \o UpdateWallet(p, 1) \o Tally(p)
    \o LogHistory(p)
\* Each fish taken is paid for, whatever the ones listed before.
SellAllFish(p) ==
    Take(Fish(p)) \o Take(Fish(p)) \o Deliver(Wallet(p)) \o Tally(p) \o LogHistory(p)
\* The next thing of that name is tried when one cannot be removed.
SellCommodity(p) == Owns(p, "fish") \o RemoveItem(p, "fish") \o UpdateWallet(p, 1)
SellOre(p) == Owns(p, "ore") \o RemoveItem(p, "ore") \o UpdateWallet(p, 1) \o Tally(p)
SellAllOres(p) ==
    Take(<<p, "ore">>) \o Take(<<p, "ore">>) \o Deliver(Wallet(p)) \o Tally(p)
SellOreSlash(p) == SellOre(p)
SellAllOresSlash(p) == SellAllOres(p)

-----------------------------------------------------------------------------
(* Fishing and mining: a session in a map under its mutex.  The cooldown is  *)
(* asked for when it starts and begins when it ends.                        *)

Hooked(p) == <<p, "hooked">>
Digging(p) == <<p, "digging">>
PrepareFish(p) == Owns(p, "rod") \o Owns(p, "bait") \o RemoveItem(p, "bait")
\* The session is looked for under the mutex and entered under a later hold of it.
FishBegins(p) ==
    IsOffCooldown(p, "cast") \o Under("fishing", Below(Hooked(p), 1))
    \o PrepareFish(p) \o Under("fishing", Put(Hooked(p), 1))
\* The message could not be sent or edited: the bait goes back.
FishNotSent(p) ==
    Lock(Mutex("fishing")) \o Need(Hooked(p), 1) \o AddItem(p, "bait")
    \o Put(Hooked(p), 0)
FishEscapes(p) ==
    Lock(Mutex("fishing")) \o Need(Hooked(p), 1) \o SetCooldown(p, "cast")
    \o Put(Hooked(p), 0)
CompleteFish(p) ==
    AddItem(p, "fish") \o AddFishCatch(p) \o IncrementStat(p, "fishCaught")
ReelIn(p) ==
    Under("fishing", Empty(Hooked(p))) \o CompleteFish(p) \o SetCooldown(p, "cast")
    \o Tally(p)
ReelInTooEarly(p) ==
    Lock(Mutex("fishing")) \o Empty(Hooked(p)) \o SetCooldown(p, "cast")
MineBegins(p) ==
    IsOffCooldown(p, "mine") \o Under("mining", Below(Digging(p), 1)) \o Owns(p, "pick")
    \o Lock(Mutex("mining")) \o Put(Digging(p), 1) \o SetCooldown(p, "mine")
\* Each ore of the bag is given under the mutex, and the session is dropped.
FinalizeMining(p) == AddItem(p, "ore") \o IncrementStat(p, "oresMined")
MineStops(p) ==
    Lock(Mutex("mining")) \o Need(Digging(p), 1) \o FinalizeMining(p)
    \o Put(Digging(p), 0)
\* Clicked too late: the bag may rip, and nothing of it is kept.
MineRips(p) == Lock(Mutex("mining")) \o Need(Digging(p), 1) \o Put(Digging(p), 0)
MineTimesOut(p) == MineStops(p)

-----------------------------------------------------------------------------
(* Crafting.                                                                *)

\* Ingredients are counted first and taken after, their results ignored.
HasIngredients(p) == CanPay(p) \o Trust(Fish(p), 1)
ConsumeIngredients(p) == ChargeBlindly(p) \o RemoveBlindly(p, "fish")
Craft(p) ==
    HasIngredients(p) \o ConsumeIngredients(p) \o AddItem(p, "lure")
    \o IncrementStat(p, "crafted")
CraftSlash(p) == Craft(p)

-----------------------------------------------------------------------------
(* Ponds and claims: income that is due once.                               *)

Due(p, x) == <<p, x>>
BuildPond(p) == Below(<<p, "pond">>, 1) \o ChargeUnseen(p) \o Put(<<p, "pond">>, 1)
\* The fish in it are counted before the next is put in.
StockPond(p) ==
    Need(<<p, "pond">>, 1) \o Below(<<p, "stocked">>, 1) \o Owns(p, "fish") \o RemoveItem(p, "fish")
    \o Try(<<p, "stocked">>, 1)
StockPondSlash(p) == StockPond(p)
\* collect_pond_income: six hours begin anew, whether or not they were over.
CollectPondIncome(p) == Put(Due(p, "pondDue"), 0)
CollectPond(p) ==
    Trust(Due(p, "pondDue"), 1) \o CollectPondIncome(p) \o UpdateWallet(p, 1)
BuildPondSlash(p) == BuildPond(p)
CollectPondSlash(p) == CollectPond(p)
UpgradePond(p) ==
    Read(<<p, "pondLevel">>) \o ChargeUnseen(p) \o Write(<<p, "pondLevel">>, 1)
UpgradePondSlash(p) == UpgradePond(p)
BuyClaim(p) == Below(<<p, "claim">>, 1) \o ChargeUnseen(p) \o Put(<<p, "claim">>, 1)
CollectClaim(p) ==
    Trust(Due(p, "claimDue"), 1) \o Put(Due(p, "claimDue"), 0) \o UpdateWallet(p, 1)
RenewClaim(p) == Need(<<p, "claim">>, 1) \o ChargeUnseen(p) \o Put(<<p, "renewed">>, 1)
AbandonClaim(p) == Put(<<p, "claim">>, 0)
BuyClaimSlash(p) == BuyClaim(p)
CollectClaimSlash(p) == CollectClaim(p)
RenewClaimSlash(p) == RenewClaim(p)

-----------------------------------------------------------------------------
(* Pets.                                                                    *)

\* At most five, none twice: asked of a list read before; the INSERT is of a unique row.
AdoptPet(p) == Below(<<p, "pet">>, 1) \o ChargeUnseen(p) \o Put(<<p, "pet">>, 1)
AdoptPetSlash(p) == AdoptPet(p)
FeedPet(p) == Trust(<<p, "hungry">>, 1) \o ChargeUnseen(p) \o Put(<<p, "hungry">>, 0)
FeedPetSlash(p) == FeedPet(p)
\* Two statements: all off, then one on.
EquipPet(p, x) == Put(<<p, "fox">>, 0) \o Put(<<p, "owl">>, 0) \o Put(<<p, x>>, 1)

-----------------------------------------------------------------------------
(* Skills, challenges, streaks, milestones, rebirth.                        *)

\* Points come with prestige; what is free is what has not been invested.
InvestSkill(p) == Below(<<p, "invested">>, 2) \o Try(<<p, "invested">>, 1)
ResetSkills(p) ==
    Trust(<<p, "invested">>, 1) \o CanPay(p) \o ChargeBlindly(p) \o Put(<<p, "invested">>, 0)
ClaimChallenge(p) ==
    Trust(<<p, "challenge">>, 1) \o Put(<<p, "challenge">>, 0) \o UpdateWallet(p, 1)
    \o LogHistory(p)
\* The row is read, and written back with the day and a bonus for the day reached.
Streak(p) ==
    Below(<<p, "streakToday">>, 1) \o Read(<<p, "streak">>)
    \o Atomically(Write(<<p, "streak">>, 1) \o Put(<<p, "streakToday">>, 1))
    \o UpdateWallet(p, 1) \o LogHistory(p)
\* The value before and after tell whether a milestone was passed.
Milestone(p) == Read(<<p, "servers">>) \o Try(<<p, "servers">>, 1)
Rebirth(p) ==
    Trust(<<p, "prestige">>, 1) \o Read(<<p, "rebirth">>)
    \o Atomically(Put(Wallet(p), 0) \o Put(Bank(p), 0) \o Put(<<p, "prestige">>, 0)
       \o Put(Fish(p), 0) \o Put(<<p, "claim">>, 0) \o Put(<<p, "pond">>, 0)
       \o Put(<<p, "invested">>, 0) \o Write(<<p, "rebirth">>, 1))
RebirthSlash(p) == Rebirth(p)

-----------------------------------------------------------------------------
(* The autofisher: bought and filled by its owner, emptied by a runner.     *)

Auto(p, x) == <<p, x>>
CreateAutofisher(p) == Try(Auto(p, "autofisher"), 1)
\* Whoever has none when a command first asks is given one.
RequireAf(p) == Below(Auto(p, "autofisher"), 1) \o CreateAutofisher(p)
ActivateAuto(p) ==
    RequireAf(p) \o Atomically(Need(Auto(p, "autofisher"), 1) \o Put(Auto(p, "running"), 1))
DeactivateAuto(p) == Put(Auto(p, "running"), 0)
DepositBait(p) ==
    Owns(p, "bait") \o RemoveItem(p, "bait") \o Try(Auto(p, "autoBait"), 1)
\* The column goes down to 0 whatever is asked, and the item is given all the same.
ConsumeBait(p) == Drain(Auto(p, "autoBait"), 1)
WithdrawBait(p) == Trust(Auto(p, "autoBait"), 1) \o ConsumeBait(p) \o AddItem(p, "bait")
TryBuyBait(p) ==
    Below(Auto(p, "autoBait"), 1) \o HasBank(p) \o UpdateBank(p, -1)
    \o Try(Auto(p, "autoBait"), 1)
\* The bait is of the configuration read before: what was drawn since is fished with too.
RunAutofisher(p) ==
    Owns(p, "rod") \o Trust(Auto(p, "autoBait"), 1) \o ConsumeBait(p)
    \o Try(Auto(p, "autoFish"), 1) \o AddFishCatch(p)
RunBuying(p) ==
    Owns(p, "rod") \o TryBuyBait(p) \o ConsumeBait(p) \o Try(Auto(p, "autoFish"), 1)
    \o AddFishCatch(p)
\* The values are summed, then the fish deleted: one caught in between is lost.
AutofisherClearFish(p) == Read(Auto(p, "autoFish")) \o Put(Auto(p, "autoFish"), 0)
SellAutoFish(p) == AutofisherClearFish(p) \o Deliver(Wallet(p))
SellAutoFishSlash(p) == SellAutoFish(p)
CollectAutoFish(p) == AutofisherClearFish(p) \o Deliver(Fish(p))

-----------------------------------------------------------------------------
(* The global boss: counters, one defeat, one distribution.                 *)

BossLeft == <<"boss", "hp">>               \* 1 until the goals are met
Rewards == <<"boss", "rewards">>           \* 1 until they are marked as distributed
\* Asked first, marked last: all the rewards are paid in between.
DistributeBossRewards(p) ==
    Trust(Rewards, 1) \o AddItem(p, "box") \o UpdateWallet(p, 1) \o AddItem(p, "bait")
    \o Put(Rewards, 0)
HitBoss(p) ==
    Drain(BossLeft, 1) \o Try(<<p, "hits">>, 1)
    \o Atomically(Below(BossLeft, 1) \o Trust(<<"boss", "alive">>, 1))
    \o Put(<<"boss", "alive">>, 0) \o DistributeBossRewards(p)

-----------------------------------------------------------------------------
(* Crews.                                                                   *)

CreateCrew(p) == Below(<<p, "crew">>, 1) \o ChargeUnseen(p) \o Put(<<p, "crew">>, 1)
\* The name is taken: the fee is given back.
CreateCrewFails(p) == Below(<<p, "crew">>, 1) \o ChargeUnseen(p) \o UpdateWallet(p, 1)
\* The crew is looked up and its seats are counted before the row is inserted.
JoinCrew(p) ==
    Below(<<p, "crew">>, 1) \o Trust(<<"crew", "name">>, 1) \o Below(<<"crew", "members">>, 2)
    \o Atomically(Fill(<<p, "crew">>) \o Try(<<"crew", "members">>, 1))
LeaveCrew(p) ==
    Need(<<p, "crew">>, 1) \o Atomically(Empty(<<p, "crew">>)
    \o Try(<<"crew", "members">>, -1))
KickFromCrew(p) == LeaveCrew(p)
DisbandCrew(p) ==
    Need(<<p, "crew">>, 1) \o Atomically(Put(<<p, "crew">>, 0)
    \o Put(<<"crew", "members">>, 0)) \o Put(<<"crew", "name">>, 0)

-----------------------------------------------------------------------------
(* Games of two: both stakes are taken, or none is kept.                    *)

Escrow(p, q) == UpdateWallet(p, -1) \o UpdateWallet(q, -1)
\* The second player cannot pay: the first is given the stake back.
EscrowFails(p, q) == CanPay(p) \o CanPay(q) \o UpdateWallet(p, -1) \o UpdateWallet(p, 1)
AcceptTicTacToe(p, q) ==
    CanPay(p) \o CanPay(q) \o Below(<<"ttt", "escrow">>, 1) \o Escrow(p, q)
    \o Put(<<"ttt", "escrow">>, 2)
TicTacToeEnds(p) ==
    Trust(<<"ttt", "escrow">>, 2) \o Put(<<"ttt", "escrow">>, 0) \o UpdateWallet(p, 2)
EscrowReactFails(p, q) == EscrowFails(p, q)
AcceptReact(p, q) ==
    CanPay(q) \o CanPay(p) \o Below(<<"react", "escrow">>, 1) \o Escrow(p, q)
    \o Put(<<"react", "escrow">>, 2)
\* The host may cancel a game that has begun: its stakes go with it.
CancelReact == Put(<<"react", "escrow">>, 0)
ReactEnds(p) ==
    Trust(<<"react", "escrow">>, 2) \o Put(<<"react", "escrow">>, 0)
    \o UpdateWallet(p, 2)
=============================================================================
