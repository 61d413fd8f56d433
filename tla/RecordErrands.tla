---------------------------- MODULE RecordErrands ----------------------------
(***************************************************************************)
(* Gear, pets, challenges, the machines that fish and mine for a user, the *)
(* prices of the shop, and the timers that work through them.              *)
(***************************************************************************)
EXTENDS OutdoorErrands

Shop(k) == <<"shop", k>>

-----------------------------------------------------------------------------
(* The rod a user fishes with and the one the machine has: 1 is the rod at  *)
(* stake, which both are not to use.                                        *)

Rod(p)     == <<p, "rodInHand">>
AutoRod(p) == <<p, "autoRod">>
NotInHand(p) == Below(Rod(p), 1)
SetActiveRod(p, n) == Put(Rod(p), n)
SetActiveBait(p, n) == Put(<<p, "baitInHand">>, n)
NotInMachine(p) == Below(AutoRod(p), 1)
AutofisherSetRod(p, n) == Put(AutoRod(p), n)
AutofisherSetBait(p, n) == Put(<<p, "baitInMachine">>, n)
\* Each looks at the other's column and writes its own.
EquipRod(p) == Owns(p, "oak rod") \o NotInMachine(p) \o SetActiveRod(p, 1)
EquipNone(p) == SetActiveRod(p, 0) \o SetActiveBait(p, 0)
EquipMachine(p) == NotInHand(p) \o Owns(p, "oak rod") \o AutofisherSetRod(p, 1)
ServerRod(p, n) == Put(<<p, "serverRod">>, n)
ServerBait(p, n) == Put(<<p, "serverBait">>, n)
HasServerRod(p) == Need(<<p, "serverRod">>, 1)
CreateFishCatch(p) == Try(<<p, "unsold">>, 1)
UnsoldFish(p) == Read(<<p, "unsold">>)
\* The value is summed up from the list; the UPDATE sells all that is there by then.
ServerSellAllFish(p) == UnsoldFish(p) \o Put(<<p, "unsold">>, 0)

-----------------------------------------------------------------------------
(* Pets, skills, prestige, challenges.                                      *)

PetXp(p) == <<p, "petXp">>
UserPets(p) == Read(PetXp(p))
UpdatePetStats(p) == Write(PetXp(p), 1)
\* Every command that has a pet along: level and experience are read, then set.
AwardPetXp(p) == UserPets(p) \o UpdatePetStats(p)
InsertPet(p) == Try(<<p, "pets">>, 1)
FeedRow(p) == Put(<<p, "hunger">>, 1)
DeletePet(p) == Try(<<p, "pets">>, -1)
RenameRow(p) == Put(<<p, "petName">>, 1)
HasPet(p) == Trust(<<p, "pets">>, 1)
ReleasePet(p) == HasPet(p) \o DeletePet(p)
RenamePet(p) == HasPet(p) \o RenameRow(p)
UserSkills(p) == Below(<<p, "invested">>, 2)
InvestSkillPoint(p) == Try(<<p, "invested">>, 1)
ResetAllSkills(p) == Put(<<p, "invested">>, 0)
Invest(p) == UserSkills(p) \o InvestSkillPoint(p)
EnsureUser(p) == Try(<<p, "row">>, 1)
GetStat(p, s) == Read(<<p, s>>)
GetDailyStat(p, s) == Read(<<p, s>>)
SetPrestige(p, n) == Put(<<p, "prestige">>, n)
IncrementPrestige(p) == Try(<<p, "prestige">>, 1)
UpdateChallengeStreak(p) == Try(<<p, "challengeStreak">>, 1)
TrackVariety(p) == Fill(<<p, "variety">>)
TrackAttempt(p) == Try(<<p, "attempts">>, 1)
StreakStats(p) == Read(<<p, "streak">>)
\* What the caller computed from the row it read replaces the row.
UpdateDailyStreak(p) == Write(<<p, "streak">>, 1)
DailyStreak(p) == StreakStats(p) \o UpdateDailyStreak(p)
Challenges(p) == <<p, "challenges">>        \* the sets of three given out today
NoChallenges(p) == Below(Challenges(p), 1)
AssignDailyChallenge(p) == Try(Challenges(p), 1)
UpdateChallengeStatus(p) == Put(<<p, "challengeDone">>, 1)
\* Three are drawn where the first look found none: two looks at once draw six.
ViewChallenges(p) == NoChallenges(p) \o AssignDailyChallenge(p)
CompleteChallenge(p) == Trust(<<p, "challengeStat">>, 1) \o UpdateChallengeStatus(p)
ClearHistory(p) == Put(<<p, "history">>, 0)
CatchBatch(p) == Try(<<p, "caught">>, 1)

-----------------------------------------------------------------------------
(* The machines.                                                            *)

HasAutofisher(p) == Need(<<p, "autofisher">>, 1)
UpgradeEfficiency(p) == Try(<<p, "efficiency">>, 1)
AutofisherBalance(p) == Read(<<p, "afBalance">>)
DepositToAutofisher(p) == Try(<<p, "afBalance">>, 1)
WithdrawFromAutofisher(p) == Must(<<p, "afBalance">>, -1)
ActiveAutofishers(p) == Trust(<<p, "afActive">>, 1)
LastRun(p) == Trust(<<p, "afDue">>, 1)
StampRun(p) == Put(<<p, "afDue">>, 0)
SetMaxDraw(p) == Put(<<p, "maxDraw">>, 1)
SetAutosell(p) == Put(<<p, "autosell">>, 1)
StoreFish(p) == Try(<<p, "stored">>, 1)
StoredFish(p) == Read(<<p, "stored">>)
\* The sum is read by one statement, the rows deleted by the next.
ClearStored(p) == Read(<<p, "stored">>) \o Put(<<p, "stored">>, 0)
\* Due, stamped, then run: a run that fails is not made up for.
AutofisherTimer(p) ==
    ActiveAutofishers(p) \o HasAutofisher(p) \o LastRun(p) \o StampRun(p)
    \o RunAutofisher(p)
MinerDue(p) == Trust(<<p, "miner">>, 1) \o Trust(<<p, "minerDue">>, 1)
StampMiner(p) == Put(<<p, "minerDue">>, 0)
Mine(p) == Owns(p, "pickaxe") \o UpdateWallet(p, 1) \o IncrementStat(p, "ores")
AutominerTimer(p) == MinerDue(p) \o StampMiner(p) \o Mine(p)

-----------------------------------------------------------------------------
(* Prices of the shop.                                                      *)

GetShopItem == Read(Shop("item"))
CreateShopItem == Fill(Shop("item"))
UpdatePrice == Put(Shop("price"), 1)
UpdateShopItem == Write(Shop("item"), 1)
DeleteShopItem == Put(Shop("item"), 0)
\* One field is changed and the whole item written back.
ItemUpdate == GetShopItem \o UpdateShopItem
ItemDelete == DeleteShopItem
TitleAdd == CreateShopItem
TitleEdit == Put(Shop("item"), 2)
TitleCommand == TitleAdd
CleanTitles(p) == DeleteItemForAll(p, "active")
RecordFishingLog == Try(<<"logs", "fishing">>, 1)
\* The logs are averaged once; each level's price is moved where it then stands.
TuneBaitPrices ==
    GetMlSetting("regime") \o Put(<<"bot", "lastRegime">>, 1)
    \o Need(<<"logs", "fishing">>, 1) \o Try(Shop("bait"), 1)
    \o Try(<<"logs", "priceChanges">>, 1) \o Drain(Shop("bait"), 1)
TuneCommand == TuneBaitPrices
MlSet == Put(<<"bot", "regime">>, 1)
MlDelete == DeleteMlSetting("regime")

-----------------------------------------------------------------------------
(* Economy of a server, donations, giveaways.                               *)

CreateGuildEconomy == Try(<<"guild", "settings">>, 1)
GuildEconomySettings == Read(<<"guild", "economyMode">>)
EnsureServerUser(p) == Try(<<p, "serverRow">>, 1)
GetServerUser(p) == Trust(<<p, "serverRow">>, 1)
\* A stored procedure.
TransferServerMoney(p, q) == TransferMoney(p, q)
EnsureGuildBalance == Try(<<"guild", "balanceRow">>, 1)
GiveawayBalance == Trust(<<"guild", "balance">>, 1)
LogServerCommand == Try(<<"guild", "commands">>, 1)
\* Debited first; the row of the treasury is made if there was none.
DonateToGuild == EnsureGuildBalance \o Try(<<"guild", "balance">>, 1)
EnterRow(p) == Fill(<<p, "entry">>)
EntriesOf(p) == Need(<<p, "entry">>, 1)
EndRow == Put(<<"guild", "giveaway">>, 0)
ActiveGiveaways == Trust(<<"guild", "giveaway">>, 1)
=============================================================================
