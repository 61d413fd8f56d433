------------------------------ MODULE MCErrands ------------------------------
(***************************************************************************)
(* Instances of the errands for TLC: every two errands of one area that    *)
(* meet on something else than a balance, and every errand beside itself   *)
(* and beside a payment in and a payment out of the same wallet.           *)
(***************************************************************************)
EXTENDS EconomyErrands, GamblingErrands, RecordErrands, CommunityErrands, CacheErrands,
        ModerationErrands, GameErrands

CONSTANTS h1, h2

Economy(p, q) ==
    {Daily(p), Weekly(p), Work(p), BankInterest(p), SupportDaily(p), Pay(p, q), Pay(q, p),
     PayFails(p, q), RobSuccess(p, q), RobSuccess(q, p), RobFined(p, q), PassiveAsk(p),
     PassiveConfirm(p), PassiveConfirm(q), BuyTitle(p), BuyTitle(q), BuyTitleFails(p),
     BuyTitleUnpaid(p), BuyLootbox(p), Buy(p), BuyFails(p), SelectItemFails(p),
     SellItem(p), SellItemFails(p), OpenLootbox(p), UseBoost(p), UseTool(p),
     MarketBuy(p), MarketBuy(q), MarketBuyUnlimited(p), MarketUpdate, MarketCreate,
     MarketDelete, Prestige(p), GrantAchievement(p)}

Gambling(p, q) ==
    {CoinflipWin(p), CoinflipLoss(p), DiceWin(p), DiceLoss(p), SlotsWin(p), SlotsLoss(p),
     JackpotWon(p), JackpotWon(q), Lottery(p), Lottery(q), CrashStart(p), CrashNotSent(p),
     CrashTick(p), CrashCashOut(p), CrashForgotten(p), MinesStart(p), MinesHit(p),
     MinesCleared(p), MinesCashOut(p), MinesExpired(p), MinesForgotten(p),
     FroggerStart(p), FroggerHit(p), FroggerCashOut(p), BlackjackStart(p),
     BlackjackDealt(p), BlackjackStand(p), BlackjackHitBusts(p), BlackjackDouble(p),
     BlackjackDoubleBusts(p), BlackjackSplit(p), RouletteStart, RouletteBet(p),
     RoulettePays(p), RouletteCancel(p), RRCreate(p), RRNotSent(p), RRJoin(p), RRStart,
     RRLastShot(p), PokerStart(p), PokerJoin(p), PokerJoin(q), PokerBegins(p),
     PokerTooFew(p), PokerLastAction(p), PokerLastFold(p), PokerForgotten, HeistStart(p),
     HeistStart(q), HeistTimesOut(p), HeistJoin(p), HeistBegins, HeistPays(p),
     HeistFails(p), HeistCancel(p)}

Outdoor(p, q) ==
    {SellFish(p), SellAllFish(p), SellOre(p), SellAllOres(p), FishBegins(p), FishNotSent(p),
     FishEscapes(p), ReelIn(p), ReelInTooEarly(p), MineBegins(p), MineStops(p), MineRips(p),
     Craft(p),
     BuildPond(p), StockPond(p), CollectPond(p), UpgradePond(p), BuyClaim(p),
     CollectClaim(p), RenewClaim(p), AbandonClaim(p), AdoptPet(p), FeedPet(p),
     EquipPet(p, "fox"), EquipPet(p, "owl"), InvestSkill(p), ResetSkills(p),
     ClaimChallenge(p), Streak(p), Milestone(p), Rebirth(p), ActivateAuto(p),
     DeactivateAuto(p), DepositBait(p), WithdrawBait(p), RunAutofisher(p), RunBuying(p),
     SellAutoFish(p), CollectAutoFish(p), HitBoss(p), HitBoss(q), CreateCrew(p),
     CreateCrewFails(p), JoinCrew(p), JoinCrew(q), LeaveCrew(p), DisbandCrew(p),
     EscrowFails(p, q), AcceptTicTacToe(p, q), TicTacToeEnds(p), TicTacToeEnds(q),
     AcceptReact(p, q), CancelReact, ReactEnds(p)}

Servers(p, q) ==
    {CreateGiveaway, CreateGiveawayFails, EnterGiveaway(p), EnterGiveaway(q),
     EndGiveaway(p), EndGiveawayEmpty(p), Payout(p), OpenTicket(p), CloseTicket,
     ClaimTicket(p), ClaimTicket(q), SetupTickets, CreateRolePanel, AddRoleToPanel,
     SetPoints, SetDuration, SetEscalation, AutomodCommand, RaidCommand,
     LevelConfigCommand, SendCompletion, SetEconomyMode(0), LogConfig, ClearLogConfig,
     PublicStats, ServerProfile, ClearServerProfile, CachedLevelingConfig,
     XpFromMessage(p), CleanUpCooldowns(p), AddXpBlacklist(p), RemoveXpBlacklist(p),
     CreateLevelRole, DeleteLevelRole, AddAutorole, RemoveAutorole, ClearAutoroles,
     AddReactionRole, AddFetchedReactionRole, RemoveReactionRole, ConfirmReactionCheck,
     NextReaction, CancelNextReaction, AddAutopurge(p), RemoveAutopurge(p),
     AutopurgeTick(p), AddPrefix(p), RemovePrefix(p), AddGuildPrefix, RemoveGuildPrefix,
     OptOut(p), OptIn(p), DeleteAllUserData(p), OwnerGive(p), OwnerTake(p),
     OwnerGiveAll(p, q), OwnerItem(p), OwnerTakeItem(p), PurgeUser(p), SetModule(1),
     SetCommand(1), Blacklist(p, 1), Whitelist(p, 1), SpawnEvent, ForceEvent,
     EquipTitle(p), UnequipTitle(p)}

Community(p, q) ==
    {AddBugReport, DeleteBugReport, BugReportForm(p), Suggest(p), DeleteSuggestion,
     AddPatchNote, DeletePatch, TicketButton(p), TicketClosed, CreateTicketPanel,
     AddPanelRole, AddXp(p), SetXp(p), ResetGuildXp(p, q), ResetUserGuildXp(p),
     AnnounceLevel(p), CreateLevelRole, DeleteLevelRoleById, LevelConfigCommand,
     XpFromMessage(p), BlacklistXp(p), UnblacklistXp(p), IsXpBlacklisted(p),
     SetOptedOut(p, 1), CacheIdentity(p), CachedIdentity(p), PurgeIdentities(p),
     InsertReactionRole, DropReactionRole, ReactionAdded(p), Unreact(p), SyncReactions(p),
     LoadReactionRoles, StartReactionCheck, ConfirmReactionCheck, SyncCommand(p),
     AddReactionRole, RemoveReactionRole, SetLogConfig, HasLogConfig, ClearAllLogConfigs,
     LogBeta, SetPublicStats, PublicStatsOn, GuildProfile, UpdateGuildProfile,
     AutomodConfig, AutomodCommand, GuildModConfig, UpsertGuildModConfig, SetModule(0),
     SetCommand(0), Dispatch(p), EventMessage(p), EventEdit, EventDelete, AwardTitle(p),
     AwardRankTitle(p), RevokeTitle(p)}

Records(p, q) ==
    {EquipRod(p), EquipNone(p), EquipMachine(p), ServerRod(p, 1), HasServerRod(p),
     CreateFishCatch(p), ServerSellAllFish(p), AwardPetXp(p), InsertPet(p), ReleasePet(p),
     RenamePet(p), Invest(p), ResetAllSkills(p), SetPrestige(p, 0), IncrementPrestige(p),
     Prestige(p), TrackVariety(p), DailyStreak(p), ViewChallenges(p), CompleteChallenge(p),
     ClearHistory(p), CatchBatch(p), UpgradeEfficiency(p), DepositToAutofisher(p),
     WithdrawFromAutofisher(p), AutofisherBalance(p), AutofisherTimer(p), StoreFish(p),
     ClearStored(p), SellAutoFish(p), AutominerTimer(p), ItemUpdate, CreateShopItem,
     DeleteShopItem, TitleEdit, UpdatePrice, RecordFishingLog, TuneBaitPrices, MlSet,
     MlDelete, DonateToGuild, TransferServerMoney(p, q), GetServerUser(p),
     EnsureServerUser(p), EnterRow(p), EntriesOf(p), EndRow, ActiveGiveaways}

Caches(p, q) ==
    {HybridRead(p, "banned"), Promote(p, "banned"), SyncBlacklist(p),
     AddToList(p, "banned"), RemoveFromList(p, "banned"), CachedRead(p, "banned"),
     LocalCleanup(p, "banned"), EvictOldest(p, "banned"), InvalidateUser(p), BacBans(p),
     IsGuildModuleEnabled("guild"), SyncToggles("guild"), SyncSettings("guild"),
     SetToggle("guild", 0), SetToggle("guild", 1), HybridInventory(p), HybridAddItem(p),
     FlushItems(p), LocalFlush(p), HybridStat(p), HybridIncrementStat(p),
     FlushStatDeltas(p), HybridShopItems, CachedUpdateWallet(p), HybridGetWallet(p),
     FlushWallet(p), CacheUser(p), EnqueueBoost, EnqueueUsage,
     EnqueueActivity, VoiceJoins(p), VoiceLeaves(p), FlushVoiceSessions(p), FlushLogs,
     FlushStats, FlushVoice, FlushMinutes, FlushBoosts, FlushUsage, FlushActivity,
     AddDeleted(1), AddDeleted(2), FlushDeleted, BacCheck(p), BacExpires(p), BacRegular(p),
     BacWrongAnswer(p), BacWrongAgain(p), BacSolved(p), AddCachedPrefix(p),
     HandleMessage(p), HandleSlashCommand(p), PlainHandleMessage(p)}

Moderation(p, q) ==
    {Mute(p), Ban(p), Timeout(p), Kick(p), Warn(p), Warn(q), Note(p), Jail(p), Softban(p),
     Lockdown, Unlocks, MassBan(p, q), MassMute(p, q), Unban(p), Unmute(p), Untimeout(p),
     Unjail(p), Pardon(p), EditDuration(p), EditReason, Purge, Slowmode, BanExpires(p),
     TimeoutExpires(p), ExpirySweep(p), AccountGuard(p), CheckNickname(p), Antispam(p),
     AntispamBans(p), UrlGuard(p), TextFilter(p), ReactionFilter(p), SetUrlGuard(1),
     SetReactionFilter(1), SetTextFilter(1), SetAntispam(1), JoinGate(p), JoinGate(q),
     UpdateRaidSettings(1), AddGuildStaff, RemoveGuildStaff, SetGlobalAdmin(0),
     ModmailSetup, ModmailMessage(p), ModmailPicked(p), ModmailAsks(p), ModmailClosed(p),
     SetFeatureFlag(1), DeleteFeatureFlag, WhitelistFeature, UnlistFeature,
     CreateRoleClass, UpdateRoleClass, DeleteRoleClass, AssignRole, RemoveRole,
     CheckCommandAllowed}

Games(p, q) ==
    {VaultStart(p), VaultStart(q), VaultJoin(p), VaultJoin(q), VaultBegins,
     VaultBeginsEarly, VaultTooFew(p), VaultClick(p), VaultAdvances(p), VaultPays(p),
     RaidStart(p), RaidStart(q), RaidJoin(p), RaidJoin(q), RaidTooFew(p), RaidLaunch(q),
     RaidLaunchTaxesBank(q), RaidAction(p), SpawnBoss, BossProgress, TeaStart, TeaNotSent,
     TeaJoin(p), TeaPause, TeaResume, TeaCancel, TeaCountdown(p), TeaWord(p), TeaWord(q),
     CreatePoll, Vote(p, "yes"), Vote(p, "no"), VoteIfAllowed(p, "yes"), InitializePrices,
     FluctuatePrices, ClassifyMarket}

Areas == {Economy("ann", "bob"), Gambling("ann", "bob"), Outdoor("ann", "bob"),
          Servers("ann", "bob"), Community("ann", "bob"), Records("ann", "bob"),
          Caches("ann", "bob"), Moderation("ann", "bob"), Games("ann", "bob")}

-----------------------------------------------------------------------------

Balances == {"wallet", "bank"}
CellsOf(p) == {p[i].at : i \in DOMAIN p}

\* The cells of p that it does not only count up or set.
Asked(p) == {p[i].at : i \in {j \in DOMAIN p : p[j].do \notin {"try", "put", "lock", "unlock"}}}

Meet(p, q) ==
    \E c \in (Asked(p) \cap CellsOf(q)) \cup (CellsOf(p) \cap Asked(q)) :
        c[2] \notin Balances

\* The first errand is h1's, the second h2's.
Both(p, q) == [h \in Handlers |-> IF h = h1 THEN p ELSE q]

Teller(p) == {OwnerGive(p), OwnerTake(p)}

MCAgendas ==
    UNION {{Both(p, q) : <<p, q>> \in {<<x, y>> \in area \X area : x = y \/ Meet(x, y)}}
           : area \in Areas}
    \cup {Both(p, q) : p \in UNION Areas, q \in Teller("ann")}

\* The clock resolves a round while a raider presses a button.
MCRaidAgendas ==
    {Both(ResolveRaidRound("ann"), q) : q \in {RaidAction("bob"), ResolveRaidRound("ann")}}

MCMutexes == {Mutex(m) : m \in {"crash", "mines", "poker", "social", "fishing", "mining",
              "passive_confirm", "setup", "levelingCache", "xpCooldown", "autorole",
              "rrCheck", "rrNext", "bac", "join", "vault", "raid"}}

\* An entry that is active, open or has a stake in it is there.
Within == {<<<<"ann", "crash">>, CrashEntry("ann")>>, <<<<"ann", "mines">>, MinesEntry("ann")>>,
           <<Table, TableEntry>>, <<PokerOpen, PokerGame>>, <<Turn("ann"), PokerGame>>,
           <<Heist, HeistSession>>}
Entries == {w[2] : w \in Within}

\* A cell only one of them asks for holds what lets the errand go on; a cell both
\* reach may hold it or not, and a wallet enough for one of them or for both.
Wants(p, c) ==
    LET i == CHOOSE j \in DOMAIN p : p[j].at = c /\ \A k \in 1 .. j - 1 : p[k].at # c
    IN  CASE p[i].do \in {"need", "trust"} -> p[i].n
          [] p[i].do = "put" /\ p[i].n = 0 /\ c \in Entries -> 1
          [] p[i].do \in {"below", "fill", "put", "try"} -> 0
          [] OTHER -> 1

Low(a, c, users) ==
    IF Cardinality(users) = 1 THEN Wants(a[CHOOSE h \in users : TRUE], c)
    ELSE IF c[2] \in Balances THEN 1 ELSE 0

Kept(d) ==
    \A w \in Within : w[1] \in DOMAIN d /\ w[2] \in DOMAIN d => d[w[1]] <= d[w[2]]

MCStarts(a) ==
    LET cells  == Touched(a) \ MCMutexes
        shared == {c \in cells : \A h \in Handlers : c \in CellsOf(a[h])}
        asked  == {c \in shared : c \in Entries \/ \E h \in Handlers : c \in Asked(a[h])}
        low    == [c \in Touched(a) |->
                      IF c \in cells THEN Low(a, c, {h \in Handlers : c \in CellsOf(a[h])})
                      ELSE 0]
        high   == [c \in asked |-> Max({low[c] + 1} \cup {Wants(a[h], c) : h \in Handlers})]
        with(more) == [c \in Touched(a) |-> IF c \in more THEN high[c] ELSE low[c]]
    IN  {d \in {with(more) : more \in SUBSET asked} : Kept(d)}

\* Coins and what is bought and sold for them; the rest is no possession.
MCWorth(c) ==
    IF c[2] \in {"wallet", "bank", "pool", "lottery", "balance", "crash", "mines", "frog",
                 "bj", "chips", "pot", "seat", "robber", "escrow", "title", "box", "item",
                 "tool", "fish", "ore", "bait", "lure", "autoBait", "autoFish", "stocked",
                 "vaultSeat", "raider"}
    THEN 1 ELSE 0

\* Cooldowns, questions, games and rows that are got by taking them.
MCSingle(c) ==
    c[2] \in {"daily", "weekly", "work", "interest", "coinflip", "dice", "slots", "crashed",
              "mined", "frogged", "dealt", "asked", "crash", "hooked", "xpOver", "crew",
              "turn", "autoroleRow", "rrSession", "rrPending", "captcha", "cached"}
MCUndone(p) ==
    p \in {BuyTitleFails("ann"), BuyFails("ann"), SellItemFails("ann"),
           EscrowFails("ann", "bob")}
=============================================================================
