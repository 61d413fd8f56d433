---------------------------- MODULE ServerErrands ---------------------------
(***************************************************************************)
(* What a server's staff and members do to its settings, giveaways,        *)
(* tickets, role panels and lists, and what owners of the bot do to it, as *)
(* errands.  Most settings are one row that is read and written back.      *)
(***************************************************************************)
EXTENDS Tables

Guild(x) == <<"guild", x>>

-----------------------------------------------------------------------------
(* Giveaways and the treasury.                                              *)

Treasury == Guild("balance")
GiveawayOn == Guild("giveaway")            \* the entry in the cache says: not ended
HasTreasury == Trust(Treasury, 1)
\* add_to_guild_balance of an amount below 0 returns before it writes anything.
SpendTreasury == Try(Treasury, 0)
CreateGiveawayRow == Put(GiveawayOn, 1)
CreateGiveaway ==
    HasTreasury \o SpendTreasury \o Put(Guild("drawn"), 0) \o CreateGiveawayRow
CreateGiveawayFails == HasTreasury \o SpendTreasury \o AddToGuildBalance
EnterGiveaway(p) == Trust(GiveawayOn, 1) \o Fill(<<p, "entry">>)
\* The entry is looked at, then written: the timer and the command both get past.
EndGiveaway(p) ==
    Trust(GiveawayOn, 1) \o Put(GiveawayOn, 0) \o Need(<<p, "entry">>, 1)
    \o Put(Guild("drawn"), 1) \o UpdateWallet(p, 1)
EndGiveawayEmpty(p) ==
    Trust(GiveawayOn, 1) \o Put(GiveawayOn, 0) \o Below(<<p, "entry">>, 1)
    \o Put(Guild("drawn"), 1)
GiveawayTimer(p) == EndGiveaway(p)
GiveawayEnd(p) == Trust(GiveawayOn, 1) \o EndGiveaway(p)
Payout(p) == HasTreasury \o SpendTreasury \o UpdateWallet(p, 1)

-----------------------------------------------------------------------------
(* Tickets.                                                                 *)

TicketOpen == <<"ticket", "open">>
TicketFree == <<"ticket", "free">>         \* 1 while nobody has claimed it
UpdateTicketStatus(c) == Put(c, 0)
\* One open ticket a member: asked for before the channel is made, filled in after.
OpenTicket(p) == Below(<<p, "tickets">>, 1) \o Try(<<p, "tickets">>, 1)
CloseTicket == Trust(TicketOpen, 1) \o UpdateTicketStatus(TicketOpen)
\* Read, compared, overwritten: the second claim takes the ticket from the first.
ClaimTicket(p) ==
    Trust(TicketFree, 1) \o UpdateTicketStatus(TicketFree) \o Put(<<p, "claimed">>, 1)
SetupTickets == Try(Guild("panels"), 1)
CreateRolePanel == Try(Guild("panels"), 1)
AddRoleToPanel == Need(Guild("panels"), 1) \o Try(Guild("panelRoles"), 1)

-----------------------------------------------------------------------------
(* Settings kept in one row: every command writes back all that it read.    *)

Edit(row) == Read(row) \o Write(row, 1)
UpsertInfractionConfig(n) == Write(Guild("infractions"), n)
InfractionConfig == Read(Guild("infractions"))
SetPoints == InfractionConfig \o UpsertInfractionConfig(1)
SetDuration == InfractionConfig \o UpsertInfractionConfig(2)
SetEscalation == InfractionConfig \o UpsertInfractionConfig(3)
InfractionsSlash == SetPoints
JailSetup == SetPoints
MuteRole == SetPoints
ModlogChannel == SetPoints
QuietConfig == SetPoints
UpsertAutomodConfig == Edit(Guild("automod"))
AutomodCommand == UpsertAutomodConfig
RaidSettings == Edit(Guild("raid"))
RaidCommand == RaidSettings
LevelingConfig == Read(Guild("leveling"))
UpdateLevelingConfig(n) == Write(Guild("leveling"), n)
LevelConfigCommand == LevelingConfig \o UpdateLevelingConfig(1)
SendCompletion ==
    Lock(Mutex("setup")) \o Put(Guild("economyMode"), 1)
    \o LevelingConfig \o UpdateLevelingConfig(2)
SetEconomyMode(n) == Put(Guild("economyMode"), n)
LogConfig == Put(Guild("logs"), 1)
ClearLogConfig == Put(Guild("logs"), 0)
PublicStats == Read(Guild("public")) \o Put(Guild("public"), 1)
ServerProfile == Put(Guild("bio"), 1)
ClearServerProfile == Put(Guild("bio"), 0)

-----------------------------------------------------------------------------
(* What the level handler keeps of those rows.                              *)

\* A row that is not cached is read outside the mutex and cached under it.
CachedLevelingConfig ==
    Under("levelingCache", Below(Guild("cached"), 1))
    \o LevelingConfig \o Under("levelingCache", Write(Guild("cached"), 0))
XpBlocked(p) == OwnsNot(p, "xpBlocked")
\* The time of the last message is compared and replaced under one mutex.
XpFromMessage(p) ==
    XpBlocked(p) \o Under("xpCooldown", Empty(Cooldown(p, "xpOver")))
    \o Try(<<p, "xp">>, 1)
CleanUpCooldowns(p) == Under("xpCooldown", Put(Cooldown(p, "xpOver"), 1))
AddXpBlacklist(p) == Put(<<p, "xpBlocked">>, 1)
RemoveXpBlacklist(p) == Put(<<p, "xpBlocked">>, 0)
CreateLevelRole == Put(Guild("levelRole"), 1)
DeleteLevelRole == Put(Guild("levelRole"), 0)

-----------------------------------------------------------------------------
(* Lists that are in a table and in a map of the process.                   *)

AutoRow == Guild("autoroleRow")
AutoEntry == Guild("autoroleEntry")
\* Only the one that inserted the row puts the entry; the mutex is for the map.
AddAutorole == Fill(AutoRow) \o Under("autorole", Put(AutoEntry, 1))
RemoveAutorole == Empty(AutoRow) \o Under("autorole", Put(AutoEntry, 0))
ClearAutoroles == Put(AutoRow, 0) \o Under("autorole", Put(AutoEntry, 0))
ReactionRow == Guild("reactionRow")
ReactionEntry == Guild("reactionEntry")
AddReactionRole == Put(ReactionEntry, 1) \o Put(ReactionRow, 1)
AddReactionRoleSlash == AddReactionRole
AddFetchedReactionRole ==
    Put(ReactionEntry, 1) \o Put(ReactionRow, 0) \o Put(ReactionRow, 1)
RemoveReactionRole ==
    Trust(ReactionEntry, 1) \o Put(ReactionRow, 0) \o Put(ReactionEntry, 0)
ConfirmReactionCheck ==
    Lock(Mutex("rrCheck")) \o Empty(Guild("rrSession")) \o Unlock(Mutex("rrCheck"))
    \o AddReactionRole
MessageDeleted == RemoveReactionRole
NextReaction == Under("rrNext", Empty(Guild("rrPending"))) \o AddReactionRole
CancelNextReaction == Under("rrNext", Empty(Guild("rrPending")))
AddAutopurge(p) == Try(<<p, "purges">>, 1)
RemoveAutopurge(p) == Must(<<p, "purges">>, -1)
\* Each tick asks the table whether the schedule is still there, then deletes.
AutopurgeTick(p) == Trust(<<p, "purges">>, 1) \o Put(<<p, "messages">>, 0)
AddPrefix(p) == Fill(<<p, "prefix">>)
RemovePrefix(p) == Put(<<p, "prefix">>, 0)
AddGuildPrefix == Fill(Guild("prefix"))
RemoveGuildPrefix == Put(Guild("prefix"), 0)

-----------------------------------------------------------------------------
(* Privacy, the owners' commands, world events.                             *)

\* Opted out first, deleted table by table; a handler under way writes on.
OptOut(p) == Put(<<p, "optedOut">>, 1) \o Put(Wallet(p), 0) \o Put(<<p, "item">>, 0)
DeleteAllUserData(p) == Put(Wallet(p), 0) \o Put(<<p, "item">>, 0)
OptIn(p) == Need(<<p, "optedOut">>, 1) \o Put(<<p, "optedOut">>, 0)
OwnerGive(p) == UpdateWallet(p, 1)
OwnerTake(p) == UpdateWallet(p, -1)
OwnerGiveAll(p, q) == Must(Wallet(p), 1) \o Must(Wallet(q), 1)
OwnerItem(p) == AddItem(p, "item")
OwnerTakeItem(p) == RemoveItem(p, "item")
\* The row in users goes in one statement, and the rows that hang on it with it.
PurgeUser(p) ==
    Put(<<p, "autofisher">>, 0) \o Atomically(Put(Wallet(p), 0)
    \o Put(<<p, "item">>, 0))
SetModule(on) == Put(Guild("module"), on)
SetCommand(on) == Put(Guild("command"), on)
Blacklist(p, on) == Put(<<p, "banned">>, on)
Whitelist(p, on) == Put(<<p, "allowed">>, on)
\* A tick of the timer and the owner's command; the row of an event has no key.
SpawnEvent == ExpireEvents \o Below(<<"bot", "event">>, 1) \o StartEvent
ForceEvent == ExpireEvents \o EndActiveEvent \o StartEvent
EquipTitle(p) == Owns(p, "title") \o Put(<<p, "active">>, 1)
UnequipTitle(p) == Trust(<<p, "active">>, 1) \o RemoveBlindly(p, "active")
=============================================================================
