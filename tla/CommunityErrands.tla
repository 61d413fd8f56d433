--------------------------- MODULE CommunityErrands ---------------------------
(***************************************************************************)
(* What members leave behind (reports, suggestions, tickets, experience)   *)
(* and what the bot does for a server on its own: reaction roles, level-up *)
(* announcements, logging, titles of the leaderboards.  Rows are written   *)
(* by single statements; what is read for them was read before.            *)
(***************************************************************************)
EXTENDS ServerErrands

-----------------------------------------------------------------------------
(* Reports, suggestions, patch notes: rows with a mark.                     *)

Report(k) == <<"report", k>>
AddBugReport == Try(Report("rows"), 1)
MarkBugReportRead == Put(Report("read"), 1)
MarkBugReportResolved == Put(Report("resolved"), 1)
DeleteBugReport == Put(Report("rows"), 0)
\* The form is open for minutes; the thread is asked of Discord in between.
BugReportForm(p) ==
    Trust(Cooldown(p, "reported"), 1) \o SetCooldown(p, "reported")
AddSuggestion == Try(<<"suggestion", "rows">>, 1)
MarkSuggestionRead == Put(<<"suggestion", "read">>, 1)
DeleteSuggestion == Put(<<"suggestion", "rows">>, 0)
\* The minute is asked for first and begins once the row is there.
Suggest(p) ==
    Trust(Cooldown(p, "suggested"), 1) \o AddSuggestion \o SetCooldown(p, "suggested")
NextVersion == Read(<<"bot", "version">>)
AddPatchNote == NextVersion \o Write(<<"bot", "version">>, 1)
DeletePatch == Put(<<"bot", "version">>, 0)
DeletePatchVersion == DeletePatch

-----------------------------------------------------------------------------
(* Tickets and role panels: the statements behind ServerErrands.            *)

CreateTicketPanel == Try(Guild("panels"), 1)
TicketPanel == Trust(Guild("panels"), 1)
CreateActiveTicket(p) == Try(<<p, "tickets">>, 1)
TicketByChannel == Trust(TicketOpen, 1)
NoActiveTicket(p) == Below(<<p, "tickets">>, 1)
\* The channel is made between the question and the row.
TicketButton(p) == TicketPanel \o NoActiveTicket(p) \o CreateActiveTicket(p)
TicketClosed == TicketByChannel \o UpdateTicketStatus(TicketOpen)
CreatePanel == Try(Guild("panels"), 1)
PanelRole == Try(Guild("panelRoles"), 1)
GetPanel == Need(Guild("panels"), 1)
HasPanelRole == Need(Guild("panelRoles"), 1)
AddPanelRole == GetPanel \o PanelRole \o HasPanelRole

-----------------------------------------------------------------------------
(* Experience, outside the queue of XpWriter.                               *)

Xp(p) == <<p, "totalXp">>
GetUserXp(p) == Read(Xp(p))
CreateUserXp(p) == Try(<<p, "xpRow">>, 1)
\* The sum is made here and written whole, whatever the row holds by then.
AddXp(p) == GetUserXp(p) \o Write(Xp(p), 1)
SetXp(p) == Put(Xp(p), 3)
ResetGuildXp(p, q) == Atomically(Put(Xp(p), 0) \o Put(Xp(q), 0))
ResetUserGuildXp(p) == Put(Xp(p), 0)
ResetCommand(p, q) == ResetGuildXp(p, q)
CreateGuildConfig == Try(Guild("levelingRow"), 1)
HasLevelRole == Trust(Guild("levelRole"), 1)
DeleteLevelRoleById == Put(Guild("levelRole"), 0)
\* Five of a flush are announced, each role in a timer of its own.
AnnounceLevel(p) ==
    LevelingConfig \o HasLevelRole \o Put(<<p, "newRole">>, 1)
    \o Put(<<p, "oldRole">>, 0)
BlacklistXp(p) == Put(<<p, "xpBlocked">>, 1)
UnblacklistXp(p) == Put(<<p, "xpBlocked">>, 0)
ShouldNotBlock(p) == OwnsNot(p, "xpBlocked")
IsXpBlacklisted(p) == Owns(p, "xpBlocked")

-----------------------------------------------------------------------------
(* Privacy: an opted-out user's rows go, and an identity is kept encrypted. *)

SetOptedOut(p, on) == Put(<<p, "optedOut">>, on)
OptedIn(p) == Below(<<p, "optedOut">>, 1)
CacheIdentity(p) == Put(<<p, "identity">>, 1)
CachedIdentity(p) == Need(<<p, "identity">>, 1)
PurgeIdentities(p) == Put(<<p, "identity">>, 0)

-----------------------------------------------------------------------------
(* Reaction roles: the map in the process mirrors the table.                *)

Granted(p) == <<p, "reactionRole">>
InsertReactionRole == Put(ReactionRow, 1)
DropReactionRole == Put(ReactionRow, 0)
AllReactionRoles == Read(ReactionRow)
ReactionAdded(p) == Trust(ReactionEntry, 1) \o Put(Granted(p), 1)
ReactionRemoved(p) == Trust(ReactionEntry, 1) \o Put(Granted(p), 0)
\* The reactions are fetched; a role for each of them, two seconds apart.
SyncReactions(p) == Trust(<<p, "reacted">>, 1) \o Put(Granted(p), 1)
\* A member takes the reaction back: Discord first, then the event.
Unreact(p) == Put(<<p, "reacted">>, 0) \o ReactionRemoved(p)
\* Cleared and filled from the table, whenever the gateway connects anew.
LoadReactionRoles ==
    Put(ReactionEntry, 0) \o AllReactionRoles \o Write(ReactionEntry, 0)
\* The message is fetched; only then the session is put into its map.
StartReactionCheck ==
    Below(ReactionEntry, 1) \o Under("rrCheck", Put(Guild("rrSession"), 1))
SyncCommand(p) == Trust(ReactionEntry, 1) \o SyncReactions(p)

-----------------------------------------------------------------------------
(* A server's settings behind one row each.                                 *)

SetLogConfig == Put(Guild("logs"), 1)
HasLogConfig == Need(Guild("logs"), 1)
DeleteLogConfig == Put(Guild("logs"), 0)
ClearAllLogConfigs == Put(Guild("logs"), 0)
NotBetaTester == Below(Guild("beta"), 1)
SetBetaTester == Put(Guild("beta"), 1)
\* A switch: the opposite of what was read, here off to on.
LogBeta == NotBetaTester \o SetBetaTester
PublicStatsOn == Read(Guild("public"))
SetPublicStats == Put(Guild("public"), 1)
GuildProfile == Read(Guild("bio"))
UpdateGuildProfile == Put(Guild("bio"), 1)
AutomodConfig == Read(Guild("automod"))
GuildModConfig == Read(Guild("guards"))
UpsertGuildModConfig == Put(Guild("guards"), 1)
CommandEnabled == Need(Guild("command"), 1)
ModuleEnabled == Need(Guild("module"), 1)
\* A command is let through by the two of them, each asked by itself.
Dispatch(p) ==
    OptedIn(p) \o ModuleEnabled \o CommandEnabled \o IncrementStat(p, "commands")
EventMessage(p) == XpFromMessage(p) \o Try(<<"queue", "messages">>, 1) \o Dispatch(p)
EventEdit == Try(<<"queue", "messages">>, 1)
\* The message is popped from the cache by whoever is told first.
EventDelete ==
    Try(<<"queue", "messages">>, 1) \o Empty(<<"message", "cached">>)
    \o Try(<<"message", "sniped">>, 1)

-----------------------------------------------------------------------------
(* Titles of the leaderboards, once a day.                                  *)

\* Who is among the first ten is asked once; then the losers, then the winners.
AwardTitle(p) == Trust(<<p, "topTen">>, 1) \o OwnsNot(p, "title") \o AddItem(p, "title")
AwardRankTitle(p) ==
    Trust(<<p, "topThree">>, 1) \o OwnsNot(p, "title") \o AddItem(p, "title")
RevokeTitle(p) == Below(<<p, "topTen">>, 1) \o RemoveBlindly(p, "title")
DailyTitles(p) == AwardTitle(p)
=============================================================================
