--------------------------- MODULE ModerationErrands ---------------------------
(***************************************************************************)
(* Moderation: what is done to a member at Discord, the numbered cases of  *)
(* the server, and the automatic guards.  Discord answers a request with a *)
(* callback, in which the handler goes on; other handlers run meanwhile.   *)
(* When punishments end is the subject of Punishments.                     *)
(***************************************************************************)
EXTENDS Tables

Server(k)   == <<"guild", k>>
CaseNo      == Server("cases")
Active(p)   == <<p, "active">>             \* the member's case that counts
Banned(p)   == <<p, "banned">>             \* at Discord, like the next five
Muted(p)    == <<p, "muted">>
TimedOut(p) == <<p, "timedOut">>
Jailed(p)   == <<p, "jailed">>
Roles(p)    == <<p, "roles">>
Member(p)   == <<p, "member">>
Timer(p)    == <<p, "timer">>              \* of the process, for the member's case

-----------------------------------------------------------------------------
(* Who may do what.                                                         *)

IsMod   == Trust(<<"mod", "staff">>, 1)
IsAdmin == Trust(<<"mod", "admin">>, 1)
IsGuildStaff(p) == Trust(<<p, "staff">>, 1)
AddGuildStaff == Put(<<"mod", "staff">>, 1)
RemoveGuildStaff == Put(<<"mod", "staff">>, 0)
SetGlobalAdmin(on) == Put(<<"mod", "admin">>, on)
SetGlobalMod(on) == Put(<<"mod", "isMod">>, on)
SetDev(on) == Put(<<"mod", "dev">>, on)
\* The roles are those of the cached guild.
Outranks(p) == Trust(<<p, "below">>, 1)
May(p) == IsMod \o Outranks(p)

-----------------------------------------------------------------------------
(* Cases.                                                                   *)

\* The next number is read without a lock; the insert of a number that is taken
\* fails on the unique key, and the handler gives up.
CreateInfraction(p) ==
    Read(CaseNo) \o Atomically(Same(CaseNo) \o Try(CaseNo, 1) \o Try(Active(p), 1))
GetInfraction(p) == Trust(Active(p), 1)
PardonInfraction(p) == Must(Active(p), -1)
\* The user's active cases are listed, then pardoned one after the other.
PardonListed(p) == Need(Active(p), 1) \o Try(Active(p), -1)
ActivePoints(p, n) == Need(Active(p), n)
UpdateReason == Put(Server("reason"), 1)
UpdateDuration(p) == Put(<<p, "until">>, 1)
\* Only what has run out: one case.
ExpireInfractions(p) == Try(Active(p), -1)

\* The rule's case is made before the member is banned for it.
CheckAndEscalate(p) == ActivePoints(p, 2) \o CreateInfraction(p) \o Put(Banned(p), 1)
Schedule(p) == Put(Timer(p), 1)
\* The process's timer of a ban: the case is pardoned, the ban lifted.
BanExpires(p) == Try(Active(p), -1) \o Put(Banned(p), 0) \o Put(Timer(p), 0)
TimeoutExpires(p) == Try(Active(p), -1) \o Put(TimedOut(p), 0) \o Put(Timer(p), 0)
Reschedule(p) == Put(Timer(p), 0) \o Schedule(p)
ExpirySweep(p) == ExpireInfractions(p)

-----------------------------------------------------------------------------
(* Punishments: Discord first, then the case, the timer and the rules.      *)

ApplyMute(p) ==
    Put(Muted(p), 1) \o CreateInfraction(p) \o Schedule(p) \o CheckAndEscalate(p)
ApplyBan(p) ==
    Put(Banned(p), 1) \o CreateInfraction(p) \o Schedule(p) \o CheckAndEscalate(p)
ApplyTimeout(p) ==
    Put(TimedOut(p), 1) \o CreateInfraction(p) \o Schedule(p) \o CheckAndEscalate(p)
ApplyKick(p) == Put(Member(p), 0) \o CreateInfraction(p) \o CheckAndEscalate(p)
ApplyWarn(p) == CreateInfraction(p) \o CheckAndEscalate(p)
ApplyNote(p) == CreateInfraction(p)
\* The roles the cache shows are written into the case; a member jailed already
\* shows the jail role alone.
ApplyJail(p) ==
    Put(Roles(p), 0) \o Put(Jailed(p), 1) \o CreateInfraction(p) \o Schedule(p)
    \o CheckAndEscalate(p)
ApplySoftban(p) == Put(Banned(p), 1) \o Put(Banned(p), 0) \o CreateInfraction(p)
ApplyLockdown(on) == Put(Server("locked"), on) \o CreateInfraction("channel")

Mute(p) == May(p) \o ApplyMute(p)
MuteSlash(p) == Mute(p)
Ban(p) == May(p) \o ApplyBan(p)
BanSlash(p) == Ban(p)
Timeout(p) == May(p) \o ApplyTimeout(p)
TimeoutSlash(p) == Timeout(p)
Kick(p) == May(p) \o ApplyKick(p)
KickSlash(p) == Kick(p)
Warn(p) == IsMod \o ApplyWarn(p)
WarnSlash(p) == Warn(p)
Note(p) == IsMod \o ApplyNote(p)
NoteSlash(p) == Note(p)
Jail(p) == May(p) \o ApplyJail(p)
JailSlash(p) == Jail(p)
Softban(p) == May(p) \o ApplySoftban(p)
SoftbanSlash(p) == Softban(p)
Lockdown == IsMod \o ApplyLockdown(1)
Unlocks == IsMod \o ApplyLockdown(0)

\* One request for each member named; their callbacks come as they come.
MassBan(p, q) == IsMod \o ApplyBan(p) \o ApplyBan(q)
MassBanSlash(p, q) == MassBan(p, q)
MassKick(p, q) == IsMod \o ApplyKick(p) \o ApplyKick(q)
MassKickSlash(p, q) == MassKick(p, q)
MassMute(p, q) == IsMod \o ApplyMute(p) \o ApplyMute(q)
MassMuteSlash(p, q) == MassMute(p, q)
MassTimeout(p, q) == IsMod \o ApplyTimeout(p) \o ApplyTimeout(q)
MassTimeoutSlash(p, q) == MassTimeout(p, q)

\* The forms that ask for what the command left out.
MuteForm(p) == ApplyMute(p)
BanForm(p) == ApplyBan(p)
TimeoutForm(p) == ApplyTimeout(p)
KickForm(p) == ApplyKick(p)
WarnForm(p) == ApplyWarn(p)
JailForm(p) == ApplyJail(p)
NoteForm(p) == ApplyNote(p)
ReasonForm == UpdateReason
MassBanForm(p, q) == ApplyBan(p) \o ApplyBan(q)
MassKickForm(p, q) == ApplyKick(p) \o ApplyKick(q)
MassMuteForm(p, q) == ApplyMute(p) \o ApplyMute(q)
MassTimeoutForm(p, q) == ApplyTimeout(p) \o ApplyTimeout(q)
SoftbanForm(p) == ApplySoftban(p)

\* Lifting one leaves the process's timer running.
Unban(p) == IsMod \o Put(Banned(p), 0) \o PardonListed(p)
UnbanSlash(p) == Unban(p)
Unmute(p) == IsMod \o Put(Muted(p), 0) \o PardonListed(p)
UnmuteSlash(p) == Unmute(p)
Untimeout(p) == IsMod \o Put(TimedOut(p), 0) \o PardonListed(p)
UntimeoutSlash(p) == Untimeout(p)
Unjail(p) == IsMod \o Put(Jailed(p), 0) \o Put(Roles(p), 1) \o PardonListed(p)
UnjailSlash(p) == Unjail(p)
Pardon(p) == IsMod \o GetInfraction(p) \o PardonInfraction(p)
PardonSlash(p) == Pardon(p)
EditDuration(p) == IsMod \o GetInfraction(p) \o UpdateDuration(p) \o Reschedule(p)
EditDurationSlash(p) == EditDuration(p)
EditReason == IsMod \o UpdateReason
EditReasonSlash == EditReason
Purge == IsMod \o Put(Server("messages"), 0)
PurgeSlash == Purge
Slowmode == IsMod \o Put(Server("slowmode"), 1)
SlowmodeSlash == Slowmode

-----------------------------------------------------------------------------
(* The guards.                                                              *)

\* The case is made first here, and the member punished even if it could not be;
\* shown is the case that could.
ExecuteAutomodAction(p) ==
    Try(Active(p), 1) \o Put(Muted(p), 1) \o Schedule(p) \o CheckAndEscalate(p)
AccountGuard(p) == ExecuteAutomodAction(p)
AvatarGuard(p) == ExecuteAutomodAction(p)
MutualGuard(p) == ExecuteAutomodAction(p)
CheckNickname(p) == Put(<<p, "nickname">>, 1) \o CreateInfraction(p)
\* A message or reaction too many: the count is kept, or starts again.
Antispam(p) == Try(<<p, "spam">>, 1) \o Need(<<p, "spam">>, 2) \o Put(TimedOut(p), 1)
AntispamBans(p) == Try(<<p, "spam">>, 1) \o Need(<<p, "spam">>, 3) \o Put(Banned(p), 1)
UrlGuard(p) ==
    Try(<<p, "urls">>, 1) \o Need(<<p, "urls">>, 2) \o Put(TimedOut(p), 1)
    \o Put(<<p, "urls">>, 0)
TextFilter(p) ==
    Try(<<p, "words">>, 1) \o Need(<<p, "words">>, 2) \o Put(TimedOut(p), 1)
    \o Put(<<p, "words">>, 0)
ReactionFilter(p) ==
    Try(<<p, "emoji">>, 1) \o Need(<<p, "emoji">>, 2) \o Put(TimedOut(p), 1)
    \o Put(<<p, "emoji">>, 0)
SetUrlGuard(on) == Put(Server("urlGuard"), on)
ListUrl(p, on) == Put(<<p, "urlFree">>, on)
SetReactionFilter(on) == Put(Server("emojiGuard"), on)
ListReaction(p, on) == Put(<<p, "emojiFree">>, on)
SetTextFilter(on) == Put(Server("textGuard"), on)
SetAntispam(on) == Put(Server("antispam"), on)
SetAntispamLimits == Put(Server("spamLimit"), 1)

\* Joining: the gate is read, and the recent joins counted under a mutex.
JoinGate(p) ==
    Need(Server("gate"), 1)
    \o Under("join", Try(Server("joins"), 1) \o Need(Server("joins"), 1))
    \o Put(Member(p), 0)
UpdateRaidSettings(n) == Put(Server("gate"), n)

-----------------------------------------------------------------------------
(* Modmail: one open thread for a member is meant.                          *)

Thread(p) == <<p, "thread">>
NoThread(p) == Below(Thread(p), 1)
CreateThread(p) == Try(Thread(p), 1)
OpenThread(p) == Trust(Thread(p), 1)
CloseThread(p) == Put(Thread(p), 0)
ModmailSetup == IsAdmin \o Put(Server("modmail"), 1)
ModmailMessage(p) == NoThread(p) \o CreateThread(p)
ModmailPicked(p) == Put(<<p, "pendingMail">>, 0) \o CreateThread(p)
ModmailAsks(p) == NoThread(p) \o Put(<<p, "pendingMail">>, 1)
ModmailClosed(p) == OpenThread(p) \o CloseThread(p)
ModmailCommandCloses(p) == ModmailClosed(p)
ModmailStaffCloses(p) == ModmailClosed(p)

-----------------------------------------------------------------------------
(* Feature flags and classes of roles.                                      *)

SetFeatureFlag(n) == Put(<<"bot", "flag">>, n)
DeleteFeatureFlag == Put(<<"bot", "flag">>, 0) \o Put(<<"bot", "flagFree">>, 0)
WhitelistFeature == Put(<<"bot", "flagFree">>, 1)
UnlistFeature == Put(<<"bot", "flagFree">>, 0)
CreateRoleClass == Put(Server("class"), 1)
UpdateRoleClass == Put(Server("class"), 2)
DeleteRoleClass == Put(Server("class"), 0)
AssignRole == Put(Server("classRole"), 1)
RemoveRole == Put(Server("classRole"), 0)
CheckCommandAllowed == Need(Server("class"), 1) \o Need(Server("classRole"), 1)
=============================================================================
