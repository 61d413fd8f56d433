----------------------------- MODULE GameErrands -----------------------------
(***************************************************************************)
(* Games of a channel as errands: the heist in phases and the boss raid,   *)
(* each under a mutex of its own; the word games and polls, whose maps no  *)
(* mutex guards; and prices that a timer moves.  A lobby starts when its   *)
(* countdown runs out, in a thread that first asks whether it is out of    *)
(* date.                                                                   *)
(***************************************************************************)
EXTENDS Tables

Entry(p, k) == <<p, k>>
Fee(p) == CanPay(p) \o ChargeBlindly(p)

-----------------------------------------------------------------------------
(* The heist in phases (commands/games): one session for a channel.         *)

Vault == <<"vault", "session">>
VaultStarted == <<"vault", "started">>
VaultPhase == <<"vault", "phase">>
VaultSeat(p) == Entry(p, "vaultSeat")      \* the entry fee is in the session
VaultClicked(p) == Entry(p, "vaultClicked")
VaultStart(p) ==
    Lock(Mutex("vault")) \o Below(Vault, 1) \o Fee(p) \o Put(VaultStarted, 0)
    \o Put(VaultSeat(p), 1) \o Put(Vault, 1)
InVaultLobby == Lock(Mutex("vault")) \o Need(Vault, 1) \o Below(VaultStarted, 1)
VaultJoin(p) == InVaultLobby \o Below(VaultSeat(p), 1) \o Fee(p) \o Put(VaultSeat(p), 1)
VaultJoinButton(p) == VaultJoin(p)
VaultBegins == InVaultLobby \o Put(VaultStarted, 1) \o Put(VaultPhase, 1)
\* The host's button asks, gives the mutex back, and the start asks again.
VaultBeginsEarly == InVaultLobby \o Unlock(Mutex("vault")) \o VaultBegins
VaultTooFew(p) ==
    InVaultLobby \o Need(VaultSeat(p), 1) \o Put(VaultSeat(p), 0) \o Put(Vault, 0)
    \o Unlock(Mutex("vault")) \o UpdateWallet(p, 1)
VaultClick(p) ==
    Lock(Mutex("vault")) \o Need(Vault, 1) \o Need(VaultPhase, 1) \o Need(VaultSeat(p), 1)
    \o Below(VaultClicked(p), 1) \o Put(VaultClicked(p), 1) \o Try(Entry(p, "points"), 1)
VaultAdvances(p) ==
    Under("vault", Need(Vault, 1) \o Try(VaultPhase, 1) \o Put(VaultClicked(p), 0))
    \o Under("vault", Need(Vault, 1))
\* The session is erased under the mutex and paid out after it.
VaultPays(p) ==
    Under("vault", Need(Vault, 1) \o Need(VaultSeat(p), 1) \o Put(VaultSeat(p), 0)
                   \o Put(Vault, 0))
    \o UpdateWallet(p, 1)

-----------------------------------------------------------------------------
(* The boss raid: the same lobby; the richest of the server pay for it.     *)

BossRaid == <<"raid", "session">>
RaidStarted == <<"raid", "started">>
RaidRound == <<"raid", "round">>
Raider(p) == Entry(p, "raider")
Acted(p) == Entry(p, "acted")
RaidStart(p) ==
    Lock(Mutex("raid")) \o Below(BossRaid, 1) \o Fee(p) \o Put(RaidStarted, 0)
    \o Put(Raider(p), 1) \o Put(BossRaid, 1)
InRaidLobby == Lock(Mutex("raid")) \o Need(BossRaid, 1) \o Below(RaidStarted, 1)
RaidJoin(p) == InRaidLobby \o Below(Raider(p), 1) \o Fee(p) \o Put(Raider(p), 1)
RaidTooFew(p) ==
    InRaidLobby \o Need(Raider(p), 1) \o Put(Raider(p), 0) \o Put(BossRaid, 0)
    \o Unlock(Mutex("raid")) \o UpdateWallet(p, 1)
StartRaidRound == Under("raid", Need(BossRaid, 1))
RaidBegins == InRaidLobby \o Put(RaidStarted, 1) \o Put(RaidRound, 1)
RaidLaunchHolding(q) ==
                         \* mutant: the mutex is not given back first
    RaidBegins \o Trust(Wallet(q), 1) \o ChargeBlindly(q) \o StartRaidRound
\* What the wallet held is debited from it, the rest of the tax from the bank,
\* whether or not it is still there.
RaidLaunch(q) ==
    RaidBegins \o Trust(Wallet(q), 1) \o ChargeBlindly(q)
    \o Unlock(Mutex("raid")) \o StartRaidRound
RaidLaunchTaxesBank(q) ==
    RaidBegins \o Below(Wallet(q), 1) \o Try(Bank(q), -1)
    \o Unlock(Mutex("raid")) \o StartRaidRound
RaidAction(p) ==
    Lock(Mutex("raid")) \o Need(RaidStarted, 1) \o Need(Raider(p), 1)
    \o Below(Acted(p), 1) \o Put(Acted(p), 1)
\* A round is resolved under the mutex; the next one is started under it again.
ResolveRaidRound(p) ==
    Under("raid", Need(BossRaid, 1) \o Put(Acted(p), 0) \o Try(RaidRound, 1))
    \o Under("raid", Need(BossRaid, 1) \o StartRaidRound)
RaidPays(p) ==
    Under("raid", Need(BossRaid, 1) \o Need(Raider(p), 1) \o Put(Raider(p), 0)
                  \o Put(BossRaid, 0))
    \o UpdateWallet(p, 1)

-----------------------------------------------------------------------------
(* The global boss: the row of the boss that is fought.                     *)

\* The next number is read and inserted by two statements that nothing joins.
SpawnBoss ==
    Below(<<"boss", "row">>, 1) \o Read(<<"boss", "number">>)
    \o Atomically(Write(<<"boss", "number">>, 1) \o Try(<<"boss", "row">>, 1))
BossProgress == Trust(<<"boss", "row">>, 1)

-----------------------------------------------------------------------------
(* Black Tea and White Tea: a lobby in a map no mutex guards.               *)

Tea == <<"tea", "game">>
TeaActive == <<"tea", "active">>
TeaPaused == <<"tea", "paused">>
TeaGen == <<"tea", "gen">>                 \* timer_generation
TeaRound == <<"tea", "round">>
InTea(p) == Entry(p, "inTea")
Lives(p) == Entry(p, "lives")
Responded(p) == Entry(p, "responded")
TeaStart == Put(TeaGen, 0) \o Put(TeaPaused, 0) \o Put(Tea, 1)
TeaStartSlash == TeaStart
TeaNotSent == TeaStart \o Put(Tea, 0)
InTeaLobby == Need(Tea, 1) \o Below(TeaActive, 1)
\* Who joins for the first time starts the countdown anew.
TeaJoin(p) == InTeaLobby \o Fill(InTea(p)) \o Below(TeaPaused, 1) \o Try(TeaGen, 1)
TeaPause == InTeaLobby \o Below(TeaPaused, 1) \o Put(TeaPaused, 1)
TeaResume == InTeaLobby \o Need(TeaPaused, 1) \o Put(TeaPaused, 0) \o Try(TeaGen, 1)
TeaCancel == InTeaLobby \o Try(TeaGen, 1) \o Put(Tea, 0)
TeaEnds == Put(Tea, 0) \o Put(TeaActive, 0)
\* One round: those who have not answered when it is over lose a life.
TeaLoop(p) ==
    Need(Tea, 1) \o Put(Lives(p), 2) \o Put(TeaActive, 1)
    \o Put(TeaRound, 1) \o Put(Responded(p), 0)
    \o Below(Responded(p), 1) \o Try(Lives(p), -1) \o TeaEnds
\* The countdown's thread goes on if no other countdown has begun since.
TeaCountdown(p) == Read(TeaGen) \o Need(Tea, 1) \o Same(TeaGen) \o TeaLoop(p)
TeaWord(p) ==
    Trust(TeaActive, 1) \o Trust(TeaRound, 1) \o Need(Lives(p), 1)
    \o Below(Responded(p), 1)
    \o Fill(<<"tea", "word">>) \o Put(Responded(p), 1)

\* White Tea gives each player a pattern, and is Black Tea in everything else.
WhiteTeaStart == TeaStart
WhiteTeaStartSlash == TeaStart
WhiteTeaJoin(p) == TeaJoin(p)
WhiteTeaPause == TeaPause
WhiteTeaResume == TeaResume
WhiteTeaCancel == TeaCancel
WhiteTeaLoop(p) == TeaLoop(p)
WhiteTeaCountdown(p) == TeaCountdown(p)
WhiteTeaWord(p) == TeaWord(p)

-----------------------------------------------------------------------------
(* Polls, and prices set by a timer.                                        *)

Voted(p, o) == Entry(p, o)
CreatePoll == Put(<<"poll", "open">>, 1)
\* Struck off every option, then put down for one.
Vote(p, o) ==
    Need(<<"poll", "open">>, 1) \o Put(Voted(p, "yes"), 0) \o Put(Voted(p, "no"), 0)
    \o Put(Voted(p, o), 1)
\* Discord is asked for the voter's roles in between.
VoteIfAllowed(p, o) == Trust(<<p, "role">>, 1) \o Vote(p, o)
InitializePrices == Fill(<<"market", "price">>)
GetAllPrices == Read(<<"market", "price">>)
FluctuatePrices == GetAllPrices \o Write(<<"market", "price">>, 1)
\* The regime is read, decided on from the log of catches, and written back; a
\* scale the owner has overridden is left alone.
ClassifyMarket ==
    GetMlSetting("regime") \o SetMlSetting("regime", 1)
    \o Below(<<"bot", "override">>, 1) \o Put(<<"bot", "scale">>, 1)

-----------------------------------------------------------------------------

\* The rounds of a raid follow one another: whoever resolves one gives the mutex
\* of the raids back, so that the next can begin and its buttons be pressed.
RaidRoundsEnd ==
    \A h \in Handlers : Mutex("raid") \in held[h] ~> Mutex("raid") \notin held[h]
=============================================================================
