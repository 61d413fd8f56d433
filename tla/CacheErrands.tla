---------------------------- MODULE CacheErrands ----------------------------
(***************************************************************************)
(* Two caches stand between the commands and the database: the maps of     *)
(* CacheManager and the SQLite file of LocalDB.  Queues stand behind it:   *)
(* WriteBatchQueue, AsyncStatWriter and SnipeCache collect what is written *)
(* later.  An entry of a cache is 0 when it is absent or too old, and one  *)
(* more than the value it keeps otherwise.                                 *)
(***************************************************************************)
EXTENDS Tables

Row(p, k) == <<p, k>>                     \* the table
Mem(p, k) == <<"mem", p, k>>               \* CacheManager
Loc(p, k) == <<"local", p, k>>             \* LocalDB; one mutex, a call is a statement

-----------------------------------------------------------------------------
(* Entries.                                                                 *)

CacheGet(p, k) == Atomically(Need(Mem(p, k), 1) \o Read(Mem(p, k)))
CacheMiss(p, k) == Below(Mem(p, k), 1)
CacheSet(p, k) == Write(Mem(p, k), 1)
Invalidate(p, k) == Put(Mem(p, k), 0)
EvictOldest(p, k) == Put(Mem(p, k), 0)
EvictExpired(p, k) == Put(Mem(p, k), 0)

LocalMiss(p, k) == Below(Loc(p, k), 1)
LocalGet(p, k) == Atomically(Need(Loc(p, k), 1) \o Read(Loc(p, k)))
LocalSet(p, k) == Write(Loc(p, k), 1)
LocalWhitelist(p) == LocalSet(p, "allowed")
LocalPrefixes(p) == LocalSet(p, "prefix")
LocalToggles(g) == LocalSet(g, "toggles")
LocalTogglesMiss(g) == LocalMiss(g, "toggles")
LocalTogglesGet(g) == LocalGet(g, "toggles")
LocalInventory(p) == LocalSet(p, "item")
LocalInventoryMiss(p) == LocalMiss(p, "item")
LocalStat(p) == LocalSet(p, "stat")
LocalStatMiss(p) == LocalMiss(p, "stat")
LocalShop == LocalSet("shop", "price")
LocalShopMiss == LocalMiss("shop", "price")
LocalApi == LocalSet("api", "board")
LocalApiMiss == LocalMiss("api", "board")
LocalDrop(p, k) == Put(Loc(p, k), 0)
LocalCleanup(p, k) == LocalDrop(p, k)
LocalFlush(p) == Atomically(LocalDrop(p, "item") \o LocalDrop(p, "stat"))

-----------------------------------------------------------------------------
(* HybridDatabase: the map, then the file, then the table.                  *)

\* Nothing keeps the row from changing between its SELECT and the two entries.
HybridRead(p, k) ==
    CacheMiss(p, k) \o LocalMiss(p, k) \o Read(Row(p, k))
    \o CacheSet(p, k) \o LocalSet(p, k)
Promote(p, k) == CacheMiss(p, k) \o LocalGet(p, k) \o Write(Mem(p, k), 0)
LoadGuildToggles(g) ==
    CacheMiss(g, "toggles") \o Read(Row(g, "toggles")) \o CacheSet(g, "toggles")
    \o LocalToggles(g)
IsGuildModuleEnabled(g) ==
    CacheMiss(g, "toggles") \o LocalTogglesMiss(g) \o LoadGuildToggles(g)
HybridInventory(p) == LocalInventoryMiss(p) \o Read(Row(p, "item")) \o LocalInventory(p)
HybridStat(p) == LocalStatMiss(p) \o Read(Row(p, "stat")) \o LocalStat(p)
HybridShopItems == LocalShopMiss \o Read(Row("shop", "price")) \o LocalShop
InvalidateUser(p) ==
    LocalDrop(p, "item") \o LocalDrop(p, "stat") \o Invalidate(p, "banned")
    \o Invalidate(p, "allowed") \o Invalidate(p, "prefix")
\* The sync of every minute sets what the tables list and removes nothing.
SyncBlacklist(p) ==
    Trust(Row(p, "banned"), 1) \o Put(Mem(p, "banned"), 2) \o Put(Loc(p, "banned"), 2)
SyncToggles(g) == Read(Row(g, "toggles")) \o CacheSet(g, "toggles") \o LocalToggles(g)

\* CachedDatabase: without the file.
CachedRead(p, k) == CacheMiss(p, k) \o Read(Row(p, k)) \o CacheSet(p, k)
AddToList(p, k) == Put(Row(p, k), 1) \o Put(Mem(p, k), 2)
RemoveFromList(p, k) == Put(Row(p, k), 0) \o Invalidate(p, k)
AddCachedPrefix(p) == Fill(Row(p, "prefix")) \o Invalidate(p, "prefix")
SetToggle(g, on) == Put(Row(g, "toggles"), on) \o Invalidate(g, "toggles")
CachedUpdateWallet(p) ==
    Atomically(UpdateWallet(p, 1) \o Read(Wallet(p))) \o CacheSet(p, "wallet")
SyncSettings(g) == Read(Row(g, "toggles")) \o CacheSet(g, "toggles")

-----------------------------------------------------------------------------
(* Balances that are changed in the file first.  The same unit is entered   *)
(* twice: in the file's own list of deltas and in the queue.                *)

LocalWallet(p) == <<"local", p, "coins">>
Pending(p)     == <<p, "pendingDelta">>
Queued(p)      == <<p, "queuedDelta">>
CacheUser(p) == Atomically(Read(Wallet(p)) \o Write(LocalWallet(p), 0))
GetCachedWallet(p) == Read(LocalWallet(p))
ApplyWalletDelta(p) ==
    Atomically(Try(LocalWallet(p), 1) \o Try(Pending(p), 1) \o Read(LocalWallet(p)))
DrainWalletDeltas(p) == Sweep(Pending(p))
EnqueueWalletDelta(p) == Try(Queued(p), 1)
HybridGetWallet(p) ==
    CacheMiss(p, "wallet") \o GetCachedWallet(p) \o CacheSet(p, "wallet")
\* Nothing calls it: the unit it enters twice would be added twice.
HybridUpdateWallet(p) ==
    ApplyWalletDelta(p) \o CacheSet(p, "wallet") \o EnqueueWalletDelta(p)
\* Queue and list are swapped out, and what both held is added to the column.
FlushWallet(p) == Sweep(Queued(p)) \o DrainWalletDeltas(p) \o Deliver(Wallet(p))
FlushNow(p) == FlushWallet(p)
EnqueueItem(p) == Try(Row(p, "queuedItem"), 1)
HybridAddItem(p) == LocalDrop(p, "item") \o EnqueueItem(p)
FlushItems(p) == Sweep(Row(p, "queuedItem")) \o Deliver(Row(p, "item"))
EnqueueStatDelta(p) == Try(Row(p, "queuedStat"), 1)
HybridIncrementStat(p) ==
    Read(Loc(p, "stat")) \o LocalStat(p) \o EnqueueStatDelta(p)
FlushStatDeltas(p) == Sweep(Row(p, "queuedStat")) \o Deliver(Row(p, "stat"))

-----------------------------------------------------------------------------
(* AsyncStatWriter: each kind of event has its queue, its mutex and its     *)
(* table; a flush takes the queue and writes it here and to the dashboard.  *)

Queue(e)  == <<"queue", e>>
Logged(e) == <<"table", e>>
Remote(e) == <<"dashboard", e>>
Enqueue(e) == Try(Queue(e), 1)
EnqueueBoost == Enqueue("boosts")
EnqueueUsage == Enqueue("usage")
EnqueueActivity == Enqueue("activity")
\* The minutes of a session go into their queue while the session is dropped.
VoiceJoins(p) == Put(Row(p, "session"), 1) \o Enqueue("voice")
VoiceLeaves(p) ==
    Atomically(Sweep(Row(p, "session")) \o Deliver(Queue("minutes"))) \o Enqueue("voice")
FlushVoiceSessions(p) ==
    Atomically(Sweep(Row(p, "session")) \o Deliver(Logged("minutes")))
Flush(e) == Sweep(Queue(e)) \o Deliver(Logged(e))
FlushLogs == Flush("logs")
FlushStats == Flush("stats")
FlushAndReplicate(e) == Flush(e) \o Deliver(Remote(e))
FlushVoice == FlushAndReplicate("voice")
FlushMinutes == Flush("minutes")
FlushBoosts == FlushAndReplicate("boosts")
FlushUsage == FlushAndReplicate("usage")
FlushActivity == FlushAndReplicate("activity")

-----------------------------------------------------------------------------
(* SnipeCache: the newest message of a channel, by its number, and the sum  *)
(* of the numbers that wait to be written.                                  *)

Newest    == <<"channel", "newest">>
ToWrite   == <<"channel", "pending">>
Deleted   == <<"channel", "rows">>
\* The message is put in front and what is in front is queued, under two locks.
AddDeleted(m) == Put(Newest, m) \o Read(Newest) \o Deliver(ToWrite)
FlushDeleted == Sweep(ToWrite) \o Deliver(Deleted)

-----------------------------------------------------------------------------
(* Dispatch of a command, and the watch over how fast they come.            *)

Strikes(p) == <<p, "strikes">>
Barred(p)  == <<p, "barred">>              \* until the time-out is over
Captcha(p) == <<p, "captcha">>
Recent(p)  == <<p, "recent">>
NotBanned(p) == Below(Mem(p, "banned"), 2)
BacCheck(p) ==
    Under("bac", Below(Barred(p), 1) \o Below(Captcha(p), 1) \o Try(Recent(p), 1))
BacSendCaptcha(p) ==
    Below(Barred(p), 1) \o Below(Captcha(p), 1) \o Try(Recent(p), 1)
    \o Fill(Captcha(p))
BacEscalate(p) == Try(Strikes(p), 1) \o Put(Recent(p), 0) \o Put(Barred(p), 1)
\* The row is written; what the caches say of the user is left as it was.
BacBans(p) ==
    Put(Row(p, "allowed"), 0) \o Put(Row(p, "banned"), 1) \o Put(Strikes(p), 0)
BacExpires(p) == Under("bac", Empty(Captcha(p)) \o BacEscalate(p))
BacRegular(p) == Under("bac", BacSendCaptcha(p))
BacWrongAnswer(p) == Under("bac", Empty(Captcha(p)) \o BacEscalate(p))
BacWrongAgain(p) == Under("bac", Empty(Captcha(p)) \o BacBans(p))
BacSolved(p) == Under("bac", Empty(Captcha(p)) \o Put(Recent(p), 0))

\* The prefixes of a user are kept for minutes; adding one does not drop them.
AllPrefixes(p) ==
    Below(Row(p, "prefixes"), 1) \o Read(Row(p, "prefix")) \o Write(Row(p, "prefixes"), 1)
HandleMessage(p) ==
    NotBanned(p) \o Below(<<p, "optedOut">>, 1) \o AllPrefixes(p) \o BacCheck(p)
    \o Enqueue("logs") \o Enqueue("stats") \o EnqueueUsage
HandleSlashCommand(p) ==
    NotBanned(p) \o Below(<<p, "optedOut">>, 1) \o BacCheck(p)
    \o Enqueue("logs") \o Enqueue("stats") \o EnqueueUsage
PlainHandleMessage(p) ==
    Below(Row(p, "banned"), 1) \o Below(<<p, "optedOut">>, 1) \o BacCheck(p)
    \o LogHistory(p) \o IncrementStat(p, "commands") \o IncrementDailyStat(p, "today")
    \o EnqueueUsage
PlainHandleSlashCommand(p) ==
    Below(Row(p, "banned"), 1) \o Below(<<p, "optedOut">>, 1) \o BacCheck(p)
    \o LogHistory(p) \o IncrementStat(p, "commands") \o IncrementDailyStat(p, "today")
    \o EnqueueUsage
=============================================================================
