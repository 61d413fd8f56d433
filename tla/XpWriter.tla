------------------------------ MODULE XpWriter ------------------------------
(***************************************************************************)
(* The write-behind queue for XP (performance/xp_batch_writer.h): gateway  *)
(* threads add what a message earns to three maps, each under its own      *)
(* mutex, and one flush at a time swaps the maps out, adds the sums to the *)
(* tables row by row, reads each row back to recompute its level, and      *)
(* hands the level-ups to a callback.  A flush is run by the flush thread  *)
(* or, after that thread has ended, by stop().                             *)
(*                                                                         *)
(* An amount is kept under a key <<user, part>>, part being Global, a      *)
(* guild (both rows of user_xp) or Coins (the user's wallet).              *)
(*                                                                         *)
(* task[h].at   idle, guild, coins: the next map the handler adds to       *)
(* writer       off, loop, entering (predicate evaluated, not yet          *)
(*              waiting), asleep, flush, exited                            *)
(* stopper      running, notify, join, drain, stopped                      *)
(* flush.at     none, swapGuild, swapCoins, write, read, level             *)
(***************************************************************************)
EXTENDS Integers, Sequences, FiniteSets

CONSTANTS
    Users, Guilds, Global, Coins,
    Handlers,        \* gateway threads
    Awards,          \* what one message may earn
    CoinsPerMessage, \* coins_per_message; 0 when coin rewards are off
    XpFor,           \* calculate_xp_for_level of the levels above 1
    RoleLevel,       \* the level a guild has a role for
    MaxPerFlush,     \* MAX_LEVELUPS_PER_FLUSH, 5 in the code
    Registered,      \* users with a row in users at the start
    MayFail,         \* whether statements and acquire() may fail
    MaxMessages,     \* bound on the messages
    MaxResets        \* bound on `level config reset`

Parts == Guilds \cup {Global, Coins}
Keys == Users \X Parts
XpKeys == Users \X (Guilds \cup {Global})

ASSUME PartsAssumption == Global # Coins /\ Global \notin Guilds /\ Coins \notin Guilds
ASSUME AwardsAssumption == Awards \subseteq Nat \ {0}
ASSUME CoinsAssumption == CoinsPerMessage \in Nat
ASSUME LevelsAssumption == XpFor \in [DOMAIN XpFor -> Nat] /\ IsFiniteSet(DOMAIN XpFor)
ASSUME FlushAssumption == MaxPerFlush \in Nat
ASSUME ResetsAssumption == MaxResets \in Nat
ASSUME RegisteredAssumption == Registered \subseteq Users
ASSUME FailAssumption == MayFail \in BOOLEAN

VARIABLES
    task, pending, writer, stopper, flush,
    snap,       \* the maps a flush has swapped out
    row,        \* user_xp rows, and wallets under Coins; level 0: no row
    events,     \* level_ups of the current flush
    known,      \* users with a row in users
    messages, resets,
    enqueued,   \* history: what has ever been added under a key
    announced,  \* history: the guild level-ups the callback has processed
    atReset,    \* history: enqueued when the key was last reset
    due         \* history: stored, swapped out or pending when stop() was called

vars == <<task, pending, writer, stopper, flush, snap, row, events, known,
          messages, resets, enqueued, announced, atReset, due>>
queue == <<task, pending, enqueued, messages>>
control == <<writer, stopper, due>>
table == <<row, known, atReset, resets>>

Zero == [k \in Keys |-> 0]
NoKey == <<>>
Idle == [at |-> "idle", user |-> NoKey, guild |-> NoKey, award |-> 0]
NoFlush == [at |-> "none", key |-> NoKey, new |-> 0, old |-> 0]
NoRow == [xp |-> 0, level |-> 0]

\* Mutant of LevelOf: one level too many.
LevelOfOneMore(xp) == 2 + Cardinality({l \in DOMAIN XpFor : XpFor[l] <= xp})

\* calculate_level_from_xp: thresholds grow with the level, so the loop counts them.
LevelOf(xp) == 1 + Cardinality({l \in DOMAIN XpFor : XpFor[l] <= xp})

Init ==
    /\ task = [h \in Handlers |-> Idle]
    /\ pending = Zero
    /\ snap = Zero
    /\ writer = "loop"
    /\ stopper = "running"
    /\ flush = NoFlush
    /\ known = Registered
    /\ row = [k \in Keys |-> NoRow]
    /\ events = <<>>
    /\ announced = {}
    /\ messages = 0
    /\ resets = 0
    /\ enqueued = Zero
    /\ atReset = Zero
    /\ due = Zero

-----------------------------------------------------------------------------
(* Gateway threads.  They go on until the process exits, also after stop(). *)

Enqueue(k, amount) ==
    /\ pending' = [pending EXCEPT ![k] = @ + amount]
    /\ enqueued' = [enqueued EXCEPT ![k] = @ + amount]

HandleMessage(h, u, g, x) ==
    /\ task[h] = Idle
    /\ messages < MaxMessages
    /\ messages' = messages + 1
    /\ Enqueue(<<u, Global>>, x)
    /\ task' = [task EXCEPT ![h] = [at |-> "guild", user |-> u, guild |-> g, award |-> x]]
    /\ UNCHANGED <<control, flush, snap, table, events, announced>>

EnqueueGuild(h) ==
    /\ task[h].at = "guild"
    /\ Enqueue(<<task[h].user, task[h].guild>>, task[h].award)
    /\ task' = [task EXCEPT ![h] = IF CoinsPerMessage > 0 THEN [@ EXCEPT !.at = "coins"] ELSE Idle]
    /\ UNCHANGED <<messages, control, flush, snap, table, events, announced>>

EnqueueCoins(h) ==
    /\ task[h].at = "coins"
    /\ Enqueue(<<task[h].user, Coins>>, CoinsPerMessage)
    /\ task' = [task EXCEPT ![h] = Idle]
    /\ UNCHANGED <<messages, control, flush, snap, table, events, announced>>

\* The user runs a first command, which makes the row in users.
Register(u) ==
    /\ u \notin known
    /\ known' = known \cup {u}
    /\ UNCHANGED <<queue, control, flush, snap, row, atReset, resets, events, announced>>

\* `level config reset`: one UPDATE over the rows of the guild.
ResetGuild(g) ==
    /\ resets < MaxResets
    /\ resets' = resets + 1
    /\ LET cleared == {k \in Keys : k[2] = g /\ row[k].level > 0}
       IN /\ row' = [k \in Keys |-> IF k \in cleared THEN [xp |-> 0, level |-> 1] ELSE row[k]]
          /\ atReset' = [k \in Keys |-> IF k[2] = g THEN enqueued[k] ELSE atReset[k]]
    /\ UNCHANGED <<queue, control, flush, snap, known, events, announced>>

-----------------------------------------------------------------------------
(* flush() *)

\* Back to the loop, or out of stop().
FlushDone ==
    /\ flush' = NoFlush
    /\ writer' = IF writer = "flush" THEN "loop" ELSE writer
    /\ stopper' = IF stopper = "drain" THEN "stopped" ELSE stopper
    /\ UNCHANGED due

\* Swap out the keys of some parts.
Swap(parts) ==
    LET swapped == {k \in Keys : k[2] \in parts}
    IN /\ snap' = [k \in Keys |-> IF k \in swapped THEN pending[k] ELSE snap[k]]
       /\ pending' = [k \in Keys |-> IF k \in swapped THEN 0 ELSE pending[k]]
       /\ UNCHANGED <<task, enqueued, messages, table, events, announced>>

\* Mutant of SwapGlobal: returns early when there is no global XP.
SwapGlobalIfAny ==
    /\ flush.at = "none"
    /\ writer = "flush" \/ stopper = "drain"
    /\ IF \E u \in Users : pending[<<u, Global>>] > 0
       THEN /\ Swap({Global})
            /\ flush' = [NoFlush EXCEPT !.at = "swapGuild"]
            /\ UNCHANGED control
       ELSE FlushDone /\ UNCHANGED <<queue, snap, table, events, announced>>

SwapGlobal ==
    /\ flush.at = "none"
    /\ writer = "flush" \/ stopper = "drain"
    /\ Swap({Global})
    /\ flush' = [NoFlush EXCEPT !.at = "swapGuild"]
    /\ UNCHANGED control

SwapGuild ==
    /\ flush.at = "swapGuild"
    /\ Swap(Guilds)
    /\ flush' = [flush EXCEPT !.at = "swapCoins"]
    /\ UNCHANGED control

SwapCoins ==
    /\ flush.at = "swapCoins"
    /\ Swap({Coins})
    /\ IF snap' = Zero
       THEN FlushDone
       ELSE flush' = [flush EXCEPT !.at = "write"] /\ UNCHANGED control

\* The sections of flush() in their order: no key before k's section is left.
Turn(k) ==
    /\ flush.at = "write"
    /\ snap[k] > 0
    /\ \A j \in Keys : snap[j] > 0 =>
         \/ j[2] = k[2]
         \/ k[2] = Global
         \/ k[2] \in Guilds /\ j[2] # Global

\* Mutant of Added: total_xp = VALUES(total_xp).
AddedAbsolute(k) == [xp |-> snap[k], level |-> IF row[k].level = 0 THEN 1 ELSE row[k].level]

Added(k) == [xp |-> row[k].xp + snap[k], level |-> IF row[k].level = 0 THEN 1 ELSE row[k].level]

\* Adds the sum to the row.  user_xp refers to users, so the row of a user who
\* is not registered is refused; that, and any failure, is not looked at.
Upsert(k) ==
    /\ k \in XpKeys /\ Turn(k)
    /\ snap' = [snap EXCEPT ![k] = 0]
    /\ flush' = [flush EXCEPT !.at = "read", !.key = k]
    /\ row' = IF k[1] \in known THEN [row EXCEPT ![k] = Added(k)] ELSE row
    /\ UNCHANGED <<queue, control, known, atReset, resets, events, announced>>

\* Mutant of UpsertFails: the sum is kept for a retry when the answer is lost,
\* though the row has it.
UpsertFailsRetried(k) ==
    /\ MayFail
    /\ k \in XpKeys /\ Turn(k) /\ k[1] \in known
    /\ row' = [row EXCEPT ![k] = Added(k)]
    /\ UNCHANGED <<queue, control, snap, flush, known, atReset, resets, events, announced>>

\* acquire() or prepare fails and the key is left out, or only execute fails.
UpsertFails(k) ==
    /\ MayFail
    /\ k \in XpKeys /\ Turn(k)
    /\ snap' = [snap EXCEPT ![k] = 0]
    /\ flush' \in {flush, [flush EXCEPT !.at = "read", !.key = k]}
    /\ UNCHANGED <<queue, control, table, events, announced>>

\* Reads the row back; nothing is left to do unless its level is out of date.
ReadBack ==
    /\ flush.at = "read"
    /\ LET r == row[flush.key]
       IN flush' = IF r.level \notin {0, LevelOf(r.xp)}
                   THEN [flush EXCEPT !.at = "level", !.new = LevelOf(r.xp), !.old = r.level]
                   ELSE [NoFlush EXCEPT !.at = "write"]
    /\ UNCHANGED <<queue, control, snap, table, events, announced>>

ReadBackFails ==
    /\ MayFail
    /\ flush.at = "read"
    /\ flush' = [NoFlush EXCEPT !.at = "write"]
    /\ UNCHANGED <<queue, control, snap, table, events, announced>>

\* Goes on to the next key, with an event if the level rose.
AfterLevel ==
    /\ flush' = [NoFlush EXCEPT !.at = "write"]
    /\ events' = IF flush.new > flush.old
                 THEN Append(events, [key |-> flush.key, level |-> flush.new])
                 ELSE events
    /\ UNCHANGED <<queue, control, snap, known, atReset, resets, announced>>

\* Mutant of SetLevel: the level is announced and not written.
SetLevelDropped ==
    /\ flush.at = "level"
    /\ UNCHANGED row
    /\ AfterLevel

SetLevel ==
    /\ flush.at = "level"
    /\ row' = [row EXCEPT ![flush.key].level = flush.new]
    /\ AfterLevel

SetLevelFails ==
    /\ MayFail
    /\ flush.at = "level"
    /\ UNCHANGED row
    /\ AfterLevel

\* update_wallet, atomic by itself (AccountStore); its result is not looked at.
PayCoins(u) ==
    /\ Turn(<<u, Coins>>)
    /\ snap' = [snap EXCEPT ![<<u, Coins>>] = 0]
    /\ row' = IF u \in known
              THEN [row EXCEPT ![<<u, Coins>>].xp = @ + snap[<<u, Coins>>]]
              ELSE row
    /\ UNCHANGED <<queue, control, flush, known, atReset, resets, events, announced>>

PayCoinsFails(u) ==
    /\ MayFail
    /\ Turn(<<u, Coins>>)
    /\ snap' = [snap EXCEPT ![<<u, Coins>>] = 0]
    /\ UNCHANGED <<queue, control, flush, table, events, announced>>

\* Mutant of Processed: off by one.
ProcessedButOne ==
    {<<events[i].key, events[i].level>> :
        i \in {i \in 1 .. Len(events) : i < MaxPerFlush /\ events[i].key[2] # Global}}

\* The level-ups of guilds among the first MaxPerFlush; global ones count too.
Processed ==
    {<<events[i].key, events[i].level>> :
        i \in {i \in 1 .. Len(events) : i <= MaxPerFlush /\ events[i].key[2] # Global}}

\* The callback announces them and gives their roles, unless it cannot read the
\* configuration of the guild.
Callback ==
    /\ flush.at = "write" /\ snap = Zero
    /\ \E lost \in (IF MayFail THEN SUBSET Processed ELSE {{}}) :
         announced' = announced \cup (Processed \ lost)
    /\ events' = <<>>
    /\ FlushDone
    /\ UNCHANGED <<queue, snap, table>>

-----------------------------------------------------------------------------
(* flush_loop() and stop() *)

Loop ==
    /\ writer = "loop"
    /\ writer' = IF stopper = "running" THEN "entering" ELSE "exited"
    /\ UNCHANGED <<queue, stopper, due, flush, snap, table, events, announced>>

Sleep ==
    /\ writer = "entering"
    /\ writer' = "asleep"
    /\ UNCHANGED <<queue, stopper, due, flush, snap, table, events, announced>>

\* Mutant of Timeout: wait() in place of wait_for().
TimeoutNever == FALSE

Timeout ==
    /\ writer = "asleep"
    /\ writer' = IF stopper = "running" THEN "flush" ELSE "exited"
    /\ UNCHANGED <<queue, stopper, due, flush, snap, table, events, announced>>

\* stop() clears running_ ...
Stop ==
    /\ stopper = "running"
    /\ stopper' = "notify"
    /\ due' = [k \in Keys |-> row[k].xp + snap[k] + pending[k]]
    /\ UNCHANGED <<queue, writer, flush, snap, table, events, announced>>

\* ... and notifies without taking cv_mutex_: only a thread already asleep hears it.
Notify ==
    /\ stopper = "notify"
    /\ stopper' = "join"
    /\ writer' = IF writer = "asleep" THEN "loop" ELSE writer
    /\ UNCHANGED <<queue, due, flush, snap, table, events, announced>>

\* Mutant of Join: no final flush.
JoinUndrained ==
    /\ stopper = "join" /\ writer = "exited"
    /\ stopper' = "stopped"
    /\ UNCHANGED <<queue, writer, due, flush, snap, table, events, announced>>

Join ==
    /\ stopper = "join" /\ writer = "exited"
    /\ stopper' = "drain"
    /\ UNCHANGED <<queue, writer, due, flush, snap, table, events, announced>>

FlushStep ==
    \/ SwapGlobal \/ SwapGuild \/ SwapCoins
    \/ \E k \in XpKeys : Upsert(k) \/ UpsertFails(k)
    \/ ReadBack \/ ReadBackFails
    \/ SetLevel \/ SetLevelFails
    \/ \E u \in Users : PayCoins(u) \/ PayCoinsFails(u)
    \/ Callback

WriterStep == Loop \/ Sleep \/ Timeout
StopStep == Notify \/ Join

HandlerStep(h) ==
    \/ \E u \in Users, g \in Guilds, x \in Awards : HandleMessage(h, u, g, x)
    \/ EnqueueGuild(h)
    \/ EnqueueCoins(h)

Next ==
    \/ \E h \in Handlers : HandlerStep(h)
    \/ \E u \in Users : Register(u)
    \/ \E g \in Guilds : ResetGuild(g)
    \/ FlushStep
    \/ WriterStep
    \/ Stop
    \/ StopStep

Spec == Init /\ [][Next]_vars

\* The threads are scheduled and wait_for times out; nobody has to send a
\* message, reset a guild or stop the program.
FairSpec ==
    /\ Spec
    /\ WF_vars(FlushStep)
    /\ WF_vars(WriterStep)
    /\ WF_vars(StopStep)

-----------------------------------------------------------------------------
(* Properties *)

MaxLevel == 1 + Cardinality(DOMAIN XpFor)

\* Every variable keeps its type; levels stay in the table of thresholds.
TypeOK ==
    /\ task \in [Handlers -> {Idle} \cup
         [at : {"guild", "coins"}, user : Users, guild : Guilds, award : Awards]]
    /\ pending \in [Keys -> Nat]
    /\ snap \in [Keys -> Nat]
    /\ row \in [Keys -> [xp : Nat, level : 0 .. MaxLevel]]
    /\ writer \in {"loop", "entering", "asleep", "flush", "exited"}
    /\ stopper \in {"running", "notify", "join", "drain", "stopped"}
    /\ flush \in [at : {"none", "swapGuild", "swapCoins", "write", "read", "level"},
                  key : Keys \cup {NoKey}, new : 0 .. MaxLevel, old : 0 .. MaxLevel]
    /\ flush.at \in {"read", "level"} => flush.key \in XpKeys
    /\ flush.at = "level" => flush.old > 0
    /\ events \in Seq([key : XpKeys, level : 2 .. MaxLevel])
    /\ known \subseteq Users
    /\ enqueued \in [Keys -> Nat]

\* Whatever failed, nothing that was added once reaches a table twice: it is
\* pending, swapped out, stored or lost, never two of them.
NeverTwice == \A k \in Keys : row[k].xp + snap[k] + pending[k] <= enqueued[k]

\* "All accumulated deltas are applied with atomic SQL": nothing is lost either.
\* It holds while no statement fails, every user is registered and no guild is reset.
XpConserved == \A k \in Keys : row[k].xp + snap[k] + pending[k] = enqueued[k]

\* The level column follows the total, but for the row the flush has in hand.
LevelMatchesXp ==
    \A k \in XpKeys :
        \/ row[k].level \in {0, LevelOf(row[k].xp)}
        \/ flush.at \in {"read", "level"} /\ flush.key = k

\* Between flushes, the level a member of a guild has reached has been through
\* the callback, which announces it and gives its role.
LevelUpsAnnounced ==
    flush.at = "none" =>
        \A k \in Users \X Guilds : row[k].level > 1 => <<k, row[k].level>> \in announced

\* Between flushes, who is at or above the level a role is for has been given it.
EarnedRoleGiven ==
    flush.at = "none" =>
        \A k \in Users \X Guilds : row[k].level >= RoleLevel => <<k, RoleLevel>> \in announced

\* The callback is fired once for a level of a user (without resets).
AnnouncedOnce ==
    [][events # <<>> /\ events' = <<>> => Processed \cap announced = {}]_vars

\* When stop() has returned, all that was stored or queued when it was called is stored,
\* wherever the flush thread was at that moment.
StopDrains == stopper = "stopped" => \A k \in Keys : row[k].xp >= due[k]

\* A reset takes back all that was earned before it.
ResetStays == \A k \in Users \X Guilds : row[k].xp <= enqueued[k] - atReset[k]

\* stop() returns, although its notification may come before the thread sleeps.
StopReturns == stopper = "notify" ~> stopper = "stopped"

\* What is queued is flushed in time, unless the program is stopped.
PendingIsFlushed ==
    \A k \in Keys : pending[k] > 0 ~> (pending[k] = 0 \/ stopper = "stopped")
=============================================================================
