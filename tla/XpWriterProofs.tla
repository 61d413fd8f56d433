--------------------------- MODULE XpWriterProofs ---------------------------
(***************************************************************************)
(* Proofs about XpWriter, for any users, guilds, handlers, awards, level   *)
(* table and bounds, with every failure the model has.                     *)
(***************************************************************************)
EXTENDS XpWriter, FiniteSetTheorems, TLAPS

LEMMA LevelOfRange ==
    ASSUME NEW xp \in Nat
    PROVE  LevelOf(xp) \in 1 .. MaxLevel
  <1> DEFINE below == {l \in DOMAIN XpFor : XpFor[l] <= xp}
  <1>1. IsFiniteSet(below) /\ Cardinality(below) <= Cardinality(DOMAIN XpFor)
    BY LevelsAssumption, FS_Subset
  <1>2. Cardinality(below) \in Nat /\ Cardinality(DOMAIN XpFor) \in Nat
    BY <1>1, LevelsAssumption, FS_CardinalityType
  <1>3. LevelOf(xp) = 1 + Cardinality(below)
    BY DEF LevelOf
  <1> QED BY <1>1, <1>2, <1>3 DEF MaxLevel

LEMMA MaxLevelPositive == MaxLevel \in Nat \ {0}
  BY LevelsAssumption, FS_CardinalityType DEF MaxLevel

(* What the accounting is about: where an amount can be.                    *)
Amounts ==
    /\ pending \in [Keys -> Nat]
    /\ snap \in [Keys -> Nat]
    /\ row \in [Keys -> [xp : Nat, level : 0 .. MaxLevel]]
    /\ enqueued \in [Keys -> Nat]

FlushType ==
    /\ flush \in [at : {"none", "swapGuild", "swapCoins", "write", "read", "level"},
                  key : Keys \cup {NoKey}, new : 0 .. MaxLevel, old : 0 .. MaxLevel]
    /\ flush.at \in {"read", "level"} => flush.key \in XpKeys
    /\ flush.at = "level" => flush.old > 0

TaskType ==
    task \in [Handlers -> {Idle} \cup
        [at : {"guild", "coins"}, user : Users, guild : Guilds, award : Awards]]

ControlType ==
    /\ writer \in {"loop", "entering", "asleep", "flush", "exited"}
    /\ stopper \in {"running", "notify", "join", "drain", "stopped"}
    /\ known \subseteq Users

EventsType == events \in Seq([key : XpKeys, level : 2 .. MaxLevel])

LEMMA TypeParts == TypeOK <=> Amounts /\ FlushType /\ TaskType /\ ControlType /\ EventsType
  BY DEF TypeOK, Amounts, FlushType, TaskType, ControlType, EventsType

LEMMA TypePartsNext ==
    ASSUME Amounts', FlushType', TaskType', ControlType', EventsType'
    PROVE  TypeOK'
  BY DEF TypeOK, Amounts, FlushType, TaskType, ControlType, EventsType

(* Nothing is lost while no statement fails, no guild is reset and everybody *)
(* who chats has a row in users.                                            *)
Lossless == ~MayFail /\ MaxResets = 0 /\ known = Users /\ resets \in Nat

Kept == Amounts' /\ (NeverTwice => NeverTwice') /\ (Lossless /\ XpConserved => XpConserved')

LEMMA UntouchedKept ==
    ASSUME Amounts, UNCHANGED <<pending, snap, row, enqueued>>
    PROVE  Kept
  BY DEF Kept, Amounts, NeverTwice, XpConserved

LEMMA EnqueueKept ==
    ASSUME Amounts, NEW k \in Keys, NEW amount \in Nat, Enqueue(k, amount), UNCHANGED <<snap, row>>
    PROVE  Kept
  <1>1. pending' \in [Keys -> Nat] /\ enqueued' \in [Keys -> Nat]
    BY DEF Enqueue, Amounts
  <1>2. \A j \in Keys : \E a \in Nat :
            pending'[j] = pending[j] + a /\ enqueued'[j] = enqueued[j] + a
    <2> TAKE j \in Keys
    <2> CASE j = k
      <3> WITNESS amount \in Nat
      <3> QED BY DEF Enqueue, Amounts
    <2> CASE j # k
      <3> WITNESS 0 \in Nat
      <3> QED BY DEF Enqueue, Amounts
    <2> QED OBVIOUS
  <1> QED BY <1>1, <1>2 DEF Kept, Amounts, NeverTwice, XpConserved

LEMMA SwapKept ==
    ASSUME Amounts, NEW parts, Swap(parts),
           \A k \in Keys : k[2] \in parts => snap[k] = 0
    PROVE  Kept
  <1>1. snap' \in [Keys -> Nat] /\ pending' \in [Keys -> Nat]
    BY DEF Swap, Amounts
  <1>2. \A k \in Keys : snap'[k] + pending'[k] = snap[k] + pending[k]
    BY DEF Swap, Amounts
  <1>3. row' = row /\ enqueued' = enqueued
    BY DEF Swap, table
  <1> QED BY <1>1, <1>2, <1>3 DEF Kept, Amounts, NeverTwice, XpConserved

(* A flush swaps a map out only when the copy it fills is empty.            *)
SnapEmpty ==
    /\ flush.at = "none" => \A k \in Keys : snap[k] = 0
    /\ flush.at = "swapGuild" => \A k \in Keys : k[2] # Global => snap[k] = 0
    /\ flush.at = "swapCoins" => \A k \in Keys : k[2] = Coins => snap[k] = 0

IInv == TypeOK /\ SnapEmpty /\ NeverTwice

LEMMA KeyFacts ==
    /\ \A u \in Users : <<u, Global>> \in Keys /\ <<u, Coins>> \in Keys
    /\ \A u \in Users, g \in Guilds : <<u, g>> \in Keys
    /\ XpKeys \subseteq Keys
    /\ \A k \in Keys : k[1] \in Users /\ k[2] \in Parts
  BY DEF Keys, XpKeys, Parts

(* A handler's step: it adds to one map and goes on to the next.            *)
LEMMA HandlerKeeps ==
    ASSUME TypeOK, SnapEmpty, NEW h \in Handlers, HandlerStep(h)
    PROVE  TypeOK' /\ SnapEmpty' /\ Kept
  <1>1. CASE \E u \in Users, g \in Guilds, x \in Awards : HandleMessage(h, u, g, x)
    <2>1. PICK u \in Users, g \in Guilds, x \in Awards : HandleMessage(h, u, g, x)
      BY <1>1
    <2>2. Kept
      BY <2>1, KeyFacts, AwardsAssumption, TypeParts, EnqueueKept DEF HandleMessage, table
    <2>3. TaskType'
      <3>1. [at |-> "guild", user |-> u, guild |-> g, award |-> x] \in
              [at : {"guild", "coins"}, user : Users, guild : Guilds, award : Awards]
        OBVIOUS
      <3> QED BY <2>1, <3>1, TypeParts DEF HandleMessage, TaskType
    <2>4. UNCHANGED <<flush, snap, events, writer, stopper, known>>
      BY <2>1 DEF HandleMessage, control, table
    <2> QED BY <2>2, <2>3, <2>4, TypeParts, TypePartsNext DEF Kept, FlushType, ControlType, EventsType, SnapEmpty
  <1>2. CASE EnqueueGuild(h)
    <2>1. task[h] \in [at : {"guild", "coins"}, user : Users, guild : Guilds, award : Awards]
      BY <1>2, TypeParts DEF EnqueueGuild, TaskType, Idle
    <2>2. Kept
      <3> DEFINE k == <<task[h].user, task[h].guild>>
      <3>1. k \in Keys /\ task[h].award \in Nat
        BY <2>1, KeyFacts, AwardsAssumption
      <3>2. Enqueue(k, task[h].award) /\ UNCHANGED <<snap, row>>
        BY <1>2 DEF EnqueueGuild, table
      <3> QED BY <3>1, <3>2, TypeParts, EnqueueKept
    <2>3. TaskType'
      <3>1. [task[h] EXCEPT !.at = "coins"] \in
              [at : {"guild", "coins"}, user : Users, guild : Guilds, award : Awards]
        BY <2>1
      <3> QED BY <1>2, <3>1, TypeParts DEF EnqueueGuild, TaskType
    <2>4. UNCHANGED <<flush, snap, events, writer, stopper, known>>
      BY <1>2 DEF EnqueueGuild, control, table
    <2> QED BY <2>2, <2>3, <2>4, TypeParts, TypePartsNext DEF Kept, FlushType, ControlType, EventsType, SnapEmpty
  <1>3. CASE EnqueueCoins(h)
    <2>1. task[h] \in [at : {"guild", "coins"}, user : Users, guild : Guilds, award : Awards]
      BY <1>3, TypeParts DEF EnqueueCoins, TaskType, Idle
    <2>2. Kept
      <3> DEFINE k == <<task[h].user, Coins>>
      <3>1. k \in Keys /\ CoinsPerMessage \in Nat
        BY <2>1, KeyFacts, CoinsAssumption
      <3>2. Enqueue(k, CoinsPerMessage) /\ UNCHANGED <<snap, row>>
        BY <1>3 DEF EnqueueCoins, table
      <3> QED BY <3>1, <3>2, TypeParts, EnqueueKept
    <2>3. TaskType'
      BY <1>3, TypeParts DEF EnqueueCoins, TaskType
    <2>4. UNCHANGED <<flush, snap, events, writer, stopper, known>>
      BY <1>3 DEF EnqueueCoins, control, table
    <2> QED BY <2>2, <2>3, <2>4, TypeParts, TypePartsNext DEF Kept, FlushType, ControlType, EventsType, SnapEmpty
  <1> QED BY <1>1, <1>2, <1>3 DEF HandlerStep

(* Commands: registration touches no amount, a reset takes XP away.         *)
LEMMA CommandKeeps ==
    ASSUME TypeOK, SnapEmpty
    PROVE  /\ \A u \in Users : Register(u) => TypeOK' /\ SnapEmpty' /\ Kept
           /\ \A g \in Guilds : ResetGuild(g) => TypeOK' /\ SnapEmpty' /\ Kept
  <1>1. ASSUME NEW u \in Users, Register(u)
        PROVE  TypeOK' /\ SnapEmpty' /\ Kept
    <2>1. Kept
      BY <1>1, TypeParts, UntouchedKept DEF Register, queue
    <2>2. UNCHANGED <<task, flush, snap, events, writer, stopper>> /\ known' \subseteq Users
      BY <1>1, TypeParts DEF Register, queue, control, ControlType
    <2> QED BY <2>1, <2>2, TypeParts, TypePartsNext DEF Kept, FlushType, TaskType, ControlType, EventsType, SnapEmpty
  <1>2. ASSUME NEW g \in Guilds, ResetGuild(g)
        PROVE  TypeOK' /\ SnapEmpty' /\ Kept
    <2>1. UNCHANGED <<pending, snap, enqueued>>
      BY <1>2 DEF ResetGuild, queue
    <2>2. /\ row' \in [Keys -> [xp : Nat, level : 0 .. MaxLevel]]
          /\ \A k \in Keys : row'[k].xp <= row[k].xp
      BY <1>2, TypeParts, MaxLevelPositive DEF ResetGuild, Amounts
    <2>3. ~Lossless
      BY <1>2, ResetsAssumption DEF ResetGuild, Lossless
    <2>4. Kept
      BY <2>1, <2>2, <2>3, TypeParts DEF Kept, Amounts, NeverTwice
    <2>5. UNCHANGED <<task, flush, snap, events, writer, stopper, known>>
      BY <1>2 DEF ResetGuild, queue, control
    <2> QED BY <2>4, <2>5, TypeParts, TypePartsNext DEF Kept, FlushType, TaskType, ControlType, EventsType, SnapEmpty
  <1> QED BY <1>1, <1>2

LEMMA SwapKeeps ==
    ASSUME TypeOK, SnapEmpty
    PROVE  /\ SwapGlobal => TypeOK' /\ SnapEmpty' /\ Kept
           /\ SwapGuild => TypeOK' /\ SnapEmpty' /\ Kept
           /\ SwapCoins => TypeOK' /\ SnapEmpty' /\ Kept
  <1> USE TypeParts
  <1>a. ASSUME NEW parts, Swap(parts)
        PROVE  /\ TaskType' /\ EventsType' /\ known' = known
               /\ \A k \in Keys : k[2] \notin parts => snap'[k] = snap[k]
    BY <1>a DEF Swap, table, TaskType, EventsType
  <1>1. ASSUME SwapGlobal
        PROVE  TypeOK' /\ SnapEmpty' /\ Kept
    <2>1. Kept
      BY <1>1, SwapKept DEF SwapGlobal, SnapEmpty
    <2>2. FlushType' /\ ControlType'
      BY <1>1, <1>a, MaxLevelPositive DEF SwapGlobal, FlushType, ControlType, control, NoFlush
    <2>3. SnapEmpty'
      BY <1>1, <1>a DEF SwapGlobal, SnapEmpty, NoFlush
    <2> QED BY <1>1, <1>a, <2>1, <2>2, <2>3, TypePartsNext DEF SwapGlobal, Kept
  <1>2. ASSUME SwapGuild
        PROVE  TypeOK' /\ SnapEmpty' /\ Kept
    <2>1. Global \notin Guilds /\ Coins \notin Guilds
      BY PartsAssumption
    <2>2. Kept
      BY <1>2, <2>1, SwapKept DEF SwapGuild, SnapEmpty
    <2>3. FlushType' /\ ControlType'
      BY <1>2, <1>a DEF SwapGuild, FlushType, ControlType, control
    <2>4. SnapEmpty'
      BY <1>2, <1>a, <2>1, PartsAssumption DEF SwapGuild, SnapEmpty, FlushType
    <2> QED BY <1>2, <1>a, <2>2, <2>3, <2>4, TypePartsNext DEF SwapGuild, Kept
  <1>3. ASSUME SwapCoins
        PROVE  TypeOK' /\ SnapEmpty' /\ Kept
    <2>1. Kept
      BY <1>3, SwapKept DEF SwapCoins, SnapEmpty
    <2>2. CASE snap' = Zero
      <3>1. FlushType' /\ ControlType'
        BY <1>3, <1>a, <2>2, MaxLevelPositive
        DEF SwapCoins, FlushDone, FlushType, ControlType, NoFlush
      <3>2. SnapEmpty'
        BY <2>2 DEF SnapEmpty, Zero, FlushDone, NoFlush
      <3> QED BY <1>3, <1>a, <2>1, <3>1, <3>2, TypePartsNext DEF SwapCoins, Kept
    <2>3. CASE snap' # Zero
      <3>1. FlushType' /\ ControlType'
        BY <1>3, <1>a, <2>3 DEF SwapCoins, FlushType, ControlType, control
      <3>2. SnapEmpty'
        BY <1>3, <2>3 DEF SnapEmpty, SwapCoins, FlushType
      <3> QED BY <1>3, <1>a, <2>1, <3>1, <3>2, TypePartsNext DEF SwapCoins, Kept
    <2> QED BY <2>2, <2>3
  <1> QED BY <1>1, <1>2, <1>3

(* The steps that take a sum out of the copy: it is stored or lost.         *)
LEMMA StoreKeeps ==
    ASSUME TypeOK, SnapEmpty, NEW k \in Keys, flush.at = "write",
           snap' = [snap EXCEPT ![k] = 0],
           \/ row' = row
           \/ row' = [row EXCEPT ![k] = Added(k)]
           \/ row' = [row EXCEPT ![k].xp = @ + snap[k]],
           Lossless => row' # row \/ snap[k] = 0,
           UNCHANGED <<queue, control, known, events>>,
           FlushType', flush'.at \in {"write", "read"}
    PROVE  TypeOK' /\ SnapEmpty' /\ Kept
  <1> USE TypeParts
  <1>1. /\ Added(k) \in [xp : Nat, level : 0 .. MaxLevel]
        /\ Added(k).xp = row[k].xp + snap[k]
    BY MaxLevelPositive DEF Added, Amounts
  <1>2. snap' \in [Keys -> Nat] /\ row' \in [Keys -> [xp : Nat, level : 0 .. MaxLevel]]
    BY <1>1 DEF Amounts
  <1>3. UNCHANGED <<pending, enqueued, task, writer, stopper>>
    BY DEF queue, control
  <1>4. \A j \in Keys : row'[j].xp + snap'[j] <= row[j].xp + snap[j]
    BY <1>1, <1>2 DEF Amounts
  <1>5. Lossless => \A j \in Keys : row'[j].xp + snap'[j] = row[j].xp + snap[j]
    BY <1>1, <1>2 DEF Amounts
  <1>6. Kept
    BY <1>2, <1>3, <1>4, <1>5 DEF Kept, Amounts, NeverTwice, XpConserved
  <1> QED BY <1>3, <1>6, TypePartsNext DEF Kept, TaskType, ControlType, EventsType, SnapEmpty

LEMMA WriteKeeps ==
    ASSUME TypeOK, SnapEmpty
    PROVE  /\ \A k \in XpKeys : Upsert(k) \/ UpsertFails(k) => TypeOK' /\ SnapEmpty' /\ Kept
           /\ \A u \in Users : PayCoins(u) \/ PayCoinsFails(u) => TypeOK' /\ SnapEmpty' /\ Kept
  <1> USE TypeParts, KeyFacts
  <1>1. ASSUME NEW k \in XpKeys, Upsert(k)
        PROVE  TypeOK' /\ SnapEmpty' /\ Kept
    <2>1. /\ k \in Keys /\ flush.at = "write" /\ snap[k] > 0
          /\ snap' = [snap EXCEPT ![k] = 0]
          /\ UNCHANGED <<queue, control, known, events>>
      BY <1>1 DEF Upsert, Turn
    <2>2. flush' = [flush EXCEPT !.at = "read", !.key = k]
      BY <1>1 DEF Upsert
    <2>3. FlushType' /\ flush'.at = "read"
      BY <2>1, <2>2 DEF FlushType
    <2>4. row' = row \/ row' = [row EXCEPT ![k] = Added(k)]
      BY <1>1 DEF Upsert
    <2>5. Lossless => row' # row
      <3>1. SUFFICES ASSUME Lossless PROVE row' # row
        OBVIOUS
      <3>2. k[1] \in known
        BY <2>1, <3>1 DEF Lossless
      <3>3. row' = [row EXCEPT ![k] = Added(k)]
        BY <1>1, <3>2 DEF Upsert
      <3>4. row'[k].xp = row[k].xp + snap[k]
        BY <2>1, <3>3 DEF Amounts, Added
      <3> QED BY <2>1, <3>4 DEF Amounts
    <2> QED BY <2>1, <2>3, <2>4, <2>5, StoreKeeps
  <1>2. ASSUME NEW k \in XpKeys, UpsertFails(k)
        PROVE  TypeOK' /\ SnapEmpty' /\ Kept
    <2>1. /\ k \in Keys /\ flush.at = "write" /\ ~Lossless
          /\ snap' = [snap EXCEPT ![k] = 0] /\ row' = row
          /\ UNCHANGED <<queue, control, known, events>>
      BY <1>2 DEF UpsertFails, Turn, table, Lossless
    <2>2. flush' = flush \/ flush' = [flush EXCEPT !.at = "read", !.key = k]
      BY <1>2 DEF UpsertFails
    <2>3. FlushType' /\ flush'.at \in {"write", "read"}
      BY <2>1, <2>2 DEF FlushType
    <2> QED BY <2>1, <2>3, StoreKeeps
  <1>3. ASSUME NEW u \in Users, PayCoins(u)
        PROVE  TypeOK' /\ SnapEmpty' /\ Kept
    <2> DEFINE k == <<u, Coins>>
    <2>1. /\ k \in Keys /\ flush.at = "write" /\ snap[k] > 0
          /\ snap' = [snap EXCEPT ![k] = 0] /\ flush' = flush
          /\ UNCHANGED <<queue, control, known, events>>
      BY <1>3 DEF PayCoins, Turn
    <2>2. row' = row \/ row' = [row EXCEPT ![k].xp = @ + snap[k]]
      BY <1>3 DEF PayCoins
    <2>3. Lossless => row' # row
      <3>1. SUFFICES ASSUME Lossless PROVE row' # row
        OBVIOUS
      <3>2. row' = [row EXCEPT ![k].xp = @ + snap[k]]
        BY <1>3, <3>1 DEF PayCoins, Lossless
      <3>3. row'[k].xp = row[k].xp + snap[k]
        BY <2>1, <3>2 DEF Amounts
      <3> QED BY <2>1, <3>3 DEF Amounts
    <2>4. FlushType'
      BY <2>1 DEF FlushType
    <2> QED BY <2>1, <2>2, <2>3, <2>4, StoreKeeps
  <1>4. ASSUME NEW u \in Users, PayCoinsFails(u)
        PROVE  TypeOK' /\ SnapEmpty' /\ Kept
    <2>1. /\ <<u, Coins>> \in Keys /\ flush.at = "write" /\ ~Lossless
          /\ snap' = [snap EXCEPT ![<<u, Coins>>] = 0] /\ row' = row /\ flush' = flush
          /\ UNCHANGED <<queue, control, known, events>>
      BY <1>4 DEF PayCoinsFails, Turn, table, Lossless
    <2>2. FlushType'
      BY <2>1 DEF FlushType
    <2> QED BY <2>1, <2>2, StoreKeeps
  <1> QED BY <1>1, <1>2, <1>3, <1>4

(* Reading the row back and correcting its level leaves the amounts alone.  *)
LEMMA LevelKeeps ==
    ASSUME TypeOK, SnapEmpty, ReadBack \/ ReadBackFails \/ SetLevel \/ SetLevelFails
    PROVE  TypeOK' /\ SnapEmpty' /\ Kept
  <1> USE TypeParts, KeyFacts
  <1>1. CASE ReadBack \/ ReadBackFails
    <2>1. UNCHANGED <<task, pending, snap, row, enqueued, writer, stopper, known, events>>
      BY <1>1 DEF ReadBack, ReadBackFails, queue, control, table
    <2>2. FlushType' /\ flush'.at \in {"write", "level"}
      <3>1. CASE ReadBack
        <4>1. flush.key \in XpKeys /\ row[flush.key] \in [xp : Nat, level : 0 .. MaxLevel]
          BY <3>1 DEF ReadBack, FlushType, Amounts
        <4>2. LevelOf(row[flush.key].xp) \in 1 .. MaxLevel
          BY <4>1, LevelOfRange
        <4>3. \/ /\ flush' = [flush EXCEPT !.at = "level",
                                         !.new = LevelOf(row[flush.key].xp),
                                         !.old = row[flush.key].level]
                 /\ row[flush.key].level # 0
              \/ flush' = [NoFlush EXCEPT !.at = "write"]
          BY <3>1 DEF ReadBack
        <4>4. CASE flush' = [NoFlush EXCEPT !.at = "write"]
          BY <4>4, MaxLevelPositive DEF FlushType, NoFlush
        <4>5. CASE flush' # [NoFlush EXCEPT !.at = "write"]
          <5> DEFINE new == LevelOf(row[flush.key].xp)
                     old == row[flush.key].level
          <5>1. new \in 0 .. MaxLevel /\ old \in 0 .. MaxLevel /\ old > 0
            BY <4>1, <4>2, <4>3, <4>5, MaxLevelPositive
          <5>2. flush' = [flush EXCEPT !.at = "level", !.new = new, !.old = old]
            BY <4>3, <4>5
          <5> HIDE DEF new, old
          <5> QED BY <4>1, <5>1, <5>2 DEF FlushType
        <4> QED BY <4>4, <4>5
      <3>2. CASE ReadBackFails
        BY <3>2, MaxLevelPositive DEF ReadBackFails, FlushType, NoFlush
      <3> QED BY <1>1, <3>1, <3>2
    <2>3. Kept
      BY <2>1, UntouchedKept
    <2> QED BY <2>1, <2>2, <2>3, TypePartsNext DEF Kept, TaskType, ControlType, EventsType, SnapEmpty
  <1>2. CASE SetLevel \/ SetLevelFails
    <2>1. /\ flush.at = "level" /\ flush.key \in Keys /\ AfterLevel
          /\ row' = row \/ row' = [row EXCEPT ![flush.key].level = flush.new]
      BY <1>2 DEF SetLevel, SetLevelFails, FlushType
    <2>2. UNCHANGED <<task, pending, snap, enqueued, writer, stopper, known>>
      BY <2>1 DEF AfterLevel, queue, control
    <2>3. /\ row' \in [Keys -> [xp : Nat, level : 0 .. MaxLevel]]
          /\ \A k \in Keys : row'[k].xp = row[k].xp
      <3>1. flush.new \in 0 .. MaxLevel
        BY DEF FlushType
      <3>2. [row[flush.key] EXCEPT !.level = flush.new] \in [xp : Nat, level : 0 .. MaxLevel]
        BY <2>1, <3>1 DEF Amounts
      <3>3. CASE row' = [row EXCEPT ![flush.key] = [row[flush.key] EXCEPT !.level = flush.new]]
        BY <2>1, <3>2, <3>3 DEF Amounts
      <3>4. CASE row' = row
        BY <3>4 DEF Amounts
      <3> QED BY <2>1, <3>3, <3>4
    <2>4. Kept
      BY <2>2, <2>3 DEF Kept, Amounts, NeverTwice, XpConserved
    <2>5. FlushType' /\ flush'.at = "write"
      BY <2>1, MaxLevelPositive DEF AfterLevel, FlushType, NoFlush
    <2>6. EventsType'
      <3>1. CASE flush.new > flush.old
        <4>1. [key |-> flush.key, level |-> flush.new] \in [key : XpKeys, level : 2 .. MaxLevel]
          BY <2>1, <3>1, MaxLevelPositive DEF FlushType
        <4>2. events' = Append(events, [key |-> flush.key, level |-> flush.new])
          BY <2>1, <3>1 DEF AfterLevel
        <4> QED BY <4>1, <4>2 DEF EventsType
      <3>2. CASE ~(flush.new > flush.old)
        BY <2>1, <3>2 DEF AfterLevel, EventsType
      <3> QED BY <3>1, <3>2
    <2> QED BY <2>2, <2>4, <2>5, <2>6, TypePartsNext DEF Kept, TaskType, ControlType, SnapEmpty
  <1> QED BY <1>1, <1>2

(* The end of a flush, and the steps of flush_loop() and stop().            *)
LEMMA ControlKeeps ==
    ASSUME TypeOK, SnapEmpty, Callback \/ WriterStep \/ Stop \/ StopStep
    PROVE  TypeOK' /\ SnapEmpty' /\ Kept
  <1> USE TypeParts
  <1>1. UNCHANGED <<task, pending, snap, row, enqueued, known>>
    BY DEF Callback, WriterStep, Loop, Sleep, Timeout, Stop, StopStep, Notify, Join, queue, table
  <1>2. Kept
    BY <1>1, UntouchedKept
  <1>3. CASE Callback
    <2>1. FlushType' /\ ControlType'
      BY <1>1, <1>3, MaxLevelPositive DEF Callback, FlushDone, FlushType, ControlType, NoFlush
    <2>2. SnapEmpty'
      BY <1>1, <1>3 DEF Callback, FlushDone, NoFlush, SnapEmpty, Zero
    <2>3. EventsType'
      BY <1>3 DEF Callback, EventsType
    <2> QED BY <1>1, <1>2, <2>1, <2>2, <2>3, TypePartsNext DEF Kept, TaskType
  <1>4. CASE WriterStep \/ Stop \/ StopStep
    <2>1. UNCHANGED <<flush, events>> /\ ControlType'
      BY <1>1, <1>4
      DEF WriterStep, Loop, Sleep, Timeout, Stop, StopStep, Notify, Join, ControlType
    <2> QED BY <1>1, <1>2, <2>1, TypePartsNext DEF Kept, TaskType, FlushType, EventsType, SnapEmpty
  <1> QED BY <1>3, <1>4

LEMMA StepKeeps ==
    ASSUME TypeOK, SnapEmpty, [Next]_vars
    PROVE  TypeOK' /\ SnapEmpty' /\ Kept
  <1>1. CASE \E h \in Handlers : HandlerStep(h)
    BY <1>1, HandlerKeeps
  <1>2. CASE (\E u \in Users : Register(u)) \/ (\E g \in Guilds : ResetGuild(g))
    BY <1>2, CommandKeeps
  <1>3. CASE SwapGlobal \/ SwapGuild \/ SwapCoins
    BY <1>3, SwapKeeps
  <1>4. CASE \/ \E k \in XpKeys : Upsert(k) \/ UpsertFails(k)
             \/ \E u \in Users : PayCoins(u) \/ PayCoinsFails(u)
    BY <1>4, WriteKeeps
  <1>5. CASE ReadBack \/ ReadBackFails \/ SetLevel \/ SetLevelFails
    BY <1>5, LevelKeeps
  <1>6. CASE Callback \/ WriterStep \/ Stop \/ StopStep
    BY <1>6, ControlKeeps
  <1>7. CASE UNCHANGED vars
    <2>1. UNCHANGED <<task, pending, snap, row, enqueued, flush, writer, stopper, known, events>>
      BY <1>7 DEF vars
    <2>2. Kept
      BY <2>1, TypeParts, UntouchedKept
    <2> QED BY <2>1, <2>2, TypeParts, TypePartsNext
            DEF Kept, TaskType, FlushType, ControlType, EventsType, SnapEmpty
  <1> QED BY <1>1, <1>2, <1>3, <1>4, <1>5, <1>6, <1>7 DEF Next, FlushStep

LEMMA InitHolds == Init => TypeOK /\ SnapEmpty /\ NeverTwice /\ XpConserved
  <1> SUFFICES ASSUME Init
               PROVE  TypeOK /\ SnapEmpty /\ NeverTwice /\ XpConserved
    OBVIOUS
  <1>1. Amounts
    <2>1. NoRow \in [xp : Nat, level : 0 .. MaxLevel]
      BY MaxLevelPositive DEF NoRow
    <2> QED BY <2>1 DEF Init, Amounts, Zero
  <1>2. \A k \in Keys : row[k].xp = 0 /\ snap[k] = 0 /\ pending[k] = 0 /\ enqueued[k] = 0
    BY DEF Init, Zero, NoRow
  <1>3. FlushType
    BY MaxLevelPositive DEF Init, FlushType, NoFlush
  <1>4. TaskType /\ ControlType /\ EventsType
    <2>1. known \subseteq Users
      BY RegisteredAssumption DEF Init
    <2> QED BY <2>1 DEF Init, TaskType, ControlType, EventsType
  <1> QED BY <1>1, <1>2, <1>3, <1>4, TypeParts DEF SnapEmpty, NeverTwice, XpConserved

(* The variables of XpWriter keep their types, and no sum is ever kept in   *)
(* two places or stored twice, whatever fails and however the threads,      *)
(* resets and the stop interleave (flush() and the enqueue functions).      *)
THEOREM Invariance == Spec => []IInv
  <1>1. Init => IInv
    BY InitHolds DEF IInv
  <1>2. IInv /\ [Next]_vars => IInv'
    BY StepKeeps DEF IInv, Kept
  <1> QED BY <1>1, <1>2, PTL DEF Spec

(* XpWriter's variables keep their types; levels stay in the table.         *)
THEOREM TypeCorrect == Spec => []TypeOK
  BY Invariance, PTL DEF IInv

(* What has been stored, swapped out and queued never exceeds what was      *)
(* enqueued: a failed, repeated or interrupted flush stores nothing twice.  *)
THEOREM StoresNothingTwice == Spec => []NeverTwice
  BY Invariance, PTL DEF IInv

(* While no statement fails, no guild is reset and every user has a row in  *)
(* users, everything enqueued is stored, swapped out or queued.             *)
THEOREM LosesNothing ==
    ASSUME ~MayFail, MaxResets = 0, Registered = Users
    PROVE  Spec => []XpConserved
  <1> DEFINE J == IInv /\ known = Users /\ resets \in Nat /\ XpConserved
  <1>1. Init => J
    BY InitHolds DEF IInv, Init
  <1>2. ASSUME J, [Next]_vars
        PROVE  J'
    <2>1. Lossless
      BY <1>2 DEF Lossless
    <2>2. TypeOK' /\ SnapEmpty' /\ Kept
      BY <1>2, StepKeeps DEF IInv
    <2>3. known' = known
      <3>1. CASE \E u \in Users : Register(u)
        BY <1>2, <3>1 DEF Register
      <3>2. CASE ~\E u \in Users : Register(u)
        BY <1>2, <3>2
        DEF Next, vars, HandlerStep, HandleMessage, EnqueueGuild, EnqueueCoins, ResetGuild,
            FlushStep, SwapGlobal, SwapGuild, SwapCoins, Swap, Upsert, UpsertFails, ReadBack,
            ReadBackFails, SetLevel, SetLevelFails, AfterLevel, PayCoins, PayCoinsFails,
            Callback, WriterStep, Loop, Sleep, Timeout, Stop, StopStep, Notify, Join, table
      <3> QED BY <3>1, <3>2
    <2>4. resets' \in Nat
      <3>1. CASE \E g \in Guilds : ResetGuild(g)
        BY <1>2, <3>1 DEF ResetGuild
      <3>2. CASE ~\E g \in Guilds : ResetGuild(g)
        BY <1>2, <3>2
        DEF Next, vars, HandlerStep, HandleMessage, EnqueueGuild, EnqueueCoins, Register,
            FlushStep, SwapGlobal, SwapGuild, SwapCoins, Swap, Upsert, UpsertFails, ReadBack,
            ReadBackFails, SetLevel, SetLevelFails, AfterLevel, PayCoins, PayCoinsFails,
            Callback, WriterStep, Loop, Sleep, Timeout, Stop, StopStep, Notify, Join, table
      <3> QED BY <3>1, <3>2
    <2> QED BY <1>2, <2>1, <2>2, <2>3, <2>4 DEF Kept, IInv
  <1>3. J /\ [Next]_vars => J'
    BY <1>2
  <1> QED BY <1>1, <1>3, PTL DEF Spec

-----------------------------------------------------------------------------
(* Levels.                                                                  *)

(* Without resets none ever happens.                                        *)
LEMMA NoResets ==
    ASSUME MaxResets = 0, resets \in Nat, [Next]_vars
    PROVE  resets' = resets /\ ~\E g \in Guilds : ResetGuild(g)
  <1>1. ~\E g \in Guilds : ResetGuild(g)
    BY DEF ResetGuild
  <1> QED BY <1>1
      DEF Next, vars, HandlerStep, HandleMessage, EnqueueGuild, EnqueueCoins, Register,
          FlushStep, SwapGlobal, SwapGuild, SwapCoins, Swap, Upsert, UpsertFails, ReadBack,
          ReadBackFails, SetLevel, SetLevelFails, AfterLevel, PayCoins, PayCoinsFails,
          Callback, WriterStep, Loop, Sleep, Timeout, Stop, StopStep, Notify, Join, table

(* The level the flush has computed is the one of the total it has read.    *)
LevelInv ==
    /\ LevelMatchesXp
    /\ flush.at = "level" => flush.new = LevelOf(row[flush.key].xp)

LEMMA LevelsKept ==
    ASSUME TypeOK, LevelInv, ~MayFail, MaxResets = 0, resets \in Nat, [Next]_vars
    PROVE  LevelInv'
  <1> USE KeyFacts DEF LevelInv, LevelMatchesXp
  <1>1. ASSUME UNCHANGED <<row, flush>>
        PROVE  LevelInv'
    BY <1>1
  <1>2. ASSUME row' = row, flush.at \notin {"read", "level"}, flush'.at \notin {"read", "level"}
        PROVE  LevelInv'
    BY <1>2
  <1>3. CASE \E h \in Handlers : HandlerStep(h)
    BY <1>1, <1>3 DEF HandlerStep, HandleMessage, EnqueueGuild, EnqueueCoins, table
  <1>4. CASE (\E u \in Users : Register(u)) \/ WriterStep \/ Stop \/ StopStep \/ UNCHANGED vars
    BY <1>1, <1>4
    DEF Register, WriterStep, Loop, Sleep, Timeout, Stop, StopStep, Notify, Join, table, vars
  <1>5. CASE SwapGlobal \/ SwapGuild \/ SwapCoins \/ Callback
    <2>1. row' = row /\ flush.at \notin {"read", "level"}
      BY <1>5 DEF SwapGlobal, SwapGuild, SwapCoins, Swap, Callback, table
    <2>2. flush'.at \notin {"read", "level"}
      BY <1>5, TypeParts
      DEF SwapGlobal, SwapGuild, SwapCoins, Callback, FlushDone, NoFlush, FlushType
    <2> QED BY <1>2, <2>1, <2>2
  <1>6. CASE \E k \in XpKeys : Upsert(k) \/ UpsertFails(k)
    <2>1. PICK k \in XpKeys : Upsert(k)
      BY <1>6 DEF UpsertFails
    <2>2. flush.at = "write" /\ flush'.at = "read" /\ flush'.key = k
      BY <2>1, TypeParts DEF Upsert, Turn, FlushType
    <2>3. \A j \in XpKeys : j # k => row'[j] = row[j]
      BY <2>1, TypeParts DEF Upsert, Amounts
    <2> QED BY <2>2, <2>3
  <1>7. CASE ReadBack \/ ReadBackFails
    <2> DEFINE r == row[flush.key]
    <2>1. /\ flush.at = "read" /\ row' = row
          /\ flush' = IF r.level \notin {0, LevelOf(r.xp)}
                      THEN [flush EXCEPT !.at = "level", !.new = LevelOf(r.xp), !.old = r.level]
                      ELSE [NoFlush EXCEPT !.at = "write"]
      BY <1>7 DEF ReadBack, ReadBackFails, table
    <2>2. CASE r.level \notin {0, LevelOf(r.xp)}
      <3>1. PICK new, old : new = LevelOf(r.xp)
                            /\ flush' = [flush EXCEPT !.at = "level", !.new = new, !.old = old]
        BY <2>1, <2>2
      <3>2. flush'.at = "level" /\ flush'.key = flush.key /\ flush'.new = LevelOf(r.xp)
        BY <3>1, TypeParts DEF FlushType
      <3> QED BY <2>1, <3>2
    <2>3. CASE r.level \in {0, LevelOf(r.xp)}
      <3>1. flush'.at = "write"
        BY <2>1, <2>3 DEF NoFlush
      <3> QED BY <2>1, <2>3, <3>1
    <2> QED BY <2>2, <2>3
  <1>8. CASE SetLevel \/ SetLevelFails
    <2>1. /\ flush.at = "level" /\ flush'.at = "write" /\ flush.key \in Keys
          /\ row' = [row EXCEPT ![flush.key].level = flush.new]
      BY <1>8, TypeParts DEF SetLevel, SetLevelFails, AfterLevel, NoFlush, FlushType
    <2>2. \A k \in Keys : /\ row'[k].xp = row[k].xp
                          /\ k # flush.key => row'[k].level = row[k].level
                          /\ k = flush.key => row'[k].level = LevelOf(row[k].xp)
      BY <2>1, TypeParts DEF Amounts
    <2>3. \A k \in XpKeys : row'[k].level \in {0, LevelOf(row'[k].xp)}
      BY <2>1, <2>2
    <2> QED BY <2>1, <2>3
  <1>9. CASE \E u \in Users : PayCoins(u) \/ PayCoinsFails(u)
    <2>1. PICK u \in Users : PayCoins(u)
      BY <1>9 DEF PayCoinsFails
    <2>2. flush' = flush /\ flush.at = "write"
      BY <2>1 DEF PayCoins, Turn
    <2>3. \A k \in XpKeys : k # <<u, Coins>>
      BY PartsAssumption DEF XpKeys
    <2>4. \A k \in XpKeys : row'[k] = row[k]
      BY <2>1, <2>3, TypeParts DEF PayCoins, Amounts
    <2> QED BY <2>2, <2>4
  <1> QED BY <1>3, <1>4, <1>5, <1>6, <1>7, <1>8, <1>9, NoResets DEF Next, FlushStep

(* While no statement fails and no guild is reset, the level column follows *)
(* the total, but for the row the flush has in hand: a level computed from  *)
(* one read is written before anything else changes that row.               *)
THEOREM LevelsMatch ==
    ASSUME ~MayFail, MaxResets = 0
    PROVE  Spec => []LevelMatchesXp
  <1> DEFINE J == IInv /\ resets \in Nat /\ LevelInv
  <1>1. Init => J
    <2>1. Init => LevelInv
      BY KeyFacts DEF Init, LevelInv, LevelMatchesXp, NoRow, NoFlush
    <2> QED BY <2>1, InitHolds DEF IInv, Init
  <1>2. J /\ [Next]_vars => J'
    BY StepKeeps, NoResets, LevelsKept DEF IInv, Kept
  <1>3. J => LevelMatchesXp
    BY DEF LevelInv
  <1> QED BY <1>1, <1>2, <1>3, PTL DEF Spec

-----------------------------------------------------------------------------
(* Stopping.                                                                *)

Stored(k) == row[k].xp
HeldBack(k) == row[k].xp + snap[k]
Somewhere(k) == row[k].xp + snap[k] + pending[k]

(* Sums only move forward: from a map to its copy, from the copy to a row.  *)
Flows ==
    \A k \in Keys : /\ Stored(k)' >= Stored(k)
                    /\ HeldBack(k)' >= HeldBack(k)
                    /\ Somewhere(k)' >= Somewhere(k)

LEMMA AmountsFlow ==
    ASSUME IInv, Lossless, [Next]_vars
    PROVE  Flows
  <1> USE TypeParts, KeyFacts DEF IInv, Flows, Stored, HeldBack, Somewhere
  <1>1. ASSUME UNCHANGED <<row, snap, pending>>
        PROVE  Flows
    BY <1>1 DEF Amounts
  <1>2. ASSUME NEW k \in Keys, NEW amount \in Nat, Enqueue(k, amount), UNCHANGED <<row, snap>>
        PROVE  Flows
    <2>1. \A j \in Keys : pending'[j] >= pending[j] /\ pending'[j] \in Nat
      BY <1>2 DEF Enqueue, Amounts
    <2> QED BY <1>2, <2>1 DEF Amounts
  <1>3. CASE \E h \in Handlers : HandlerStep(h)
    <2>1. PICK h \in Handlers : HandlerStep(h)
      BY <1>3
    <2>2. CASE \E u \in Users, g \in Guilds, x \in Awards : HandleMessage(h, u, g, x)
      BY <1>2, <2>2, AwardsAssumption DEF HandleMessage, table
    <2>3. CASE EnqueueGuild(h) \/ EnqueueCoins(h)
      <3>1. task[h] \in [at : {"guild", "coins"}, user : Users, guild : Guilds, award : Awards]
        BY <2>3 DEF EnqueueGuild, EnqueueCoins, TaskType, Idle
      <3>2. PICK k \in Keys, amount \in Nat : Enqueue(k, amount) /\ UNCHANGED <<row, snap>>
        BY <2>3, <3>1, AwardsAssumption, CoinsAssumption DEF EnqueueGuild, EnqueueCoins, table
      <3> QED BY <1>2, <3>2
    <2> QED BY <2>1, <2>2, <2>3 DEF HandlerStep
  <1>4. CASE \/ \E u \in Users : Register(u)
             \/ WriterStep \/ Stop \/ StopStep \/ UNCHANGED vars
             \/ ReadBack \/ ReadBackFails \/ Callback
    BY <1>1, <1>4
    DEF Register, WriterStep, Loop, Sleep, Timeout, Stop, StopStep, Notify, Join,
        ReadBack, ReadBackFails, Callback, table, queue, vars
  <1>5. ASSUME NEW parts, Swap(parts), \A k \in Keys : k[2] \in parts => snap[k] = 0
        PROVE  Flows
    <2>1. \A k \in Keys : /\ row'[k] = row[k]
                          /\ \/ snap'[k] = pending[k] /\ pending'[k] = 0 /\ snap[k] = 0
                             \/ snap'[k] = snap[k] /\ pending'[k] = pending[k]
      BY <1>5 DEF Swap, table
    <2> QED BY <2>1 DEF Amounts
  <1>6. CASE SwapGlobal \/ SwapGuild \/ SwapCoins
    BY <1>5, <1>6, PartsAssumption DEF SwapGlobal, SwapGuild, SwapCoins, SnapEmpty
  <1>7. ASSUME NEW k \in Keys, UNCHANGED pending, snap' = [snap EXCEPT ![k] = 0],
               row' \in [Keys -> [xp : Nat, level : 0 .. MaxLevel]],
               row'[k].xp = row[k].xp + snap[k],
               \A j \in Keys : j # k => row'[j].xp = row[j].xp
        PROVE  Flows
    <2>1. \A j \in Keys : /\ row'[j].xp >= row[j].xp
                          /\ row'[j].xp + snap'[j] = row[j].xp + snap[j]
      BY <1>7 DEF Amounts
    <2> QED BY <1>7, <2>1 DEF Amounts
  <1>8. CASE \E k \in XpKeys : Upsert(k) \/ UpsertFails(k)
    <2>1. PICK k \in XpKeys : Upsert(k)
      BY <1>8 DEF UpsertFails, Lossless
    <2>2. /\ k \in Keys /\ snap' = [snap EXCEPT ![k] = 0] /\ UNCHANGED pending
          /\ row' = [row EXCEPT ![k] = Added(k)]
      BY <2>1 DEF Upsert, queue, Lossless
    <2>3. Added(k) \in [xp : Nat, level : 0 .. MaxLevel] /\ Added(k).xp = row[k].xp + snap[k]
      BY <2>2, MaxLevelPositive DEF Added, Amounts
    <2> QED BY <1>7, <2>2, <2>3 DEF Amounts
  <1>9. CASE \E u \in Users : PayCoins(u) \/ PayCoinsFails(u)
    <2>1. PICK u \in Users : PayCoins(u)
      BY <1>9 DEF PayCoinsFails, Lossless
    <2> DEFINE k == <<u, Coins>>
    <2>2. /\ k \in Keys /\ snap' = [snap EXCEPT ![k] = 0] /\ UNCHANGED pending
          /\ row' = [row EXCEPT ![k].xp = @ + snap[k]]
      BY <2>1 DEF PayCoins, queue, Lossless
    <2> HIDE DEF k
    <2>3. /\ row' \in [Keys -> [xp : Nat, level : 0 .. MaxLevel]]
          /\ row'[k].xp = row[k].xp + snap[k]
          /\ \A j \in Keys : j # k => row'[j].xp = row[j].xp
      BY <2>2 DEF Amounts
    <2> QED BY <1>7, <2>2, <2>3
  <1>10. CASE SetLevel \/ SetLevelFails
    <2>1. /\ flush.key \in Keys /\ row' = [row EXCEPT ![flush.key].level = flush.new]
          /\ UNCHANGED <<snap, pending>>
      BY <1>10 DEF SetLevel, SetLevelFails, AfterLevel, Lossless, FlushType, queue
    <2>2. \A k \in Keys : row'[k].xp = row[k].xp
      BY <2>1 DEF Amounts
    <2> QED BY <2>1, <2>2 DEF Amounts
  <1> QED BY <1>3, <1>4, <1>6, <1>8, <1>9, <1>10, NoResets DEF Next, FlushStep, Lossless

(* From stop() on, what was there is stored, held back or pending; the last *)
(* flush, which starts when the thread has ended, leaves none of it behind. *)
Swapped(k) ==
    \/ flush.at = "swapGuild" /\ k[2] = Global
    \/ flush.at = "swapCoins" /\ k[2] # Coins
    \/ flush.at \in {"write", "read", "level"}

DrainInv ==
    /\ due \in [Keys -> Nat]
    /\ stopper # "running" => \A k \in Keys : Somewhere(k) >= due[k]
    /\ stopper \in {"drain", "stopped"} => writer = "exited"
    /\ flush.at # "none" => writer = "flush" \/ stopper = "drain"
    /\ stopper = "drain" => \A k \in Keys : Swapped(k) => HeldBack(k) >= due[k]
    /\ stopper = "stopped" => \A k \in Keys : Stored(k) >= due[k]

LEMMA DrainKept ==
    ASSUME IInv, Lossless, DrainInv, [Next]_vars
    PROVE  DrainInv'
  <1>0. /\ Flows
        /\ \A k \in Keys : /\ Stored(k) \in Nat /\ HeldBack(k) \in Nat /\ Somewhere(k) \in Nat
                           /\ (Stored(k) \in Nat)' /\ (HeldBack(k) \in Nat)' /\ (Somewhere(k) \in Nat)'
                           /\ due[k] \in Nat
        /\ \A k \in Keys : k[2] \in Guilds \cup {Global, Coins}
        /\ \A k \in Keys : pending'[k] = 0 => HeldBack(k)' = Somewhere(k)'
        /\ \A k \in Keys : snap'[k] = 0 => Stored(k)' = HeldBack(k)'
    <2>1. Amounts /\ Amounts'
      BY StepKeeps, TypeParts DEF IInv, Kept
    <2> QED BY <2>1, AmountsFlow, KeyFacts DEF Amounts, Stored, HeldBack, Somewhere, Parts, DrainInv
  <1>1. ASSUME UNCHANGED <<writer, stopper, due>>,
               flush'.at = flush.at \/ {flush.at, flush'.at} \subseteq {"write", "read", "level"}
        PROVE  DrainInv'
    BY <1>0, <1>1 DEF DrainInv, Swapped, Flows
  <1>2. CASE \/ \E h \in Handlers : HandlerStep(h)
             \/ \E u \in Users : Register(u)
             \/ \E k \in XpKeys : Upsert(k) \/ UpsertFails(k)
             \/ ReadBack \/ ReadBackFails \/ SetLevel \/ SetLevelFails
             \/ \E u \in Users : PayCoins(u) \/ PayCoinsFails(u)
             \/ UNCHANGED vars
    <2>1. UNCHANGED <<writer, stopper, due>>
      BY <1>2 DEF HandlerStep, HandleMessage, EnqueueGuild, EnqueueCoins, Register, Upsert,
          UpsertFails, ReadBack, ReadBackFails, SetLevel, SetLevelFails, AfterLevel,
          PayCoins, PayCoinsFails, control, vars
    <2>2. CASE \E k \in XpKeys : Upsert(k) \/ UpsertFails(k)
      <3>1. PICK k \in XpKeys : Upsert(k)
        BY <2>2 DEF UpsertFails, Lossless
      <3>2. flush.at = "write" /\ flush' = [flush EXCEPT !.at = "read", !.key = k]
        BY <3>1 DEF Upsert, Turn
      <3>3. flush'.at = "read"
        BY <3>2, TypeParts DEF IInv, FlushType
      <3> QED BY <1>1, <2>1, <3>2, <3>3
    <2>3. CASE ReadBack \/ ReadBackFails \/ SetLevel \/ SetLevelFails
      <3>1. flush.at \in {"read", "level"}
        BY <2>3 DEF ReadBack, ReadBackFails, SetLevel, SetLevelFails
      <3>2. \/ flush' = [NoFlush EXCEPT !.at = "write"]
            \/ \E new, old : flush' = [flush EXCEPT !.at = "level", !.new = new, !.old = old]
        BY <2>3 DEF ReadBack, ReadBackFails, SetLevel, SetLevelFails, AfterLevel
      <3>3. flush'.at \in {"write", "level"}
        BY <3>2, TypeParts DEF IInv, FlushType, NoFlush
      <3> QED BY <1>1, <2>1, <3>1, <3>3
    <2>4. CASE \/ \E h \in Handlers : HandlerStep(h)
               \/ \E u \in Users : Register(u) \/ PayCoins(u) \/ PayCoinsFails(u)
               \/ UNCHANGED vars
      <3>1. flush' = flush
        BY <2>4 DEF HandlerStep, HandleMessage, EnqueueGuild, EnqueueCoins, Register,
                    PayCoins, PayCoinsFails, vars
      <3> QED BY <1>1, <2>1, <3>1
    <2> QED BY <1>2, <2>2, <2>3, <2>4
  <1>3. CASE SwapGlobal
    <2>1. /\ UNCHANGED <<writer, stopper, due>> /\ flush.at = "none" /\ flush'.at = "swapGuild"
          /\ writer = "flush" \/ stopper = "drain"
          /\ \A k \in Keys : k[2] = Global => pending'[k] = 0
      BY <1>3 DEF SwapGlobal, Swap, control, NoFlush
    <2> QED BY <1>0, <2>1 DEF DrainInv, Swapped, Flows
  <1>4. CASE SwapGuild
    <2>1. /\ UNCHANGED <<writer, stopper, due>> /\ flush.at = "swapGuild" /\ flush'.at = "swapCoins"
          /\ \A k \in Keys : k[2] \in Guilds => pending'[k] = 0
      BY <1>4, TypeParts DEF SwapGuild, Swap, control, IInv, FlushType
    <2> QED BY <1>0, <2>1 DEF DrainInv, Swapped, Flows
  <1>5. ASSUME FlushDone, flush.at # "none",
               stopper = "drain" => \A k \in Keys : Stored(k)' >= due[k]
        PROVE  DrainInv'
    <2>1. /\ flush'.at = "none" /\ due' = due
          /\ writer' = IF writer = "flush" THEN "loop" ELSE writer
          /\ stopper' = IF stopper = "drain" THEN "stopped" ELSE stopper
      BY <1>5 DEF FlushDone, NoFlush
    <2> QED BY <1>0, <1>5, <2>1 DEF DrainInv, Swapped, Flows
  <1>6. CASE SwapCoins
    <2>1. /\ flush.at = "swapCoins" /\ \A k \in Keys : k[2] = Coins => pending'[k] = 0
          /\ \/ snap' = Zero /\ FlushDone
             \/ UNCHANGED <<writer, stopper, due>> /\ flush' = [flush EXCEPT !.at = "write"]
      BY <1>6 DEF SwapCoins, Swap, control
    <2>2. stopper = "drain" => \A k \in Keys : HeldBack(k)' >= due[k]
      BY <1>0, <2>1 DEF DrainInv, Swapped, Flows
    <2>3. CASE snap' = Zero /\ FlushDone
      BY <1>0, <1>5, <2>1, <2>2, <2>3 DEF Zero
    <2>4. CASE UNCHANGED <<writer, stopper, due>> /\ flush' = [flush EXCEPT !.at = "write"]
      <3>1. flush'.at = "write"
        BY <2>4, TypeParts DEF IInv, FlushType
      <3> QED BY <1>0, <2>1, <2>2, <2>4, <3>1 DEF DrainInv, Swapped, Flows
    <2> QED BY <2>1, <2>3, <2>4
  <1>7. CASE Callback
    <2>1. /\ flush.at = "write" /\ FlushDone /\ \A k \in Keys : snap'[k] = 0
      BY <1>7 DEF Callback, Zero
    <2> QED BY <1>0, <1>5, <2>1 DEF DrainInv, Swapped, Flows
  <1>8. CASE WriterStep \/ StopStep
    <2>1. due' = due /\ flush' = flush
      BY <1>8 DEF WriterStep, Loop, Sleep, Timeout, StopStep, Notify, Join
    <2>2. CASE WriterStep
      <3>1. writer \in {"loop", "entering", "asleep"} /\ stopper' = stopper
        BY <2>2 DEF WriterStep, Loop, Sleep, Timeout
      <3> QED BY <1>0, <2>1, <3>1 DEF DrainInv, Swapped, Flows
    <2>3. CASE StopStep
      <3>1. \/ stopper = "notify" /\ stopper' = "join" /\ (writer = "flush" => writer' = writer)
            \/ stopper = "join" /\ stopper' = "drain" /\ writer = "exited" /\ writer' = writer
        BY <2>3 DEF StopStep, Notify, Join
      <3> QED BY <1>0, <2>1, <3>1 DEF DrainInv, Swapped, Flows
    <2> QED BY <1>8, <2>2, <2>3
  <1>9. CASE Stop
    <2>1. /\ stopper = "running" /\ stopper' = "notify" /\ writer' = writer /\ flush' = flush
          /\ due' = [k \in Keys |-> Somewhere(k)]
      BY <1>9 DEF Stop, Somewhere
    <2>2. \A k \in Keys : due'[k] = Somewhere(k)
      BY <2>1
    <2>3. due' \in [Keys -> Nat]
      BY <1>0, <2>1
    <2> QED BY <1>0, <2>1, <2>2, <2>3 DEF DrainInv, Swapped, Flows
  <1> QED BY <1>2, <1>3, <1>4, <1>6, <1>7, <1>8, <1>9, NoResets DEF Next, FlushStep, Lossless

(* Only a first command changes who has a row.                              *)
LEMMA KnownGrows ==
    ASSUME IInv, [Next]_vars
    PROVE  known \subseteq known' /\ known' \subseteq Users
  <1>1. known' \subseteq Users
    BY StepKeeps, TypeParts DEF IInv, ControlType, TypeOK
  <1>2. CASE \E u \in Users : Register(u)
    BY <1>1, <1>2 DEF Register
  <1>3. CASE ~\E u \in Users : Register(u)
    BY <1>1, <1>3
    DEF Next, vars, HandlerStep, HandleMessage, EnqueueGuild, EnqueueCoins, ResetGuild,
        FlushStep, SwapGlobal, SwapGuild, SwapCoins, Swap, Upsert, UpsertFails, ReadBack,
        ReadBackFails, SetLevel, SetLevelFails, AfterLevel, PayCoins, PayCoinsFails,
        Callback, WriterStep, Loop, Sleep, Timeout, Stop, StopStep, Notify, Join, table
  <1> QED BY <1>2, <1>3

(* While no statement fails, no guild is reset and every user has a row,    *)
(* all that was stored or queued when stop() was called is stored when it   *)
(* has returned, wherever the flush thread was: in its loop, asleep, or in  *)
(* the middle of a flush.                                                   *)
THEOREM StoppingDrains ==
    ASSUME ~MayFail, MaxResets = 0, Registered = Users
    PROVE  Spec => []StopDrains
  <1> DEFINE J == IInv /\ known = Users /\ resets \in Nat /\ DrainInv
  <1>1. Init => J
    <2>1. Init => DrainInv
      BY DEF Init, DrainInv, Zero, NoFlush
    <2> QED BY <2>1, InitHolds DEF IInv, Init
  <1>2. J /\ [Next]_vars => J'
    <2> SUFFICES ASSUME J, [Next]_vars PROVE J'
      OBVIOUS
    <2>1. Lossless
      BY DEF Lossless
    <2>2. resets' = resets /\ known' = known
      BY NoResets, KnownGrows
    <2>3. DrainInv'
      BY <2>1, DrainKept
    <2>4. IInv'
      BY <2>1, StepKeeps DEF IInv, Kept
    <2> QED BY <2>2, <2>3, <2>4
  <1>3. J => StopDrains
    BY DEF DrainInv, StopDrains, Stored
  <1> QED BY <1>1, <1>2, <1>3, PTL DEF Spec

-----------------------------------------------------------------------------
(* Announcements.                                                           *)

LEMMA LevelOfMonotone ==
    ASSUME NEW a \in Nat, NEW b \in Nat, a <= b
    PROVE  LevelOf(a) <= LevelOf(b) /\ LevelOf(a) \in Nat /\ LevelOf(b) \in Nat
  <1> DEFINE below(xp) == {l \in DOMAIN XpFor : XpFor[l] <= xp}
  <1>1. below(a) \subseteq below(b) /\ below(b) \subseteq DOMAIN XpFor
    BY LevelsAssumption
  <1>2. IsFiniteSet(below(b))
    BY <1>1, LevelsAssumption, FS_Subset
  <1>3. Cardinality(below(a)) <= Cardinality(below(b))
    BY <1>1, <1>2, FS_Subset
  <1>4. LevelOf(a) \in Nat /\ LevelOf(b) \in Nat
    BY LevelOfRange, MaxLevelPositive
  <1>5. Cardinality(below(a)) \in Nat /\ Cardinality(below(b)) \in Nat
    BY <1>1, <1>2, FS_Subset, FS_CardinalityType
  <1> QED BY <1>3, <1>4, <1>5 DEF LevelOf

(* A level only rises, by an event; what is announced has been reached, and *)
(* an event has not been announced before.                                  *)
RaisedInv ==
    /\ flush.at \in {"none", "swapGuild", "swapCoins"} => events = <<>>
    /\ flush.at = "level" => flush.old = row[flush.key].level /\ flush.new > flush.old
    /\ \A k \in XpKeys : row[k].level <= LevelOf(row[k].xp)
    /\ \A i \in DOMAIN events : /\ events[i].level <= row[events[i].key].level
                                /\ <<events[i].key, events[i].level>> \notin announced
    /\ \A a \in announced : \E k \in XpKeys, l \in Nat : a = <<k, l>> /\ l <= row[k].level

(* The level of a member of a guild is announced or is an event of this     *)
(* flush.                                                                   *)
Promised ==
    \A k \in Users \X Guilds : row[k].level > 1 =>
        \/ <<k, row[k].level>> \in announced
        \/ \E i \in DOMAIN events : events[i] = [key |-> k, level |-> row[k].level]

LEMMA Elements ==
    ASSUME NEW S, NEW s \in Seq(S)
    PROVE  /\ DOMAIN s = 1 .. Len(s) /\ Len(s) \in Nat
           /\ \A i \in DOMAIN s : s[i] \in S
  OBVIOUS

LEMMA XpKeyRows ==
    ASSUME TypeOK
    PROVE  /\ \A k \in XpKeys : k \in Keys /\ row[k].xp \in Nat /\ row[k].level \in Nat
           /\ \A k \in Users \X Guilds : k \in XpKeys /\ k[2] # Global
           /\ events \in Seq([key : XpKeys, level : 2 .. MaxLevel])
           /\ DOMAIN events = 1 .. Len(events) /\ Len(events) \in Nat
           /\ \A i \in DOMAIN events : events[i].key \in XpKeys /\ events[i].level \in Nat \ {0, 1}
  <1>1. \A k \in XpKeys : k \in Keys /\ row[k].xp \in Nat /\ row[k].level \in Nat
    BY KeyFacts, TypeParts, MaxLevelPositive DEF Amounts
  <1>2. \A k \in Users \X Guilds : k \in XpKeys /\ k[2] # Global
    BY PartsAssumption DEF XpKeys
  <1>3. events \in Seq([key : XpKeys, level : 2 .. MaxLevel])
    BY TypeParts DEF EventsType
  <1>4. DOMAIN events = 1 .. Len(events) /\ Len(events) \in Nat
    BY <1>3, Elements, Zenon
  <1>5. \A i \in DOMAIN events : events[i] \in [key : XpKeys, level : 2 .. MaxLevel]
    BY <1>3, Elements, Zenon
  <1>6. \A i \in DOMAIN events : events[i].key \in XpKeys /\ events[i].level \in Nat \ {0, 1}
    <2> SUFFICES ASSUME NEW i \in DOMAIN events
                 PROVE  events[i].key \in XpKeys /\ events[i].level \in Nat \ {0, 1}
      OBVIOUS
    <2>1. events[i].key \in XpKeys /\ events[i].level \in 2 .. MaxLevel
      BY <1>5
    <2> QED BY <2>1, MaxLevelPositive
  <1> QED BY <1>1, <1>2, <1>3, <1>4, <1>6, Zenon

(* A step that announces nothing and adds no event.                         *)
LEMMA RaisedQuietly ==
    ASSUME TypeOK, RaisedInv, TypeOK', events' = events, announced' = announced,
           \A k \in XpKeys : /\ row'[k].level >= row[k].level
                             /\ row'[k].level <= LevelOf(row'[k].xp)
                             /\ row'[k].level > 1 => row'[k].level = row[k].level,
           flush'.at \in {"none", "swapGuild", "swapCoins"} => events = <<>>,
           flush'.at = "level" => flush'.old = row'[flush'.key].level /\ flush'.new > flush'.old
    PROVE  RaisedInv' /\ (Promised => Promised')
  <1>1. \A k \in XpKeys : row[k].level \in Nat /\ row'[k].level \in Nat
    <2>1. \A k \in XpKeys : row'[k].level \in Nat
      BY KeyFacts, TypeParts, MaxLevelPositive DEF Amounts, TypeOK
    <2> QED BY <2>1, XpKeyRows
  <1>2. \A i \in DOMAIN events : events[i].level <= row'[events[i].key].level
    <2> SUFFICES ASSUME NEW i \in DOMAIN events PROVE events[i].level <= row'[events[i].key].level
      OBVIOUS
    <2>1. events[i].key \in XpKeys /\ events[i].level \in Nat
      BY XpKeyRows
    <2>2. events[i].level <= row[events[i].key].level
      BY DEF RaisedInv
    <2> QED BY <1>1, <2>1, <2>2
  <1>3. \A a \in announced : \E k \in XpKeys, l \in Nat : a = <<k, l>> /\ l <= row'[k].level
    <2> SUFFICES ASSUME NEW a \in announced
                 PROVE  \E k \in XpKeys, l \in Nat : a = <<k, l>> /\ l <= row'[k].level
      OBVIOUS
    <2>1. PICK k \in XpKeys, l \in Nat : a = <<k, l>> /\ l <= row[k].level
      BY DEF RaisedInv
    <2>2. l <= row'[k].level
      BY <1>1, <2>1
    <2> QED BY <2>1, <2>2
  <1>4. RaisedInv'
    BY <1>2, <1>3 DEF RaisedInv
  <1>5. ASSUME Promised PROVE Promised'
    <2> SUFFICES ASSUME NEW k \in Users \X Guilds, row'[k].level > 1
                 PROVE  \/ <<k, row'[k].level>> \in announced
                        \/ \E i \in DOMAIN events : events[i] = [key |-> k, level |-> row'[k].level]
      BY DEF Promised
    <2>1. k \in XpKeys
      BY XpKeyRows
    <2>2. row'[k].level = row[k].level
      BY <2>1
    <2> QED BY <1>5, <2>2 DEF Promised
  <1> QED BY <1>4, <1>5

(* No step announces a level twice, and while the callback takes every      *)
(* event of a flush no level goes unannounced.                              *)
LEMMA RaisedKept ==
    ASSUME TypeOK, LevelInv, RaisedInv, ~MayFail, MaxResets = 0, resets \in Nat,
           [Next]_vars, TypeOK'
    PROVE  RaisedInv' /\ (Promised /\ Len(events) <= MaxPerFlush => Promised')
  <1>1. ASSUME UNCHANGED <<row, flush, events, announced>>
        PROVE  RaisedInv' /\ (Promised => Promised')
    BY <1>1 DEF RaisedInv, Promised
  <1>2. CASE \/ \E h \in Handlers : HandlerStep(h)
             \/ \E u \in Users : Register(u)
             \/ WriterStep \/ Stop \/ StopStep \/ UNCHANGED vars
    BY <1>1, <1>2
    DEF HandlerStep, HandleMessage, EnqueueGuild, EnqueueCoins, Register, WriterStep, Loop,
        Sleep, Timeout, Stop, StopStep, Notify, Join, table, vars
  <1>3. \A k \in XpKeys : /\ row[k].level >= row[k].level
                          /\ row[k].level <= LevelOf(row[k].xp)
    BY XpKeyRows DEF RaisedInv
  <1>4. CASE SwapGlobal \/ SwapGuild \/ SwapCoins
    <2>1. /\ row' = row /\ events' = events /\ announced' = announced
          /\ flush.at \in {"none", "swapGuild", "swapCoins"}
      BY <1>4 DEF SwapGlobal, SwapGuild, SwapCoins, Swap, table
    <2>2. flush'.at # "level" /\ events = <<>>
      BY <1>4, <2>1, TypeParts
      DEF SwapGlobal, SwapGuild, SwapCoins, FlushDone, NoFlush, FlushType, RaisedInv
    <2> QED BY <1>3, <2>1, <2>2, RaisedQuietly
  <1>5. CASE \E k \in XpKeys : Upsert(k) \/ UpsertFails(k)
    <2>1. PICK k \in XpKeys : Upsert(k)
      BY <1>5 DEF UpsertFails
    <2>2. /\ flush'.at = "read" /\ events' = events /\ announced' = announced
          /\ k \in Keys /\ snap[k] > 0
      BY <2>1, TypeParts, KeyFacts, XpKeyRows DEF Upsert, Turn, FlushType
    <2>3. row' = row \/ row' = [row EXCEPT ![k] = Added(k)]
      BY <2>1 DEF Upsert
    <2>4. /\ Added(k).level = (IF row[k].level = 0 THEN 1 ELSE row[k].level)
          /\ Added(k).xp = row[k].xp + snap[k] /\ snap[k] \in Nat
      BY <2>2, TypeParts DEF Added, Amounts
    <2>5. \A j \in Keys \ {k} : row'[j] = row[j]
      BY <2>3, TypeParts DEF Amounts
    <2>6. row'[k] = row[k] \/ row'[k] = Added(k)
      BY <2>2, <2>3, TypeParts DEF Amounts
    <2>7. /\ row[k].xp \in Nat /\ row[k].level \in Nat /\ row[k].xp + snap[k] \in Nat
          /\ row[k].level <= LevelOf(row[k].xp) /\ LevelOf(row[k].xp) <= LevelOf(row[k].xp + snap[k])
          /\ LevelOf(row[k].xp) \in Nat /\ LevelOf(row[k].xp + snap[k]) \in Nat \ {0}
      <3>1. row[k].xp \in Nat /\ row[k].level \in Nat /\ row[k].level <= LevelOf(row[k].xp)
        BY <1>3, XpKeyRows
      <3>2. row[k].xp + snap[k] \in Nat /\ row[k].xp <= row[k].xp + snap[k]
        BY <2>4, <3>1
      <3>3. LevelOf(row[k].xp + snap[k]) \in 1 .. MaxLevel
        BY <3>2, LevelOfRange
      <3>4. LevelOf(row[k].xp + snap[k]) \in Nat \ {0}
        BY <3>3, MaxLevelPositive
      <3>5. LevelOf(row[k].xp) <= LevelOf(row[k].xp + snap[k]) /\ LevelOf(row[k].xp) \in Nat
        BY <3>1, <3>2, LevelOfMonotone
      <3> QED BY <3>1, <3>2, <3>4, <3>5
    <2>8. /\ row'[k].level >= row[k].level
          /\ row'[k].level <= LevelOf(row'[k].xp)
          /\ row'[k].level > 1 => row'[k].level = row[k].level
      <3>1. CASE row'[k] = row[k]
        BY <2>7, <3>1
      <3>2. CASE row'[k] = Added(k)
        BY <2>4, <2>7, <3>2
      <3> QED BY <2>6, <3>1, <3>2
    <2>9. \A j \in XpKeys : /\ row'[j].level >= row[j].level
                            /\ row'[j].level <= LevelOf(row'[j].xp)
                            /\ row'[j].level > 1 => row'[j].level = row[j].level
      BY <1>3, <2>5, <2>8, XpKeyRows
    <2> QED BY <2>2, <2>9, RaisedQuietly
  <1>6. CASE \E u \in Users : PayCoins(u) \/ PayCoinsFails(u)
    <2>1. PICK u \in Users : PayCoins(u)
      BY <1>6 DEF PayCoinsFails
    <2>2. flush' = flush /\ flush.at = "write" /\ events' = events /\ announced' = announced
      BY <2>1 DEF PayCoins, Turn
    <2>3. \A k \in XpKeys : k # <<u, Coins>>
      BY PartsAssumption DEF XpKeys
    <2>4. \A k \in XpKeys : row'[k] = row[k]
      BY <2>1, <2>3, KeyFacts, TypeParts DEF PayCoins, Amounts
    <2> QED BY <1>3, <2>2, <2>4, RaisedQuietly
  <1>7. CASE ReadBack \/ ReadBackFails
    <2> DEFINE r == row[flush.key]
    <2>1. /\ flush.at = "read" /\ row' = row /\ events' = events /\ announced' = announced
          /\ flush' = IF r.level \notin {0, LevelOf(r.xp)}
                      THEN [flush EXCEPT !.at = "level", !.new = LevelOf(r.xp), !.old = r.level]
                      ELSE [NoFlush EXCEPT !.at = "write"]
      BY <1>7 DEF ReadBack, ReadBackFails, table
    <2>2. flush.key \in XpKeys
      BY <2>1, TypeParts DEF FlushType
    <2>3. CASE r.level \notin {0, LevelOf(r.xp)}
      <3>1. PICK new, old : /\ new = LevelOf(r.xp) /\ old = r.level
                            /\ flush' = [flush EXCEPT !.at = "level", !.new = new, !.old = old]
        BY <2>1, <2>3
      <3>2. /\ flush'.at = "level" /\ flush'.key = flush.key
            /\ flush'.new = LevelOf(r.xp) /\ flush'.old = r.level
        BY <3>1, TypeParts DEF FlushType
      <3>3. r.level \in Nat /\ r.xp \in Nat /\ r.level <= LevelOf(r.xp) /\ LevelOf(r.xp) \in Nat
        BY <1>3, <2>2, XpKeyRows, LevelOfMonotone
      <3>4. flush'.new > flush'.old
        BY <2>3, <3>2, <3>3
      <3> QED BY <1>3, <2>1, <3>2, <3>4, RaisedQuietly
    <2>4. CASE r.level \in {0, LevelOf(r.xp)}
      <3>1. flush'.at = "write"
        BY <2>1, <2>4 DEF NoFlush
      <3> QED BY <1>3, <2>1, <3>1, RaisedQuietly
    <2> QED BY <2>3, <2>4
  <1>8. CASE SetLevel \/ SetLevelFails
    <2> DEFINE k == flush.key
               e == [key |-> k, level |-> flush.new]
    <2>1. /\ flush.at = "level" /\ flush'.at = "write" /\ k \in XpKeys
          /\ row' = [row EXCEPT ![k].level = flush.new] /\ announced' = announced
      BY <1>8, TypeParts DEF SetLevel, SetLevelFails, AfterLevel, NoFlush, FlushType
    <2>2. flush.new = LevelOf(row[k].xp) /\ flush.old = row[k].level /\ flush.new > flush.old
      BY <2>1 DEF LevelInv, RaisedInv
    <2>3. events' = Append(events, e)
      BY <1>8, <2>2 DEF SetLevel, SetLevelFails, AfterLevel
    <2>4. /\ \A j \in XpKeys \ {k} : row'[j] = row[j]
          /\ row'[k].xp = row[k].xp /\ row'[k].level = flush.new
      BY <2>1, KeyFacts, TypeParts DEF Amounts
    <2>5. row[k].level \in Nat /\ flush.new \in Nat /\ row[k].level < flush.new
      BY <2>1, <2>2, XpKeyRows, LevelOfMonotone
    <2>6. /\ Len(events') = Len(events) + 1 /\ DOMAIN events' = 1 .. Len(events) + 1
          /\ events'[Len(events) + 1] = e /\ \A i \in DOMAIN events : events'[i] = events[i]
      BY <2>3, XpKeyRows
    <2>7. \A j \in XpKeys : row'[j].level >= row[j].level /\ row'[j].level \in Nat /\ row[j].level \in Nat
      BY <2>4, <2>5, XpKeyRows
    <2>8. \A j \in XpKeys : row'[j].level <= LevelOf(row'[j].xp)
      BY <1>3, <2>2, <2>4, <2>5
    <2>9. ASSUME NEW a \in announced
          PROVE  /\ \E j \in XpKeys, l \in Nat : a = <<j, l>> /\ l <= row'[j].level
                 /\ a # <<k, flush.new>>
      <3>1. PICK j \in XpKeys, l \in Nat : a = <<j, l>> /\ l <= row[j].level
        BY DEF RaisedInv
      <3>2. l <= row'[j].level
        BY <2>7, <3>1
      <3>3. j = k => l # flush.new
        BY <2>5, <3>1
      <3> QED BY <3>1, <3>2, <3>3
    <2>10. ASSUME NEW i \in DOMAIN events'
           PROVE  /\ events'[i].level <= row'[events'[i].key].level
                  /\ <<events'[i].key, events'[i].level>> \notin announced
      <3>1. CASE i \in DOMAIN events
        <4>1. events'[i] = events[i] /\ events[i].key \in XpKeys /\ events[i].level \in Nat
          BY <2>6, <3>1, XpKeyRows
        <4>2. /\ events[i].level <= row[events[i].key].level
              /\ <<events[i].key, events[i].level>> \notin announced
          BY <3>1 DEF RaisedInv
        <4>3. events[i].level <= row'[events[i].key].level
          BY <2>7, <4>1, <4>2
        <4> QED BY <4>1, <4>2, <4>3
      <3>2. CASE i \notin DOMAIN events
        <4>1. events'[i] = e
          BY <2>6, <3>2, XpKeyRows
        <4>2. e.level = flush.new /\ e.key = k
          OBVIOUS
        <4>3. <<k, flush.new>> \notin announced
          BY <2>9
        <4>4. flush.new <= row'[k].level
          BY <2>4, <2>5
        <4> QED BY <4>1, <4>2, <4>3, <4>4
      <3> QED BY <3>1, <3>2
    <2>11. RaisedInv'
      BY <2>1, <2>8, <2>9, <2>10 DEF RaisedInv
    <2>12. ASSUME Promised PROVE Promised'
      <3> SUFFICES ASSUME NEW j \in Users \X Guilds, row'[j].level > 1
                   PROVE  \/ <<j, row'[j].level>> \in announced'
                          \/ \E i \in DOMAIN events' : events'[i] = [key |-> j, level |-> row'[j].level]
        BY DEF Promised
      <3>1. CASE j = k
        <4>1. Len(events) + 1 \in DOMAIN events' /\ events'[Len(events) + 1] = [key |-> j, level |-> row'[j].level]
          BY <2>4, <2>6, <3>1, XpKeyRows
        <4> QED BY <4>1
      <3>2. CASE j # k
        <4>1. row'[j] = row[j]
          BY <2>4, <3>2, XpKeyRows
        <4>2. \/ <<j, row[j].level>> \in announced
              \/ \E i \in DOMAIN events : events[i] = [key |-> j, level |-> row[j].level]
          <5>1. j \in Users \X Guilds /\ row[j].level > 1
            BY <4>1
          <5> QED BY <2>12, <5>1, Zenon DEF Promised
        <4>3. \A i \in DOMAIN events : i \in DOMAIN events' /\ events'[i] = events[i]
          BY <2>6, XpKeyRows
        <4>4. CASE <<j, row[j].level>> \in announced
          <5>1. <<j, row'[j].level>> \in announced'
            <6>1. announced' = announced
              BY <2>1
            <6> QED BY <4>1, <4>4, <6>1, Zenon
          <5> QED BY <5>1, Zenon
        <4>5. CASE \E i \in DOMAIN events : events[i] = [key |-> j, level |-> row[j].level]
          <5>1. PICK i \in DOMAIN events : events[i] = [key |-> j, level |-> row[j].level]
            BY <4>5
          <5>2. i \in DOMAIN events' /\ events'[i] = [key |-> j, level |-> row'[j].level]
            BY <4>1, <4>3, <5>1
          <5> QED BY <5>2
        <4> QED BY <4>2, <4>4, <4>5
      <3> QED BY <3>1, <3>2
    <2> QED BY <2>11, <2>12
  <1>9. CASE Callback
    <2>1. /\ row' = row /\ events' = <<>> /\ announced' = announced \cup Processed
          /\ flush'.at = "none"
      BY <1>9 DEF Callback, FlushDone, NoFlush, table
    <2>2. ASSUME NEW a \in Processed
          PROVE  \E k \in XpKeys, l \in Nat : a = <<k, l>> /\ l <= row[k].level
      <3>1. PICK i \in DOMAIN events : a = <<events[i].key, events[i].level>>
        BY XpKeyRows DEF Processed
      <3>2. events[i].key \in XpKeys /\ events[i].level \in Nat
        BY XpKeyRows
      <3>3. events[i].level <= row[events[i].key].level
        BY DEF RaisedInv
      <3> QED BY <3>1, <3>2, <3>3
    <2>3. \A a \in announced' : \E k \in XpKeys, l \in Nat : a = <<k, l>> /\ l <= row'[k].level
      BY <2>1, <2>2 DEF RaisedInv
    <2>4. RaisedInv'
      BY <1>3, <2>1, <2>3 DEF RaisedInv
    <2>5. ASSUME Promised, Len(events) <= MaxPerFlush PROVE Promised'
      <3> SUFFICES ASSUME NEW k \in Users \X Guilds, row[k].level > 1
                   PROVE  <<k, row[k].level>> \in announced \cup Processed
        BY <2>1 DEF Promised
      <3>1. CASE <<k, row[k].level>> \in announced
        BY <3>1
      <3>2. CASE \E i \in DOMAIN events : events[i] = [key |-> k, level |-> row[k].level]
        <4>1. PICK i \in DOMAIN events : events[i] = [key |-> k, level |-> row[k].level]
          BY <3>2
        <4>2. events[i].key = k /\ events[i].level = row[k].level /\ k[2] # Global
          BY <4>1, XpKeyRows
        <4>3. <<events[i].key, events[i].level>> \in Processed
          <5>1. i \in 1 .. Len(events) /\ i <= MaxPerFlush
            BY <2>5, XpKeyRows, FlushAssumption
          <5>2. events[i].key[2] # Global
            BY <4>2
          <5> QED BY <5>1, <5>2 DEF Processed
        <4> QED BY <4>2, <4>3
      <3> QED BY <2>5, <3>1, <3>2 DEF Promised
    <2> QED BY <2>4, <2>5
  <1> QED BY <1>2, <1>4, <1>5, <1>6, <1>7, <1>8, <1>9, NoResets DEF Next, FlushStep

LEMMA AnnouncementsInit == Init => RaisedInv /\ Promised /\ LevelInv /\ resets \in Nat
  <1> SUFFICES ASSUME Init PROVE RaisedInv /\ Promised /\ LevelInv /\ resets \in Nat
    OBVIOUS
  <1>1. \A k \in Keys : row[k].level = 0 /\ row[k].xp = 0
    BY DEF Init, NoRow
  <1>2. LevelOf(0) \in Nat \ {0}
    BY LevelOfRange, MaxLevelPositive
  <1>3. events = <<>> /\ announced = {} /\ flush.at = "none" /\ resets = 0
    BY DEF Init, NoFlush
  <1>4. RaisedInv
    BY <1>1, <1>2, <1>3, KeyFacts DEF RaisedInv
  <1>5. Promised
    BY <1>1, KeyFacts DEF Promised
  <1>6. LevelInv
    BY <1>1, <1>3, KeyFacts DEF LevelInv, LevelMatchesXp
  <1> QED BY <1>3, <1>4, <1>5, <1>6

(* While no statement fails and no guild is reset, the callback is handed a *)
(* level of a user once: what it processes at the end of a flush it has not *)
(* processed at the end of an earlier one.                                  *)
THEOREM AnnouncedOnlyOnce ==
    ASSUME ~MayFail, MaxResets = 0
    PROVE  Spec => AnnouncedOnce
  <1> DEFINE J == IInv /\ resets \in Nat /\ LevelInv /\ RaisedInv
             Fresh == events # <<>> /\ events' = <<>> => Processed \cap announced = {}
  <1>1. Init => J
    BY InitHolds, AnnouncementsInit DEF IInv
  <1>2. J /\ [Next]_vars => J'
    BY StepKeeps, NoResets, LevelsKept, RaisedKept DEF IInv, Kept
  <1>3. J => Fresh
    <2> SUFFICES ASSUME J, NEW a \in Processed PROVE a \notin announced
      OBVIOUS
    <2>1. PICK i \in DOMAIN events : a = <<events[i].key, events[i].level>>
      BY XpKeyRows DEF Processed, IInv
    <2> QED BY <2>1 DEF RaisedInv
  <1>4. J /\ [Next]_vars => [Fresh]_vars
    BY <1>3
  <1> QED BY <1>1, <1>2, <1>4, PTL DEF Spec, AnnouncedOnce

(* While no statement fails, no guild is reset and no flush has more events *)
(* than its callback takes, every level a member of a guild has reached has *)
(* been through the callback once the flush is over.                        *)
THEOREM LevelUpsReachCallback ==
    ASSUME ~MayFail, MaxResets = 0
    PROVE  Spec /\ [](Len(events) <= MaxPerFlush) => []LevelUpsAnnounced
  <1> DEFINE J == IInv /\ resets \in Nat /\ LevelInv /\ RaisedInv /\ Promised
             Few == Len(events) <= MaxPerFlush
  <1>1. Init => J
    BY InitHolds, AnnouncementsInit DEF IInv
  <1>2. J /\ Few /\ [Next]_vars => J'
    BY StepKeeps, NoResets, LevelsKept, RaisedKept DEF IInv, Kept
  <1>3. J => LevelUpsAnnounced
    BY DEF RaisedInv, Promised, LevelUpsAnnounced
  <1> QED BY <1>1, <1>2, <1>3, PTL DEF Spec

(* A flush raises a row at most once: who is in its events has nothing left *)
(* swapped out.                                                             *)
EventsInv ==
    /\ flush.at \in {"none", "swapGuild", "swapCoins"} => events = <<>>
    /\ flush.at \in {"read", "level"} => snap[flush.key] = 0
    /\ \A i \in DOMAIN events :
         /\ snap[events[i].key] = 0
         /\ flush.at \in {"read", "level"} => events[i].key # flush.key
         /\ \A j \in DOMAIN events : events[i].key = events[j].key => i = j

LEMMA EventsQuietly ==
    ASSUME TypeOK, EventsInv, events' = events,
           \A k \in XpKeys : snap[k] = 0 => snap'[k] = 0,
           flush'.at \in {"none", "swapGuild", "swapCoins"} => events = <<>>,
           flush'.at \in {"read", "level"} =>
               /\ snap'[flush'.key] = 0
               /\ \A i \in DOMAIN events : events[i].key # flush'.key
    PROVE  EventsInv'
  <1>1. \A i \in DOMAIN events : snap'[events[i].key] = 0
    BY XpKeyRows DEF EventsInv
  <1> QED BY <1>1 DEF EventsInv

LEMMA EventsKept ==
    ASSUME TypeOK, EventsInv, [Next]_vars
    PROVE  EventsInv'
  <1>1. ASSUME UNCHANGED <<snap, flush, events>>
        PROVE  EventsInv'
    BY <1>1 DEF EventsInv
  <1>2. CASE \/ \E h \in Handlers : HandlerStep(h)
             \/ \E u \in Users : Register(u)
             \/ \E g \in Guilds : ResetGuild(g)
             \/ WriterStep \/ Stop \/ StopStep \/ UNCHANGED vars
    BY <1>1, <1>2
    DEF HandlerStep, HandleMessage, EnqueueGuild, EnqueueCoins, Register, ResetGuild,
        WriterStep, Loop, Sleep, Timeout, Stop, StopStep, Notify, Join, table, vars
  <1>3. CASE SwapGlobal \/ SwapGuild \/ SwapCoins
    <2>1. events' = <<>>
      BY <1>3 DEF SwapGlobal, SwapGuild, SwapCoins, Swap, EventsInv
    <2>2. flush'.at \notin {"read", "level"}
      BY <1>3, TypeParts DEF SwapGlobal, SwapGuild, SwapCoins, FlushDone, NoFlush, FlushType
    <2> QED BY <2>1, <2>2 DEF EventsInv
  <1>4. ASSUME NEW k \in XpKeys, Upsert(k) \/ UpsertFails(k)
        PROVE  EventsInv'
    <2>1. /\ flush.at = "write" /\ snap[k] > 0 /\ k \in Keys
          /\ snap' = [snap EXCEPT ![k] = 0] /\ events' = events
      BY <1>4, KeyFacts DEF Upsert, UpsertFails, Turn
    <2>2. snap'[k] = 0 /\ \A j \in XpKeys : snap[j] = 0 => snap'[j] = 0
      BY <2>1, KeyFacts, TypeParts DEF Amounts
    <2>3. flush' \in {flush, [flush EXCEPT !.at = "read", !.key = k]}
      BY <1>4 DEF Upsert, UpsertFails
    <2>4. flush'.at = "write" \/ (flush'.at = "read" /\ flush'.key = k)
      <3>1. CASE flush' = flush
        BY <2>1, <3>1
      <3>2. CASE flush' = [flush EXCEPT !.at = "read", !.key = k]
        BY <3>2, TypeParts DEF FlushType
      <3> QED BY <2>3, <3>1, <3>2
    <2>5. \A i \in DOMAIN events : events[i].key # k
      BY <2>1 DEF EventsInv
    <2> QED BY <2>1, <2>2, <2>4, <2>5, EventsQuietly
  <1>5. ASSUME NEW u \in Users, PayCoins(u) \/ PayCoinsFails(u)
        PROVE  EventsInv'
    <2>1. /\ flush' = flush /\ flush.at = "write" /\ events' = events
          /\ snap' = [snap EXCEPT ![<<u, Coins>>] = 0]
      BY <1>5 DEF PayCoins, PayCoinsFails, Turn
    <2>2. \A j \in XpKeys : snap[j] = 0 => snap'[j] = 0
      BY <2>1, KeyFacts, TypeParts DEF Amounts
    <2> QED BY <2>1, <2>2, EventsQuietly
  <1>6. CASE ReadBack \/ ReadBackFails
    <2>1. flush.at = "read" /\ snap' = snap /\ events' = events
      BY <1>6 DEF ReadBack, ReadBackFails
    <2>2. \/ flush' = [NoFlush EXCEPT !.at = "write"]
          \/ \E new, old : flush' = [flush EXCEPT !.at = "level", !.new = new, !.old = old]
      BY <1>6 DEF ReadBack, ReadBackFails
    <2>3. flush'.at = "write" \/ (flush'.at = "level" /\ flush'.key = flush.key)
      BY <2>2, TypeParts DEF NoFlush, FlushType
    <2> QED BY <2>1, <2>3, EventsQuietly DEF EventsInv
  <1>7. CASE SetLevel \/ SetLevelFails
    <2> DEFINE k == flush.key
               e == [key |-> k, level |-> flush.new]
    <2>1. flush.at = "level" /\ flush'.at = "write" /\ snap' = snap /\ k \in XpKeys
      BY <1>7, TypeParts DEF SetLevel, SetLevelFails, AfterLevel, NoFlush, FlushType
    <2>2. events' = events \/ events' = Append(events, e)
      BY <1>7 DEF SetLevel, SetLevelFails, AfterLevel
    <2>3. CASE events' = events
      BY <2>1, <2>3, EventsQuietly
    <2>4. CASE events' = Append(events, e)
      <3> DEFINE n == Len(events)
      <3>1. /\ n \in Nat /\ DOMAIN events = 1 .. n /\ DOMAIN events' = 1 .. n + 1
            /\ events'[n + 1] = e /\ \A i \in 1 .. n : events'[i] = events[i]
        BY <2>4, XpKeyRows
      <3>2. snap[k] = 0
        BY <2>1 DEF EventsInv
      <3>3. \A i \in 1 .. n : events[i].key # k /\ snap[events[i].key] = 0
        BY <2>1, <3>1 DEF EventsInv
      <3>4. \A i, j \in 1 .. n : events[i].key = events[j].key => i = j
        BY <3>1 DEF EventsInv
      <3>5. e.key = k
        OBVIOUS
      <3> HIDE DEF k, e, n
      <3>6. \A i \in 1 .. n + 1 : i \in 1 .. n \/ i = n + 1
        BY <3>1
      <3>7. ASSUME NEW i \in DOMAIN events'
            PROVE  /\ snap'[events'[i].key] = 0
                   /\ \A j \in DOMAIN events' : events'[i].key = events'[j].key => i = j
        <4>1. events'[i] = e \/ (i \in 1 .. n /\ events'[i] = events[i])
          BY <3>1, <3>6
        <4>2. snap'[events'[i].key] = 0
          BY <2>1, <3>2, <3>3, <3>5, <4>1
        <4>3. ASSUME NEW j \in DOMAIN events', events'[i].key = events'[j].key PROVE i = j
          <5>1. (i \in 1 .. n \/ i = n + 1) /\ (j \in 1 .. n \/ j = n + 1)
            BY <3>1, <3>6
          <5>2. CASE i \in 1 .. n /\ j \in 1 .. n
            BY <3>1, <3>4, <4>3, <5>2
          <5>3. CASE i \in 1 .. n /\ j = n + 1
            BY <3>1, <3>3, <3>5, <4>3, <5>3
          <5>4. CASE i = n + 1 /\ j \in 1 .. n
            BY <3>1, <3>3, <3>5, <4>3, <5>4
          <5> QED BY <5>1, <5>2, <5>3, <5>4
        <4> QED BY <4>2, <4>3
      <3> QED BY <2>1, <3>7 DEF EventsInv
    <2> QED BY <2>2, <2>3, <2>4
  <1>8. CASE Callback
    <2>1. events' = <<>> /\ flush'.at = "none"
      BY <1>8 DEF Callback, FlushDone, NoFlush
    <2> QED BY <2>1 DEF EventsInv
  <1> QED BY <1>2, <1>3, <1>4, <1>5, <1>6, <1>7, <1>8 DEF Next, FlushStep

LEMMA EventsCounted ==
    ASSUME TypeOK, EventsInv, IsFiniteSet(XpKeys)
    PROVE  Len(events) <= Cardinality(XpKeys)
  <1> DEFINE n == Len(events)
             keyAt == [i \in 1 .. n |-> events[i].key]
  <1>1. n \in Nat /\ DOMAIN events = 1 .. n
    BY XpKeyRows
  <1>2. keyAt \in [1 .. n -> XpKeys]
    BY <1>1, XpKeyRows
  <1>3. \A i, j \in 1 .. n : keyAt[i] = keyAt[j] => i = j
    BY <1>1 DEF EventsInv
  <1>4. Cardinality(XpKeys) \in Nat
    BY FS_CardinalityType
  <1> HIDE DEF n, keyAt
  <1>5. IsFiniteSet(1 .. n) /\ Cardinality(1 .. n) = IF 1 > n THEN 0 ELSE n - 1 + 1
    BY <1>1, FS_Interval
  <1>6. Cardinality(1 .. n) = n
    BY <1>1, <1>5
  <1>7. ~(Cardinality(XpKeys) < Cardinality(1 .. n))
    <2> SUFFICES ASSUME Cardinality(XpKeys) < Cardinality(1 .. n) PROVE FALSE
      OBVIOUS
    <2>1. \E x, y \in 1 .. n : x # y /\ keyAt[x] = keyAt[y]
      BY <1>2, <1>5, FS_PigeonHole, Zenon
    <2> QED BY <1>3, <2>1
  <1>8. n <= Cardinality(XpKeys)
    BY <1>1, <1>4, <1>6, <1>7
  <1> QED BY <1>8 DEF n

(* One flush raises a row at most once, whatever fails and whoever resets a *)
(* guild meanwhile: it has no more events than there are rows of user_xp.   *)
THEOREM FewEvents ==
    ASSUME IsFiniteSet(XpKeys)
    PROVE  Spec => [](Len(events) <= Cardinality(XpKeys))
  <1> DEFINE J == IInv /\ EventsInv
  <1>1. Init => J
    <2>1. Init => EventsInv
      BY DEF Init, EventsInv, NoFlush
    <2> QED BY <2>1, InitHolds DEF IInv
  <1>2. J /\ [Next]_vars => J'
    BY StepKeeps, EventsKept DEF IInv, Kept
  <1>3. J => Len(events) <= Cardinality(XpKeys)
    BY EventsCounted DEF IInv
  <1> QED BY <1>1, <1>2, <1>3, PTL DEF Spec

(* So where there are no more rows than the callback takes level-ups, as in *)
(* the run, every level a member of a guild reaches goes through it.        *)
THEOREM FewRowsAllAnnounced ==
    ASSUME ~MayFail, MaxResets = 0, IsFiniteSet(XpKeys), Cardinality(XpKeys) <= MaxPerFlush
    PROVE  Spec => []LevelUpsAnnounced
  <1>1. Spec => []TypeOK
    BY TypeCorrect
  <1>2. TypeOK /\ Len(events) <= Cardinality(XpKeys) => Len(events) <= MaxPerFlush
    BY XpKeyRows, FS_CardinalityType, FlushAssumption
  <1>3. Spec => [](Len(events) <= Cardinality(XpKeys))
    BY FewEvents
  <1>4. Spec /\ [](Len(events) <= MaxPerFlush) => []LevelUpsAnnounced
    BY LevelUpsReachCallback
  <1> QED BY <1>1, <1>2, <1>3, <1>4, PTL
=============================================================================
