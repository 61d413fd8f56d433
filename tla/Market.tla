------------------------------- MODULE Market -------------------------------
(***************************************************************************)
(* Items and coins that change hands: trade offers                         *)
(* (commands/economy/trading.h) and bazaar listings                        *)
(* (commands/economy/bazaar.h) over the rows of user_inventory             *)
(* (database/operations/economy/inventory_operations.cpp).                 *)
(*                                                                         *)
(* A command reads a post, decides, and then runs a fixed list of          *)
(* statements, each of its own transaction; commands run concurrently.     *)
(* task[h] is the list of statements the handler h has left, with the      *)
(* values it took from its reads.  update_wallet is one atomic step        *)
(* (AccountStore implements Ledger).  All posts are about one item, the    *)
(* level and metadata of its copies are left out, and so is which of the   *)
(* closed states (accepted, declined, sold, ...) a post ends in.           *)
(***************************************************************************)
EXTENDS Integers, Sequences, FiniteSets, SequencesExt

CONSTANTS
    Users,
    Handlers,
    Anyone,        \* a listing is addressed to nobody in particular
    StartCoins,    \* what each user has in the wallet
    StartRows,     \* the item's rows in user_inventory, for each user
    Quantities,
    Prices,        \* asking prices; a listing's are per unit
    MaxListings,   \* BAZAAR_MAX_LISTINGS
    MaxPosts       \* bound on the posts made

ASSUME UsersAssumption == IsFiniteSet(Users) /\ Anyone \notin Users
ASSUME HandlersAssumption == IsFiniteSet(Handlers)      \* the threads of the cluster
ASSUME StartAssumption ==
    /\ StartCoins \in [Users -> Nat]
    /\ StartRows \in [Users -> Seq(Nat)]
ASSUME NumbersAssumption ==
    /\ Quantities \subseteq Nat \ {0} /\ Prices \subseteq Nat
    /\ MaxPosts \in Nat

VARIABLES
    wallet,
    rows,       \* quantity of each row user_inventory has of the item
    posts,      \* trade_offers and bazaar_listings, in the order of their ids
    task,
    tax,        \* history: the tax withheld
    contested,  \* history: two commands have had one post in hand
    doubled     \* history: a user has had two purchases under way

vars == <<wallet, rows, posts, task, tax, contested, doubled>>

Post == [kind : {"offer", "listing"}, from : Users, to : Users \cup {Anyone},
         qty : Nat \ {0}, price : Nat, open : BOOLEAN]

(* The statements of the commands. *)
TakeOut(u, n) == [do |-> "remove", user |-> u, n |-> n]
Insert(p)     == [do |-> "insert", post |-> p]
Check(u, n)   == [do |-> "check", user |-> u, n |-> n]
Debit(u, n)   == [do |-> "debit", user |-> u, n |-> n]
Credit(u, n)  == [do |-> "credit", user |-> u, n |-> n]
Give(u, n)    == [do |-> "give", user |-> u, n |-> n]
NewRow(u, n)  == [do |-> "newRow", user |-> u, n |-> n]
Close(i)      == [do |-> "close", id |-> i]
Reduce(i, n)  == [do |-> "reduce", id |-> i, n |-> n]

Statement ==
    [do : {"remove", "check", "debit", "credit", "give", "newRow"}, user : Users, n : Nat]
    \cup [do : {"insert"}, post : Post]
    \cup [do : {"close"}, id : 1 .. MaxPosts]
    \cup [do : {"reduce"}, id : 1 .. MaxPosts, n : Nat]

TypeOK ==
    /\ wallet \in [Users -> Nat]
    /\ rows \in [Users -> Seq(Nat)]
    /\ posts \in Seq(Post) /\ Len(posts) <= MaxPosts
    /\ task \in [Handlers -> Seq(Statement)]
    /\ tax \in Nat
    /\ contested \in BOOLEAN /\ doubled \in BOOLEAN

Init ==
    /\ wallet = StartCoins
    /\ rows = StartRows
    /\ posts = <<>>
    /\ task = [h \in Handlers |-> <<>>]
    /\ tax = 0
    /\ contested = FALSE
    /\ doubled = FALSE

\* (int64_t)(price * 0.05)
Tax(n) == (n * 5) \div 100

Open(i) == i \in 1 .. Len(posts) /\ posts[i].open

Running(do) == {h \in Handlers : \E s \in ToSet(task[h]) : s.do = do}

\* The posts a running command has read and not yet written.
InHand == UNION {{s.id : s \in {r \in ToSet(task[h]) : r.do \in {"close", "reduce"}}} :
                    h \in Handlers}

\* Users with a purchase that is checked or not yet charged.
Buying == UNION {{s.user : s \in {r \in ToSet(task[h]) : r.do = "debit"}} :
                    h \in Handlers}

\* An idle handler takes up a command on the posts ids, to be paid by buyers.
Begin(h, statements, ids, buyers) ==
    /\ task[h] = <<>>
    /\ task' = [task EXCEPT ![h] = statements]
    /\ contested' = (contested \/ ids \cap InHand # {})
    /\ doubled' = (doubled \/ buyers \cap Buying # {})
    /\ UNCHANGED <<wallet, rows, posts, tax>>

-----------------------------------------------------------------------------
(* Commands: what each reads and the statements it then runs.               *)

\* Both posting commands find the item in the inventory they have read and
\* take it out of it before the INSERT.
Escrow(h, p) ==
    /\ Len(posts) + Cardinality(Running("insert")) < MaxPosts
    /\ \E i \in DOMAIN rows[p.from] : rows[p.from][i] >= p.qty
    /\ Begin(h, <<TakeOut(p.from, p.qty), Insert(p)>>, {}, {})

TradeOffer(h, u, v, n, price) ==
    /\ u # v
    /\ Escrow(h, [kind |-> "offer", from |-> u, to |-> v, qty |-> n,
                  price |-> price, open |-> TRUE])

ActiveListings(u) ==
    {i \in DOMAIN posts : posts[i].kind = "listing" /\ posts[i].from = u /\ posts[i].open}

BazaarSell(h, u, n, price) ==
    /\ price > 0
    /\ Cardinality(ActiveListings(u)) < MaxListings
    /\ Escrow(h, [kind |-> "listing", from |-> u, to |-> Anyone, qty |-> n,
                  price |-> price, open |-> TRUE])

Purchase(u, from, cost) == <<Debit(u, cost), Credit(from, cost)>>

\* Mutant: the offer is never marked accepted.
TradeAcceptUnmarked(h, i) ==
    LET p == posts[i]
    IN  /\ Open(i) /\ p.kind = "offer"
        /\ Begin(h, (IF p.price > 0
                     THEN <<Check(p.to, p.price)>> \o Purchase(p.to, p.from, p.price)
                     ELSE <<>>)
                    \o <<Give(p.to, p.qty)>>,
                 {i}, IF p.price > 0 THEN {p.to} ELSE {})

TradeAccept(h, i) ==
    LET p == posts[i]
    IN  /\ Open(i) /\ p.kind = "offer"
        /\ Begin(h, (IF p.price > 0
                     THEN <<Check(p.to, p.price)>> \o Purchase(p.to, p.from, p.price)
                     ELSE <<>>)
                    \o <<Give(p.to, p.qty), Close(i)>>,
                 {i}, IF p.price > 0 THEN {p.to} ELSE {})

\* trade decline by the recipient, trade cancel by the sender.
TradeReturn(h, i) ==
    /\ Open(i) /\ posts[i].kind = "offer"
    /\ Begin(h, <<Give(posts[i].from, posts[i].qty), Close(i)>>, {i}, {})

\* Mutant: the funds are not checked first.
BazaarBuyUnchecked(h, i, u, n) ==
    LET p == posts[i]
        left == p.qty - n
    IN  /\ Open(i) /\ p.kind = "listing" /\ p.from # u /\ n <= p.qty
        /\ Begin(h, <<IF left > 0 THEN Reduce(i, left) ELSE Close(i),
                      Debit(u, p.price * n), Give(u, n), Credit(p.from, p.price * n)>>,
                 {i}, {u})

\* SELECT ... FOR UPDATE, but no transaction: the lock ends with the statement.
BazaarBuy(h, i, u, n) ==
    LET p == posts[i]
        left == p.qty - n
    IN  /\ Open(i) /\ p.kind = "listing" /\ p.from # u /\ n <= p.qty
        /\ Begin(h, <<Check(u, p.price * n),
                      IF left > 0 THEN Reduce(i, left) ELSE Close(i),
                      Debit(u, p.price * n), Give(u, n), Credit(p.from, p.price * n)>>,
                 {i}, {u})

BazaarCancel(h, i) ==
    /\ Open(i) /\ posts[i].kind = "listing"
    /\ Begin(h, <<Close(i), Give(posts[i].from, posts[i].qty)>>, {i}, {})

Returns(order) ==
    [k \in 1 .. 2 * Len(order) |->
        LET i == order[(k + 1) \div 2]
        IN  IF k % 2 = 1 THEN Give(posts[i].from, posts[i].qty) ELSE Close(i)]

\* Every trade and bazaar command first returns what has expired; which posts
\* those are is up to the clock, and their order up to the server.
Expire(h, ids) ==
    /\ ids # {} /\ \A i \in ids : Open(i)
    /\ Cardinality({posts[i].kind : i \in ids}) = 1
    /\ \E order \in [1 .. Cardinality(ids) -> ids] :
          /\ IsInjective(order)
          /\ Begin(h, Returns(order), ids, {})

-----------------------------------------------------------------------------
(* Statements.                                                              *)

Next1(h) == task' = [task EXCEPT ![h] = Tail(@)]
Stop(h)  == task' = [task EXCEPT ![h] = <<>>]
At(h, do) == task[h] # <<>> /\ Head(task[h]).do = do

\* remove_item: UPDATE ... quantity >= ? LIMIT 1, or "failed to escrow item".
RemoveItem(h) ==
    LET s == Head(task[h])
    IN  /\ At(h, "remove")
        /\ \/ \E i \in DOMAIN rows[s.user] :
                 /\ rows[s.user][i] >= s.n
                 /\ rows' = [rows EXCEPT ![s.user][i] = @ - s.n]
                 /\ Next1(h)
           \/ /\ \A i \in DOMAIN rows[s.user] : rows[s.user][i] < s.n
              /\ Stop(h)
              /\ UNCHANGED rows
        /\ UNCHANGED <<wallet, posts, tax, contested, doubled>>

InsertPost(h) ==
    /\ At(h, "insert")
    /\ posts' = Append(posts, Head(task[h]).post)
    /\ Next1(h)
    /\ UNCHANGED <<wallet, rows, tax, contested, doubled>>

\* Mutant: the item is not given back.
InsertFailsLosing(h) ==
    /\ At(h, "insert")
    /\ Stop(h)
    /\ UNCHANGED <<wallet, rows, posts, tax, contested, doubled>>

\* No connection, or the INSERT fails: the item goes back.
InsertFails(h) ==
    LET p == Head(task[h]).post
    IN  /\ At(h, "insert")
        /\ task' = [task EXCEPT ![h] = <<Give(p.from, p.qty)>>]
        /\ UNCHANGED <<wallet, rows, posts, tax, contested, doubled>>

\* "you need $... but only have $..."
CheckFunds(h) ==
    LET s == Head(task[h])
    IN  /\ At(h, "check")
        /\ \/ wallet[s.user] >= s.n /\ Next1(h)
           \/ wallet[s.user] < s.n /\ Stop(h)
        /\ UNCHANGED <<wallet, rows, posts, tax, contested, doubled>>

\* Mutant: update_wallet lets a balance fall below zero.
DebitBuyerAnyway(h) ==
    LET s == Head(task[h])
    IN  /\ At(h, "debit")
        /\ wallet' = [wallet EXCEPT ![s.user] = @ - s.n]
        /\ Next1(h)
        /\ UNCHANGED <<rows, posts, tax, contested, doubled>>

\* update_wallet(buyer, -cost): refused below zero, and nobody looks.
DebitBuyer(h) ==
    LET s == Head(task[h])
    IN  /\ At(h, "debit")
        /\ wallet' = [wallet EXCEPT ![s.user] = IF @ >= s.n THEN @ - s.n ELSE @]
        /\ Next1(h)
        /\ UNCHANGED <<rows, posts, tax, contested, doubled>>

CreditSeller(h) ==
    LET s == Head(task[h])
    IN  /\ At(h, "credit")
        /\ wallet' = [wallet EXCEPT ![s.user] = @ + s.n - Tax(s.n)]
        /\ tax' = tax + Tax(s.n)
        /\ Next1(h)
        /\ UNCHANGED <<rows, posts, contested, doubled>>

\* add_item: UPDATE ... LIMIT 1, and when there is no row an INSERT after it.
AddItem(h) ==
    LET s == Head(task[h])
    IN  /\ At(h, "give")
        /\ \/ \E i \in DOMAIN rows[s.user] :
                 /\ rows' = [rows EXCEPT ![s.user][i] = @ + s.n]
                 /\ Next1(h)
           \/ /\ rows[s.user] = <<>>
              /\ task' = [task EXCEPT ![h] = <<NewRow(s.user, s.n)>> \o Tail(@)]
              /\ UNCHANGED rows
        /\ UNCHANGED <<wallet, posts, tax, contested, doubled>>

\* The unique key does not tell rows of the global economy apart: guild_id is NULL.
AddRow(h) ==
    LET s == Head(task[h])
    IN  /\ At(h, "newRow")
        /\ rows' = [rows EXCEPT ![s.user] = Append(@, s.n)]
        /\ Next1(h)
        /\ UNCHANGED <<wallet, posts, tax, contested, doubled>>

\* UPDATE ... SET status = ... WHERE id = ...: whatever the status is by now.
ClosePost(h) ==
    /\ At(h, "close")
    /\ posts' = [posts EXCEPT ![Head(task[h]).id].open = FALSE]
    /\ Next1(h)
    /\ UNCHANGED <<wallet, rows, tax, contested, doubled>>

\* UPDATE ... SET quantity = <remaining>, computed when the listing was read.
ReduceListing(h) ==
    LET s == Head(task[h])
    IN  /\ At(h, "reduce")
        /\ posts' = [posts EXCEPT ![s.id].qty = s.n]
        /\ Next1(h)
        /\ UNCHANGED <<wallet, rows, tax, contested, doubled>>

-----------------------------------------------------------------------------
Command(h) ==
    \/ \E u, v \in Users, n \in Quantities, price \in Prices : TradeOffer(h, u, v, n, price)
    \/ \E u \in Users, n \in Quantities, price \in Prices : BazaarSell(h, u, n, price)
    \/ \E i \in DOMAIN posts : TradeAccept(h, i) \/ TradeReturn(h, i) \/ BazaarCancel(h, i)
    \/ \E i \in DOMAIN posts, u \in Users, n \in Quantities : BazaarBuy(h, i, u, n)
    \/ \E ids \in SUBSET DOMAIN posts : Expire(h, ids)

Step(h) ==
    \/ RemoveItem(h) \/ InsertPost(h) \/ InsertFails(h)
    \/ CheckFunds(h) \/ DebitBuyer(h) \/ CreditSeller(h)
    \/ AddItem(h) \/ AddRow(h) \/ ClosePost(h) \/ ReduceListing(h)

Next == \E h \in Handlers : Command(h) \/ Step(h)

Spec == Init /\ [][Next]_vars

-----------------------------------------------------------------------------
(* Properties.                                                              *)

Quiet == \A h \in Handlers : task[h] = <<>>

\* The units a function with values in Nat stands for, and how many they are.
Units(f) == UNION {{x} \X (1 .. f[x]) : x \in DOMAIN f}
Total(f) == Cardinality(Units(f))

OpenQty(p) == IF p.open THEN p.qty ELSE 0

Items(inventories) == Total([u \in Users |-> Total(inventories[u])])
Escrowed == Total([i \in DOMAIN posts |-> OpenQty(posts[i])])

\* trading.h:24-25 "item moved to recipient", "item returned to sender": every copy
\* is in an inventory or in an open post, and in one of them only.
EscrowHolds == Quiet => Items(rows) + Escrowed = Items(StartRows)

\* Escrow holds however commands interleave, those that take the same copies out
\* of one inventory included, as long as no two commands have one post in hand.
EscrowHoldsUncontested == ~contested => EscrowHolds

\* Two commands on one post can hand its items out twice, but no interleaving and
\* no failing INSERT makes a copy vanish.
NothingLost == Quiet => Items(rows) + Escrowed >= Items(StartRows)

\* Coins are moved or taxed, never made, as long as no user has two purchases
\* under way: the debit's result is ignored, and only a second purchase can make
\* it differ from the check.
CoinsConserved == Quiet /\ ~doubled => Total(wallet) + tax = Total(StartCoins)

\* inventory_operations.cpp:27 "so we never create duplicate rows".
OneRowEach == \A u \in Users : Len(rows[u]) <= 1
=============================================================================
